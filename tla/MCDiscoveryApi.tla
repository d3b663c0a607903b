---------------------------- MODULE MCDiscoveryApi ----------------------------
(***************************************************************************)
(* DiscoveryApi for TLC: three requests, which meet on one device or on    *)
(* two, on one address or on two, in a process that may be killed once.    *)
(***************************************************************************)
EXTENDS DiscoveryApi

CONSTANTS ip1, ip2, mac1, host1, host2

Posted(ip, mac, seen, host) ==
  [ip |-> ip, mac |-> mac, seen |-> seen, records |-> <<[srv |-> TRUE, host |-> host]>>,
   services |-> {}]

MCEvent == {Posted(ip1, None, 1, host1), Posted(ip2, mac1, 2, host2)}
================================================================================
