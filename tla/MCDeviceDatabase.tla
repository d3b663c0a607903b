--------------------------- MODULE MCDeviceDatabase ---------------------------
(***************************************************************************)
(* DeviceDatabase for TLC: two addresses, two MACs, two hosts, and events  *)
(* that name a host in an SRV record, in another record, or not at all,    *)
(* with a MAC, without one, or with one that does not parse.               *)
(***************************************************************************)
EXTENDS DeviceDatabase, TLC

CONSTANTS ip1, ip2, mac1, mac2, host1, host2, type1

Srv(h) == [srv |-> TRUE, host |-> h]
NotSrv(h) == [srv |-> FALSE, host |-> h]

Posted(ip, mac, seen, records, services) ==
  [ip |-> ip, mac |-> mac, seen |-> seen, records |-> records, services |-> services]

MCEvent ==
  {Posted(ip1, None, 1, <<Srv(host1)>>, {}),
   Posted(ip1, mac1, 2, <<NotSrv(None)>>, {type1}),
   Posted(ip1, mac2, 1, <<NotSrv(host2)>>, {}),
   Posted(ip2, mac1, 0, <<NotSrv(host2), Srv(host1)>>, {}),
   Posted(ip2, None, 2, <<Srv(host2)>>, {type1}),
   Posted(ip2, Garbled, 1, <<NotSrv(None), NotSrv(host1)>>, {type1})}

MCSymmetry == Permutations(Request)

\* merge_mdns_host over the records of an event, said without the loop: the last
\* SRV host wins; else the host there was stays; else the first host is taken.
HostReference(current, records) ==
  LET Named == {i \in 1..Len(records) : records[i].host # None}
      Srvs == {i \in Named : records[i].srv}
  IN  CASE Srvs # {} -> records[CHOOSE i \in Srvs : \A j \in Srvs : j <= i].host
        [] Srvs = {} /\ current # None -> current
        [] Srvs = {} /\ current = None /\ Named # {} ->
             records[CHOOSE i \in Named : \A j \in Named : i <= j].host
        [] OTHER -> None

ASSUME HostAfterIsReference ==
  \A current \in Host \cup {None}, n \in 0..3 : \A records \in [1..n -> Record] :
    HostAfter(current, records) = HostReference(current, records)
================================================================================
