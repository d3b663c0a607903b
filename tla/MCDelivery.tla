------------------------------ MODULE MCDelivery ------------------------------
(***************************************************************************)
(* Delivery for TLC: two devices whose responses bring a host that changes *)
(* and changes back, records the filter must and must not hold back, names *)
(* with a dot, a blank, a bar or a second suffix in them, and a record the *)
(* JSON of which is not JSON; a queue of one, so that it overflows.        *)
(***************************************************************************)
EXTENDS Delivery

Rec(owner, type, rdata) == [owner |-> owner, type |-> type, rdata |-> rdata]
Srv(owner, host) == Rec(owner, SRV, <<"priority=0 weight=0 port=80", TargetIs>> \o host)

Http == <<"_http">> \o TcpLocal
Ipp == <<"_ipp">> \o UdpLocal
Raop == <<"_raop">> \o TcpLocal
Tv == <<"tv", Dot>> \o Http
Dotted == <<"tv", Dot, "2", Dot>> \o Http
HostA == <<"a">> \o DotLocal
HostB == <<"b">> \o DotLocal

Browse(type) == Rec(kDnsSdMetaService, PTR, type)
Instance(type, name) == Rec(type, PTR, name)

\* All of one device's records, with two services on one host, and the last
\* record in two sections.
Announcement ==
  [ip |-> "ip1", records |-> <<Browse(Http), Instance(Http, Tv), Srv(Tv, HostA), Srv(Dotted, HostA),
                              Rec(Tv, TXT, <<"v=1">>), Rec(Tv, TXT, <<"v=1">>)>>]
OtherHost == [ip |-> "ip1", records |-> <<Srv(Tv, HostB), Srv(Dotted, Empty)>>]
Addresses ==
  [ip |-> "ip1", records |-> <<Rec(HostA, A, <<"10", Dot, "0">>), Rec(HostA, AAAA, <<"fe80">>),
                              Rec(<<"10">> \o DotArpa, PTR, HostA), Rec(HostA, TXT, <<"v=1">>),
                              Instance(Http, <<"(malformed PTR record)">>)>>]
SameOfOther ==
  [ip |-> "ip2", records |-> <<Rec(Tv, TXT, <<"v=1">>), Rec(HostB, A, <<"10", Dot, "1">>)>>]
Blanks == [ip |-> "ip2", records |-> <<Browse(<<Blank>> \o Ipp)>>]
TwoSuffixes ==
  [ip |-> "ip2", records |-> <<Rec(<<"x", Dot>> \o Http \o UdpLocal, TXT, Empty)>>]
\* Two records of two hosts with one key: the bar of the first one's owner stands
\* where the key of the second one has it from join_key.
Bars ==
  LET rest == Raop \o <<Bar, SRV, Bar, TargetIs>> \o HostA
  IN  [ip |-> "ip2",
       records |-> <<Rec(Tv \o <<Bar, SRV, Bar, TargetIs>> \o Raop, SRV, <<TargetIs>> \o HostA),
                     Rec(Tv, SRV, <<TargetIs>> \o rest)>>]
\* An instance name of which the API makes the meta service, and one it keeps.
Hidden ==
  [ip |-> "ip2", records |-> <<Instance(Http, <<Blank>> \o kDnsSdMetaService),
                              Instance(Raop, <<"tv", Dot>> \o Raop)>>]
NotJson == [ip |-> "ip1", records |-> <<Rec(Dotted, TXT, <<Raw>>)>>]

MCPackets ==
  {Announcement, OtherHost, Addresses, SameOfOther, Blanks, TwoSuffixes, Bars, Hidden, NotJson}

MCToken ==
  {Bar, A, AAAA, PTR, SRV, TXT} \cup {p.ip : p \in MCPackets}
    \cup UNION {ToSet(rec.owner) \cup ToSet(rec.rdata) : rec \in UNION {ToSet(p.records) : p \in MCPackets}}

\* service_type_from_name is the last three labels of the names it is meant for,
\* and nothing of the others.
Texts == UNION {[1..n -> {Dot, "_tcp", "_udp", "local", "tv"}] : n \in 0..7}
ASSUME ServiceTypeIsLastThree ==
  \A name \in Texts \cup {kDnsSdMetaService, Dotted} :
    service_type_from_name(name) =
      IF ~has_mdns_service_suffix(name) \/ label_count(name) < 3 \/ name = kDnsSdMetaService
      THEN Empty
      ELSE IF Nested(name) THEN service_type_from_name(name) ELSE LastThree(name)
===============================================================================
