------------------------------- MODULE MdnsNames -------------------------------
(***************************************************************************)
(* Texts of names and records, and what the scanner (MdnsNames,            *)
(* RecordLabels, DiscoveryRecord, DeviceRegistry, DiscoveryJson) and the   *)
(* Discovery API (mdns_names.py) read out of them.                         *)
(*                                                                         *)
(* A text is a sequence of tokens: pieces of text that the code never      *)
(* looks into.  A dot, a bar and a blank are tokens of their own, because  *)
(* names are cut at dots, keys are joined with bars, and the API strips    *)
(* blanks; so are the words the code searches for.                         *)
(***************************************************************************)
EXTENDS Integers, Sequences, SequencesExt, FiniteSets

Empty == <<>>
Dot == "."
Bar == "|"
Blank == " "
Raw == "\\x01"       \* a byte that may not stand in a JSON text as it is
TargetIs == " target="

TcpLocal == <<Dot, "_tcp", Dot, "local">>
UdpLocal == <<Dot, "_udp", Dot, "local">>
DotLocal == <<Dot, "local">>
DotArpa == <<Dot, "arpa">>

kDnsSdMetaService == <<"_services", Dot, "_dns-sd">> \o UdpLocal

A == "A"
AAAA == "AAAA"
PTR == "PTR"
SRV == "SRV"
TXT == "TXT"

--------------------------------------------------------------------------------
(* std::string, by what the code uses of it.                               *)

ends_with(s, suffix) == IsSuffix(suffix, s)

\* s.find(part) and s.rfind(part): where part starts in s, 0 if nowhere.
Places(s, part) ==
  {i \in 1..(Len(s) - Len(part) + 1) : SubSeq(s, i, i + Len(part) - 1) = part}
find(s, part) ==
  IF Places(s, part) = {} THEN 0
  ELSE CHOOSE i \in Places(s, part) : \A j \in Places(s, part) : i <= j
rfind(s, part) ==
  IF Places(s, part) = {} THEN 0
  ELSE CHOOSE i \in Places(s, part) : \A j \in Places(s, part) : j <= i

From(s, i) == SubSeq(s, i, Len(s))

--------------------------------------------------------------------------------
(* MdnsNames.cpp: the kinds of names.                                      *)

has_mdns_service_suffix(name) == ends_with(name, TcpLocal) \/ ends_with(name, UdpLocal)

label_count(name) ==
  IF name = Empty THEN 0 ELSE 1 + Cardinality({i \in DOMAIN name : name[i] = Dot})

is_service_type_name(name) ==
  /\ has_mdns_service_suffix(name) /\ name # kDnsSdMetaService
  /\ label_count(name) = 3

is_instance_name(name) ==
  /\ has_mdns_service_suffix(name) /\ name # kDnsSdMetaService
  /\ label_count(name) >= 4

\* Of an instance name: from the dot before ._tcp.local on, wherever in the
\* name that stands last; ._udp.local is searched for only where it is missing.
service_type_from_name(name) ==
  LET transport == IF rfind(name, TcpLocal) # 0 THEN rfind(name, TcpLocal)
                   ELSE rfind(name, UdpLocal)
      before == rfind(SubSeq(name, 1, transport - 1), <<Dot>>)
  IN  CASE is_service_type_name(name) -> name
        [] ~is_service_type_name(name) /\ is_instance_name(name)
             /\ transport > 1 /\ before # 0 -> From(name, before + 1)
        [] OTHER -> Empty

--------------------------------------------------------------------------------
(* Records, as [owner, type, rdata] (ResourceRecordView).                  *)

contains_arpa(name) == find(name, DotArpa) # 0

is_audit_relevant_record(rec) ==
  CASE rec.type = PTR ->
         /\ ~contains_arpa(rec.owner) /\ ~contains_arpa(rec.rdata)
         /\ \/ rec.owner = kDnsSdMetaService /\ is_service_type_name(rec.rdata)
            \/ is_service_type_name(rec.owner) /\ is_instance_name(rec.rdata)
    [] rec.type \in {SRV, TXT} ->
         is_instance_name(rec.owner) \/ is_service_type_name(rec.owner)
    [] rec.type \in {A, AAAA} -> ends_with(rec.owner, DotLocal)
    [] OTHER -> FALSE

\* MdnsPacketInterpreter.cpp
is_displayable_record(rec) ==
  rec.type \in {A, PTR, SRV, TXT} /\ is_audit_relevant_record(rec)

\* join_key over the strings of a record.  Records of one type have one number.
JoinKey(parts) ==
  LET key[n \in DOMAIN parts] ==
        IF n = 1 THEN parts[1] ELSE key[n - 1] \o <<Bar>> \o parts[n]
  IN  key[Len(parts)]
\* Fault: a changed value has the key of the one it replaces.
record_content_keyFault(rec) == JoinKey(<<rec.owner, <<rec.type>>>>)
record_content_key(rec) == JoinKey(<<rec.owner, <<rec.type>>, rec.rdata>>)
\* Fault: the device is left out.
record_store_keyFault(ip, rec) == record_content_key(rec)
record_store_key(ip, rec) == JoinKey(<<<<ip>>, record_content_key(rec)>>)

--------------------------------------------------------------------------------
(* RecordLabels.cpp: the labels printed and posted with a record.          *)

extract_after_prefix(text, prefix) ==
  IF find(text, prefix) = 0 THEN Empty ELSE From(text, find(text, prefix) + Len(prefix))

service_label(rec) ==
  IF rec.type = PTR /\ has_mdns_service_suffix(rec.rdata) THEN rec.rdata
  ELSE IF has_mdns_service_suffix(rec.owner) THEN rec.owner
  ELSE Empty

host_label(rec) ==
  LET target == extract_after_prefix(rec.rdata, <<TargetIs>>)
      local == ends_with(rec.owner, DotLocal)
  IN  CASE rec.type = SRV -> target
        [] rec.type \in {A, AAAA} ->
             IF local THEN rec.owner ELSE rec.owner \o <<Blank, "(">> \o rec.rdata \o <<")">>
        [] rec.type = TXT /\ local /\ ~has_mdns_service_suffix(rec.owner) -> rec.owner
        [] OTHER -> Empty

--------------------------------------------------------------------------------
(* DeviceRegistry::merge_records: what one record tells of its device.     *)

Nonempty(texts) == texts \ {Empty}

InstancesOf(rec) ==
  IF rec.type = PTR /\ is_service_type_name(rec.owner) /\ is_instance_name(rec.rdata)
  THEN {rec.rdata} ELSE {}

\* Fault: a TXT record tells nothing.
ServiceTypesOfFault(rec) ==
  (IF rec.type = PTR /\ rec.owner = kDnsSdMetaService /\ is_service_type_name(rec.rdata)
   THEN {rec.rdata} ELSE {})
  \cup Nonempty({service_type_from_name(name) : name \in InstancesOf(rec)})
  \cup (IF rec.type = SRV THEN Nonempty({service_type_from_name(rec.owner)}) ELSE {})
ServiceTypesOf(rec) ==
  (IF rec.type = PTR /\ rec.owner = kDnsSdMetaService /\ is_service_type_name(rec.rdata)
   THEN {rec.rdata} ELSE {})
  \cup Nonempty({service_type_from_name(name) : name \in InstancesOf(rec)})
  \cup (IF rec.type \in {SRV, TXT} THEN Nonempty({service_type_from_name(rec.owner)}) ELSE {})

\* Fault: the first host stays.
HostAfterRecordFault(host, rec) ==
  CASE rec.type = SRV /\ host_label(rec) # Empty /\ host = Empty -> host_label(rec)
    [] rec.type = A /\ ends_with(rec.owner, DotLocal) /\ host = Empty -> rec.owner
    [] OTHER -> host
\* The host of the snapshot after the record: that of an SRV record, or the
\* owner of an A record where there is none.
HostAfterRecord(host, rec) ==
  CASE rec.type = SRV /\ host_label(rec) # Empty -> host_label(rec)
    [] rec.type = A /\ ends_with(rec.owner, DotLocal) /\ host = Empty -> rec.owner
    [] OTHER -> host

--------------------------------------------------------------------------------
(* mdns_names.py: what the API reads out of the same record, posted with its *)
(* labels.                                                                 *)

\* str.strip
Strip(text) ==
  LET kept == {i \in 1..Len(text) : text[i] # Blank}
  IN  IF kept = {} THEN Empty
      ELSE SubSeq(text, CHOOSE i \in kept : \A j \in kept : i <= j,
                        CHOOSE i \in kept : \A j \in kept : j <= i)

ptr_rdata(rec) ==
  Strip(IF service_label(rec) # Empty THEN service_label(rec) ELSE rec.rdata)

\* Fault: TXT records are not looked at.
service_types_from_recordFault(rec) ==
  CASE rec.type = PTR /\ rec.owner = kDnsSdMetaService ->
         IF is_service_type_name(ptr_rdata(rec)) THEN {ptr_rdata(rec)} ELSE {}
    [] rec.type = PTR /\ is_service_type_name(rec.owner) ->
         IF is_instance_name(ptr_rdata(rec))
         THEN Nonempty({service_type_from_name(ptr_rdata(rec))}) ELSE {}
    [] rec.type = SRV -> Nonempty({service_type_from_name(rec.owner)})
    [] OTHER -> {}
service_types_from_record(rec) ==
  CASE rec.type = PTR /\ rec.owner = kDnsSdMetaService ->
         IF is_service_type_name(ptr_rdata(rec)) THEN {ptr_rdata(rec)} ELSE {}
    [] rec.type = PTR /\ is_service_type_name(rec.owner) ->
         IF is_instance_name(ptr_rdata(rec))
         THEN Nonempty({service_type_from_name(ptr_rdata(rec))}) ELSE {}
    [] rec.type \in {SRV, TXT} -> Nonempty({service_type_from_name(rec.owner)})
    [] OTHER -> {}

--------------------------------------------------------------------------------
(* DiscoveryJson.cpp: json_escape knows five characters.  Any other control *)
(* character, and bytes that are not UTF-8, go into the body as they are.  *)

ValidJson(rec) == Raw \notin ToSet(rec.owner) \cup ToSet(rec.rdata)
================================================================================
