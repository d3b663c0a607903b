-------------------------------- MODULE Delivery --------------------------------
(***************************************************************************)
(* The way of a record from a decoded response to the database of the API: *)
(* create_discovery_event, ChangeFilteredEventSink with DeviceStateStore,  *)
(* DeviceRegistry for the console, HttpEventSink and the API, as main.cpp  *)
(* puts them together.  The parts with a specification of their own stand  *)
(* for themselves: the queue of HttpEventSink is DropOldest, which that    *)
(* module is shown to implement, and an event that reaches the API does to *)
(* the database what DeviceDatabase says.                                  *)
(*                                                                         *)
(* The worker hears a response and goes through filter, registry and       *)
(* on_event in one step: no other thread reads the filter or the registry. *)
(* Events are numbered in the order of on_event.  Times and TTLs are left  *)
(* out: nothing here depends on them.  No MAC is known, and so the API     *)
(* tells devices apart by their address.                                   *)
(***************************************************************************)
EXTENDS MdnsNames

CONSTANTS
  Token,          \* what texts are made of
  Packets,        \* responses: [ip, records], records in the order of the packet
  Capacity,       \* HttpEventSinkConfig::max_queue_size
  None,           \* SQL NULL
  MaxPackets,     \* bound: responses heard
  MaxUnanswered,  \* bound: requests taken or delayed whose answer is lost
  MaxRestarts     \* bound: times the scanner is killed or stopped, and started again

\* A record has texts as its owner name and as its RDATA, and a type.
ResourceRecordView == [owner : Seq(Token), type : Token, rdata : Seq(Token)]
ASSUME PacketsAssumption ==
  Bar \in Token /\ Packets \subseteq [ip : Token, records : Seq(ResourceRecordView)]

\* NULL is no address and no host.
ASSUME NullAssumption == None \notin Token /\ None \notin Seq(Token)
ASSUME BoundsAssumption == MaxPackets \in Nat /\ MaxUnanswered \in Nat

VARIABLES
  heard,       \* history: responses heard since the scanner was started
  seen_keys,   \* DeviceStateStore::seen_keys_
  devices,     \* DeviceRegistry::devices_
  sent,        \* history: every event printed and queued, by its number
  offered, head, handed,   \* the queue of HttpEventSink, as in DropOldest
  posting,     \* the poster has event `handed' in its hands
  delayed,     \* events in requests the client gave up that may still arrive
  gone,        \* history: events a full queue gave up, or that died with the scanner
  first,       \* history: number of the first event of this start of the scanner
  db,          \* the database, as in DeviceDatabase
  packets, unanswered, restarts   \* history, for the bounds

worker == <<heard, seen_keys, devices, sent, packets>>
queue == <<offered, head, handed>>
vars == <<worker, queue, posting, delayed, gone, first, db, unanswered, restarts>>

Ip == {p.ip : p \in Packets}
Requests == 1..(MaxPackets + MaxUnanswered)

Queue == INSTANCE DropOldest
\* Mac is empty: no lookup finds one.  Host, ServiceType and Event are for the
\* types and the next-state relation of DeviceDatabase, not used here.
Api == INSTANCE DeviceDatabase WITH
  Request <- Requests, Mac <- {}, Host <- {}, ServiceType <- {}, Garbled <- "garbled",
  Event <- {}

--------------------------------------------------------------------------------
(* The worker.                                                             *)

\* Of the records at the places `shown', those whose key is neither known nor
\* that of an earlier one.
FirstOfKey(records, shown, keys, known) ==
  LET new(n) == /\ n \in shown /\ keys[n] \notin known
                /\ \A j \in shown : j < n => keys[j] # keys[n]
      kept[n \in 0..Len(records)] ==
        IF n = 0 THEN <<>>
        ELSE IF new(n) THEN Append(kept[n - 1], records[n]) ELSE kept[n - 1]
  IN  kept[Len(records)]

create_discovery_event(p) ==
  LET shown == {i \in DOMAIN p.records : is_displayable_record(p.records[i])}
      keys == [i \in DOMAIN p.records |-> record_content_key(p.records[i])]
  IN  [ip |-> p.ip, records |-> FirstOfKey(p.records, shown, keys, {})]

StoreKeys(ev) == {record_store_key(ev.ip, rec) : rec \in ToSet(ev.records)}

\* DeviceStateStore::filter_unseen
filter_unseen(ev) ==
  LET keys == [i \in DOMAIN ev.records |-> record_store_key(ev.ip, ev.records[i])]
  IN  [ev EXCEPT !.records = FirstOfKey(@, DOMAIN @, keys, seen_keys)]

NoSnapshot == [mdns_host |-> Empty, service_types |-> {}, instances |-> {}]

\* DeviceRegistry::merge_records
merge_records(snap, ev) ==
  LET host[n \in 0..Len(ev.records)] ==
        IF n = 0 THEN snap.mdns_host ELSE HostAfterRecord(host[n - 1], ev.records[n])
      told == ToSet(ev.records)
  IN  [mdns_host |-> host[Len(ev.records)],
       service_types |-> snap.service_types \cup UNION {ServiceTypesOf(rec) : rec \in told},
       instances |-> snap.instances \cup UNION {InstancesOf(rec) : rec \in told}]

\* HttpEventSink::on_event, and what a full queue gives up for it.
Enqueue ==
  /\ Queue!Offer
  /\ gone' = IF offered - head = Capacity THEN gone \cup {head + 1} ELSE gone

\* DeviceRegistry::apply; no response comes without an address.
apply(ev) == devices' = [devices EXCEPT ![ev.ip] = merge_records(@, ev)]

\* DeviceSummaryEventSink, with StdoutEventSink inside: registry, then print.
Console(ev) == apply(ev) /\ sent' = Append(sent, ev)

\* CompositeEventSink: the console, then the queue of the poster.
Output(ev) == Console(ev) /\ Enqueue

\* ChangeFilteredEventSink: a response with nothing new in it ends here.
OnEvent(ev) ==
  IF ev.records = <<>> THEN UNCHANGED <<devices, sent, queue, gone>> ELSE Output(ev)

Hear(p) ==
  /\ packets < MaxPackets
  /\ packets' = packets + 1
  /\ heard' = Append(heard, p)
  /\ seen_keys' = seen_keys \cup StoreKeys(create_discovery_event(p))
  /\ OnEvent(filter_unseen(create_discovery_event(p)))
  /\ UNCHANGED <<posting, delayed, first, db, unanswered, restarts>>

--------------------------------------------------------------------------------
(* The poster and the API.  A request that is lost changes nothing: the     *)
(* poster keeps its event and posts it again.                               *)

\* A record as the API reads it: DiscoveryJson writes its host label and its
\* names, mdns_names.py takes the service types from those.  A table, because
\* it is the same for every event the record is in.
AllRecords == UNION {ToSet(p.records) : p \in Packets}
Posted == [rec \in AllRecords |->
  [srv |-> rec.type = SRV,
   host |-> IF host_label(rec) = Empty THEN None ELSE host_label(rec),
   services |-> service_types_from_record(rec),
   json |-> ValidJson(rec)]]

\* DiscoveryEventIn
Body(ev) ==
  [ip |-> ev.ip, mac |-> None, seen |-> 0,
   records |-> [i \in DOMAIN ev.records |->
                  [srv |-> Posted[ev.records[i]].srv, host |-> Posted[ev.records[i]].host]],
   services |-> UNION {Posted[rec].services : rec \in ToSet(ev.records)}]

\* A body that is not JSON is refused, whenever it comes.
Readable(n) == \A rec \in ToSet(sent[n].records) : Posted[rec].json

Ingested(n) ==
  /\ Readable(n)
  /\ Api!IngestResult(db, db', CHOOSE r \in Requests \ db.audit : TRUE, Body(sent[n]))

Take ==
  /\ ~posting /\ Queue!Take
  /\ posting' = TRUE
  /\ UNCHANGED <<worker, delayed, gone, first, db, unanswered, restarts>>

PostAnswered ==
  /\ posting /\ Ingested(handed)
  /\ posting' = FALSE
  /\ UNCHANGED <<worker, queue, delayed, gone, first, unanswered, restarts>>

\* The answer is lost, and the event posted again.
PostUnanswered ==
  /\ posting /\ Ingested(handed)
  /\ unanswered < MaxUnanswered /\ unanswered' = unanswered + 1
  /\ UNCHANGED <<worker, queue, posting, delayed, gone, first, restarts>>

PostDelayed ==
  /\ posting /\ Readable(handed)
  /\ unanswered < MaxUnanswered /\ unanswered' = unanswered + 1
  /\ delayed' = delayed \cup {handed}
  /\ UNCHANGED <<worker, queue, posting, gone, first, db, restarts>>

DelayedArrives ==
  /\ \E n \in delayed : Ingested(n) /\ delayed' = delayed \ {n}
  /\ UNCHANGED <<worker, queue, posting, gone, first, unanswered, restarts>>

--------------------------------------------------------------------------------
(* The scanner keeps everything in memory: started again, it has heard      *)
(* nothing.  What it had not posted is lost.                                *)

Waiting == (head + 1)..offered \cup (IF posting THEN {handed} ELSE {})

Restart ==
  /\ restarts < MaxRestarts /\ restarts' = restarts + 1
  /\ heard' = <<>> /\ seen_keys' = {} /\ devices' = [a \in Ip |-> NoSnapshot]
  /\ gone' = gone \cup Waiting
  /\ head' = offered /\ posting' = FALSE
  /\ first' = offered + 1
  /\ UNCHANGED <<sent, packets, offered, handed, delayed, db, unanswered>>

Init ==
  /\ heard = <<>> /\ seen_keys = {} /\ devices = [a \in Ip |-> NoSnapshot]
  /\ sent = <<>> /\ packets = 0
  /\ Queue!Init /\ posting = FALSE /\ delayed = {} /\ gone = {} /\ first = 1
  /\ Api!Init
  /\ unanswered = 0 /\ restarts = 0

Next ==
  \/ \E p \in Packets : Hear(p)
  \/ Take \/ PostAnswered \/ PostUnanswered \/ PostDelayed \/ DelayedArrives
  \/ Restart

\* The poster runs when it can, and the API takes an event it can read when
\* it is posted again and again.
Spec == Init /\ [][Next]_vars /\ WF_vars(Take) /\ WF_vars(PostAnswered)

--------------------------------------------------------------------------------
(* Properties                                                              *)

Displayable(p) == {rec \in ToSet(p.records) : is_displayable_record(rec)}

\* Everything displayable heard of a device since the scanner was started.
HeardOf(a) == UNION {Displayable(p) : p \in {q \in ToSet(heard) : q.ip = a}}

SentOf(a) == {n \in first..offered : sent[n].ip = a}

\* Two different records that read the same with their parts joined by bars.
Joined(rec) == rec.owner \o <<Bar, rec.type, Bar>> \o rec.rdata
Collide(r1, r2) == r1 # r2 /\ Joined(r1) = Joined(r2)

\* DeviceStateStore.hpp: the store "suppresses duplicates".  It suppresses
\* nothing else: a record is printed and posted the first time it is heard
\* of its device and never again, whatever packet and section it comes in --
\* unless its key is that of another record, which takes a bar in a name.
SentOnce ==
  \A a \in Ip :
    /\ \A rec \in HeardOf(a) : \E n \in SentOf(a) : \E r \in ToSet(sent[n].records) :
         r = rec \/ (Collide(r, rec) /\ Bar \in ToSet(r.owner \o rec.owner))
    /\ \A n, m \in SentOf(a) :
         /\ n # m => ToSet(sent[n].records) \cap ToSet(sent[m].records) = {}
         /\ Cardinality(ToSet(sent[n].records)) = Len(sent[n].records)

\* A reference for service_type_from_name: the last three labels.
LastThree(name) ==
  LET dots == {i \in 1..Len(name) : name[i] = Dot}
      later(i) == Cardinality({j \in dots : j > i})
  IN  IF Cardinality(dots) < 3 THEN name
      ELSE From(name, 1 + CHOOSE i \in dots : later(i) = 2)

\* The name a record announces a service under.
Subject(rec) == IF rec.type = PTR THEN rec.rdata ELSE rec.owner

\* A name under ._udp.local with ._tcp.local inside: service_type_from_name
\* cuts it at the wrong place, and what it returns is not a service type.
Nested(name) == ends_with(name, UdpLocal) /\ find(name, TcpLocal) # 0

HostsHeard(a) ==
  Nonempty({extract_after_prefix(rec.rdata, <<TargetIs>>) : rec \in {r \in HeardOf(a) : r.type = SRV}})
    \cup {rec.owner : rec \in {r \in HeardOf(a) : r.type = A}}

HeardCollision(a) == \E r1, r2 \in HeardOf(a) : Collide(r1, r2)

\* The console registry sits behind the filter, and yet knows exactly the
\* service types and instances of everything heard of the device, and a host
\* as soon as one was named: what the filter holds back it has been told.
RegistryKnowsHeard ==
  \A a \in Ip :
    LET told == {rec \in HeardOf(a) : rec.type # A}
    IN  \/ HeardCollision(a) \/ \E rec \in HeardOf(a) : Nested(Subject(rec))
        \/ /\ devices[a].service_types = {LastThree(Subject(rec)) : rec \in told}
           /\ devices[a].instances = {rec.rdata : rec \in {r \in told : r.type = PTR /\ r.owner # kDnsSdMetaService}}
           /\ IF HostsHeard(a) = {} THEN devices[a].mdns_host = Empty
              ELSE devices[a].mdns_host \in HostsHeard(a)

\* Nothing waits, nothing is under way, and nothing was lost.
Settled == ~posting /\ head = offered /\ delayed = {} /\ gone = {}

ApiTypes(a) == UNION {db.services[d] : d \in {r \in Requests : db.ip[r] = a}}
ApiHosts(a) == {db.host[d] : d \in {r \in Requests : db.ip[r] = a}} \ {None}

Stripped(names) == {Strip(name) : name \in names}

\* What looks like an instance, and is the meta service after a blank.
HidesMeta(rec) ==
  rec.type = PTR /\ rec.rdata # kDnsSdMetaService /\ Strip(rec.rdata) = kDnsSdMetaService

\* mdns_names.py "mirrors C++ MdnsNames / DeviceRegistry": once everything is
\* delivered the API has the service types of the console registry, up to
\* blanks at their ends and those of an earlier start, and, if no request
\* came twice, its host.  Only the meta service after a blank is no name of
\* an instance to the API, which strips the blank before it looks.
ApiMirrorsRegistry ==
  Settled => \A a \in Ip :
    /\ \/ \E rec \in HeardOf(a) : HidesMeta(rec)
       \/ /\ Stripped(devices[a].service_types) \subseteq Stripped(ApiTypes(a))
          /\ restarts = 0 => Stripped(devices[a].service_types) = Stripped(ApiTypes(a))
    /\ restarts = 0 /\ unanswered = 0 =>
         ApiHosts(a) = Nonempty({devices[a].mdns_host})

NamesHost(rec) == rec.type = SRV /\ is_displayable_record(rec) /\ host_label(rec) # Empty

\* Where the SRV records that name a host of a device are in what was heard:
\* in which response, and where in it.
Named(a) ==
  UNION {{<<i, j>> : j \in {k \in DOMAIN heard[i].records : NamesHost(heard[i].records[k])}} :
           i \in {k \in DOMAIN heard : heard[k].ip = a}}
RecordAt(x) == heard[x[1]].records[x[2]]
Before(x, y) == x[1] < y[1] \/ (x[1] = y[1] /\ x[2] < y[2])

HostAt(x) == host_label(RecordAt(x))

\* README.md: "Only new or changed records are POSTed".  When everything is
\* delivered, the API and the console show the host a device named last, in
\* however many records and however often.  They may show another one only
\* where the device named another host after the first time it sent the very
\* record: the filter remembers values, not what they replaced.
StaleOnlyAfterReturn ==
  Settled /\ unanswered = 0 => \A a \in Ip : \A x \in Named(a) :
    \/ HeardCollision(a)
    \/ \E y, z \in Named(a) :
         Before(y, z) /\ RecordAt(y) = RecordAt(x) /\ HostAt(z) # HostAt(x)
    \/ ApiHosts(a) = {HostAt(x)} /\ devices[a].mdns_host = HostAt(x)

\* The event in the poster's hands is one the API will never read.
Blocked == posting /\ ~Readable(handed)

\* Service types each response tells of its device, and those of them that no
\* record tells which the API takes for the meta service.
TellsTypes(records) == Stripped(UNION {ServiceTypesOf(rec) : rec \in records})
Told == [p \in Packets |-> TellsTypes({rec \in Displayable(p) : ~HidesMeta(rec)})]

Delivered ==
  \A p \in ToSet(heard) : Told[p] \subseteq Stripped(ApiTypes(p.ip)) \/ HeardCollision(p.ip)

\* README.md: the scanner "POSTs changes to the API when configured".  A record
\* is marked as seen before it is delivered; still, the API catches up again
\* and again with every service type heard, unless a queue overflow or a
\* restart has cost an event, two records have one key, or an event that is
\* not JSON blocks the queue.  Only what a record tells that is the meta service
\* after a blank never arrives (HidesMeta).
ServicesArrive == []<>(Delivered \/ gone # {} \/ Blocked)
================================================================================
