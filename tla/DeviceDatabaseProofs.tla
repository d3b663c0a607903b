------------------------- MODULE DeviceDatabaseProofs -------------------------
(***************************************************************************)
(* Theorems about DeviceDatabase, for any requests, addresses, MACs, hosts *)
(* and events.                                                             *)
(***************************************************************************)
EXTENDS DeviceDatabase, SharedLemmas

--------------------------------------------------------------------------------
(* mdns_merge.py: what the loop over the records of an event computes *)

\* f is what the loop computes: the host after each of the first n records.
HostLoop(f, current, records, n) ==
  f = [i \in 0..n |-> IF i = 0 THEN current ELSE MergeHost(f[i - 1], records[i])]

\* The recursive definition has a solution, so that HostAfter is what it says.
LEMMA HostLoopExists ==
  ASSUME NEW current, NEW records, NEW n \in Nat
  PROVE  \E f : HostLoop(f, current, records, n)
<1> DEFINE T == {m \in Nat : ~\E f : HostLoop(f, current, records, m)}
<1>. SUFFICES ASSUME T # {} PROVE FALSE
  OBVIOUS
<1>1. PICK m \in T : \A k \in T : m <= k
  BY LeastNatural
<1>2. CASE m = 0
  <2>1. HostLoop([i \in 0..0 |-> current], current, records, 0)
    BY DEF HostLoop
  <2>. QED BY <1>2, <2>1
<1>3. CASE m # 0
  <2>1. m - 1 \in Nat /\ m - 1 \notin T
    BY <1>1, <1>3
  <2>2. PICK g : HostLoop(g, current, records, m - 1)
    BY <2>1
  <2> DEFINE f == [i \in 0..m |-> IF i = m THEN MergeHost(g[m - 1], records[m]) ELSE g[i]]
  <2>3. ASSUME NEW i \in 0..m
        PROVE  f[i] = IF i = 0 THEN current ELSE MergeHost(f[i - 1], records[i])
    <3>1. \A j \in 0..(m - 1) :
            g[j] = IF j = 0 THEN current ELSE MergeHost(g[j - 1], records[j])
      BY <2>2 DEF HostLoop
    <3>2. CASE i = m
      BY <1>3, <2>1, <3>2
    <3>3. CASE i # m /\ i = 0
      BY <2>1, <3>1, <3>3
    <3>4. CASE i # m /\ i # 0
      <4>1. i \in 0..(m - 1) /\ i - 1 \in 0..m /\ i - 1 # m
        BY <2>1, <3>4
      <4>. QED BY <3>1, <3>4, <4>1
    <3>. QED BY <3>2, <3>3, <3>4
  <2>4. HostLoop(f, current, records, m)
    BY <2>3 DEF HostLoop
  <2>. QED BY <1>1, <2>4
<1>. QED BY <1>2, <1>3

\* h is the host that n records leave: that of the last SRV record that names
\* one; else the one there was; else that of the first record that names one.
MergedHost(h, current, records, n) ==
  LET Named == {i \in 1..n : records[i].host # None}
      Srvs == {i \in Named : records[i].srv}
  IN  \/ \E i \in Srvs : (\A j \in Srvs : j <= i) /\ h = records[i].host
      \/ Srvs = {} /\ current # None /\ h = current
      \/ /\ Srvs = {} /\ current = None
         /\ \E i \in Named : (\A j \in Named : i <= j) /\ h = records[i].host
      \/ Named = {} /\ current = None /\ h = None

\* One more record of merge_mdns_host keeps the closed form.
LEMMA MergeOneHost ==
  ASSUME NEW current, NEW records, NEW n \in Nat, NEW h,
         MergedHost(h, current, records, n)
  PROVE  MergedHost(MergeHost(h, records[n + 1]), current, records, n + 1)
<1> DEFINE Named(m) == {i \in 1..m : records[i].host # None}
           Srvs(m) == {i \in Named(m) : records[i].srv}
           new == records[n + 1].host
<1>0. /\ 1..(n + 1) = 1..n \cup {n + 1}
      /\ \A i \in 1..n : i <= n + 1 /\ i # n + 1 /\ i \in Nat
  OBVIOUS
<1>1. CASE new = None
  <2>1. Named(n + 1) = Named(n) /\ Srvs(n + 1) = Srvs(n)
    BY <1>0, <1>1
  <2>2. MergeHost(h, records[n + 1]) = h
    BY <1>1 DEF MergeHost
  <2>. QED BY <2>1, <2>2 DEF MergedHost
<1>2. CASE new # None /\ records[n + 1].srv
  <2>1. n + 1 \in Srvs(n + 1) /\ \A j \in Srvs(n + 1) : j <= n + 1
    BY <1>0, <1>2
  <2>2. MergeHost(h, records[n + 1]) = new
    BY <1>2 DEF MergeHost
  <2>. QED BY <2>1, <2>2 DEF MergedHost
<1>3. CASE new # None /\ ~records[n + 1].srv
  <2>1. Named(n + 1) = Named(n) \cup {n + 1} /\ Srvs(n + 1) = Srvs(n)
    BY <1>0, <1>3
  <2>2. MergeHost(h, records[n + 1]) = IF h = None THEN new ELSE h
    BY <1>3 DEF MergeHost
  <2>3. \A i \in Named(n) : i <= n + 1 /\ records[i].host # None
    BY <1>0
  <2>4. CASE h = None
    <3>1. Named(n) = {} /\ Srvs(n) = {} /\ current = None
      BY <2>3, <2>4 DEF MergedHost
    <3>2. n + 1 \in Named(n + 1) /\ \A j \in Named(n + 1) : n + 1 <= j
      BY <2>1, <3>1
    <3>. QED BY <2>1, <2>2, <2>4, <3>1, <3>2 DEF MergedHost
  <2>5. CASE h # None
    <3>1. \/ \E i \in Srvs(n) : (\A j \in Srvs(n) : j <= i) /\ h = records[i].host
          \/ Srvs(n) = {} /\ current # None /\ h = current
          \/ /\ Srvs(n) = {} /\ current = None
             /\ \E i \in Named(n) : (\A j \in Named(n) : i <= j) /\ h = records[i].host
      BY <2>5 DEF MergedHost
    <3>2. \A i \in Named(n) : (\A j \in Named(n) : i <= j)
                                => \A j \in Named(n + 1) : i <= j
      BY <2>1, <2>3
    <3>. QED BY <2>1, <2>2, <2>5, <3>1, <3>2 DEF MergedHost
  <2>. QED BY <2>4, <2>5
<1>. QED BY <1>1, <1>2, <1>3

\* merge_mdns_host over any records leaves the host that the three rules say.
THEOREM HostIsMerged ==
  ASSUME NEW current, NEW records \in Seq(Record)
  PROVE  MergedHost(HostAfter(current, records), current, records, Len(records))
<1> DEFINE L == Len(records)
           f == CHOOSE g : HostLoop(g, current, records, L)
<1>1. L \in Nat
  BY LenProperties
<1>2. HostLoop(f, current, records, L)
  BY <1>1, HostLoopExists
<1>3. HostAfter(current, records) = f[L]
  BY DEF HostAfter, HostLoop
<1> HIDE DEF f, L
<1>4. /\ f[0] = current
      /\ \A i \in 1..L : f[i] = MergeHost(f[i - 1], records[i])
  BY <1>1, <1>2 DEF HostLoop
<1> DEFINE T == {m \in 0..L : ~MergedHost(f[m], current, records, m)}
<1>5. T = {}
  <2>. SUFFICES ASSUME T # {} PROVE FALSE
    OBVIOUS
  <2>0. T \subseteq Nat
    BY <1>1
  <2>1. PICK m \in T : \A k \in T : m <= k
    BY <2>0, LeastNatural
  <2>2. MergedHost(current, current, records, 0)
    BY DEF MergedHost
  <2>3. m # 0
    BY <1>4, <2>1, <2>2
  <2>4. m - 1 \in Nat /\ m - 1 \in 0..L /\ m - 1 \notin T /\ (m - 1) + 1 = m
    BY <1>1, <2>1, <2>3
  <2>5. MergedHost(f[m - 1], current, records, m - 1)
    BY <2>4
  <2>6. MergedHost(MergeHost(f[m - 1], records[(m - 1) + 1]), current, records, (m - 1) + 1)
    BY <2>4, <2>5, MergeOneHost
  <2>7. MergedHost(f[m], current, records, m)
    BY <1>4, <2>1, <2>3, <2>4, <2>6
  <2>. QED BY <2>1, <2>7
<1>6. L \in 0..L
  BY <1>1
<1>. QED BY <1>3, <1>5, <1>6 DEF L

\* A host that is known never gets lost in the merge.
LEMMA MergeKeepsHost ==
  ASSUME NEW current, NEW records \in Seq(Record), current # None
  PROVE  HostAfter(current, records) # None
BY HostIsMerged DEF MergedHost

\* The merge returns the host it began with, that of a record, or none.
LEMMA HostType ==
  ASSUME NEW current \in Host \cup {None}, NEW records \in Seq(Record)
  PROVE  HostAfter(current, records) \in Host \cup {None}
<1>1. \A i \in 1..Len(records) : records[i].host \in Host \cup {None}
  <2>1. \A i \in 1..Len(records) : records[i] \in Record
    BY ElementOfSeq
  <2>. QED BY <2>1 DEF Record
<1>. QED BY <1>1, HostIsMerged DEF MergedHost

--------------------------------------------------------------------------------
(* What a request writes *)

\* `new' is the column `old' with v written for device d.
Written(new, old, d, v) == \A x \in Request : new[x] = IF x = d THEN v ELSE old[x]

\* The fields of an event.
LEMMA EventType ==
  ASSUME NEW e \in Event
  PROVE  /\ e.ip \in Ip /\ e.ip # None /\ e.seen \in Nat
         /\ e.mac \in Mac \cup {None, Garbled}
         /\ e.records \in Seq(Record) /\ e.services \subseteq ServiceType
BY EventAssumption, NoneAssumption

\* What the ARP table answers is a MAC, or nothing.
LEMMA HintsType ==
  ASSUME NEW e \in Event
  PROVE  Hints(e) \subseteq Mac \cup {None}
BY EventType DEF Hints, Lookup

\* insert_device, update_device_observation and upsert_service_keys write the
\* row of one device and nothing else.
IsObserved(old, new, d, e, m) ==
  /\ new \in Database
  /\ Written(new.ip, old.ip, d, e.ip)
  /\ Written(new.seen, old.seen, d, e.seen)
  /\ Written(new.host, old.host, d, NewHost(old, d, e, m))
  /\ Written(new.mac, old.mac, d, NewMac(old, d, m))
  /\ Written(new.services, old.services, d, old.services[d] \cup e.services)
  /\ new.approved = old.approved /\ new.baseline = old.baseline
  /\ new.alerts = old.alerts /\ new.audit = old.audit

\* The three updates of an ingestion write just these columns.
LEMMA ObservedFields ==
  ASSUME NEW old \in Database, NEW d \in Request, NEW e \in Event,
         NEW m \in Mac \cup {None}
  PROVE  IsObserved(old, Observed(old, d, e, m), d, e, m)
<1>1. /\ e.ip \in Ip /\ e.seen \in Nat /\ e.services \subseteq ServiceType
      /\ e.records \in Seq(Record)
  BY EventType
<1>2. NewMac(old, d, m) \in Mac \cup {None}
  BY DEF NewMac, Database
<1>3. NewHost(old, d, e, m) \in Host \cup {None}
  <2>1. old.host[d] \in Host \cup {None}
    BY DEF Database
  <2>. QED BY <1>1, <2>1, HostType DEF NewHost, EventHost
<1>. QED BY <1>1, <1>2, <1>3 DEF Observed, Database, Written, IsObserved

\* update_device_mac, append_discovery_event and _apply_policy_alerts: the
\* alert is the one that the state written calls for.
IsRecorded(old, new, r, d, late) ==
  /\ new \in Database
  /\ Written(new.mac, old.mac, d, IF late # None THEN late ELSE old.mac[d])
  /\ new.audit = old.audit \cup {r}
  /\ new.alerts = old.alerts \cup Policy(new, d)
  /\ new.ip = old.ip /\ new.seen = old.seen /\ new.host = old.host
  /\ new.services = old.services /\ new.approved = old.approved
  /\ new.baseline = old.baseline

\* The end of an ingestion writes just these columns; since no alert depends
\* on an alert, the policy may be read from the new state or from the old.
LEMMA RecordedFields ==
  ASSUME NEW old \in Database, NEW r \in Request, NEW d \in Request,
         NEW late \in Mac \cup {None}
  PROVE  IsRecorded(old, Alerted(Logged(old, r, d, late), d), r, d, late)
<1> DEFINE log == Logged(old, r, d, late)
           new == Alerted(log, d)
<1>1. /\ log \in Database
      /\ Written(log.mac, old.mac, d, IF late # None THEN late ELSE old.mac[d])
      /\ log.audit = old.audit \cup {r} /\ log.alerts = old.alerts
      /\ log.ip = old.ip /\ log.seen = old.seen /\ log.host = old.host
      /\ log.services = old.services /\ log.approved = old.approved
      /\ log.baseline = old.baseline
  BY DEF Logged, Database, Written
<1> HIDE DEF log
<1>2. Policy(log, d) \subseteq AlertKey
  <2>1. State(log, d) \in Snapshot
    BY <1>1 DEF State, Snapshot, Database
  <2>. QED BY <2>1 DEF Policy, AlertKey
<1>3. /\ Alerted(log, d) \in Database
      /\ Alerted(log, d).alerts = log.alerts \cup Policy(log, d)
      /\ Alerted(log, d).mac = log.mac /\ Alerted(log, d).audit = log.audit
      /\ Alerted(log, d).ip = log.ip /\ Alerted(log, d).seen = log.seen
      /\ Alerted(log, d).host = log.host /\ Alerted(log, d).services = log.services
      /\ Alerted(log, d).approved = log.approved
      /\ Alerted(log, d).baseline = log.baseline
  BY <1>1, <1>2 DEF Alerted, Database
<1>5. State(log, d) = State(old, d) /\ State(new, d) = State(old, d)
  BY <1>1, <1>3 DEF State
<1>6. Policy(log, d) = Policy(old, d) /\ Policy(new, d) = Policy(old, d)
  BY <1>1, <1>3, <1>5 DEF Policy
<1>. QED BY <1>1, <1>3, <1>6 DEF IsRecorded, log

\* All that the ingestion of one event by request r does: it writes one device
\* d, which it has found for the MAC m, with a MAC looked up late if any.
Ingested(old, new, r, e, d, m, late) ==
  /\ d \in Request /\ d \in Targets(old, r, e, m)
  /\ m \in Mac \cup {None} /\ late \in Mac \cup {None}
  /\ late # None => /\ NewMac(old, d, m) = None
                    /\ \A x \in Request : x # d => old.mac[x] # late
  /\ new \in Database
  /\ Written(new.ip, old.ip, d, e.ip)
  /\ Written(new.seen, old.seen, d, e.seen)
  /\ Written(new.host, old.host, d, NewHost(old, d, e, m))
  /\ Written(new.mac, old.mac, d, IF late # None THEN late ELSE NewMac(old, d, m))
  /\ Written(new.services, old.services, d, old.services[d] \cup e.services)
  /\ new.approved = old.approved /\ new.baseline = old.baseline
  /\ new.audit = old.audit \cup {r}
  /\ new.alerts = old.alerts \cup Policy(new, d)

\* resolve_device_id finds a device, or the request makes one.
LEMMA TargetsType ==
  ASSUME NEW old, NEW r \in Request, NEW e, NEW m
  PROVE  Targets(old, r, e, m) \subseteq Request
BY DEF Targets, ByMac, ByIp

\* IngestResult is made of the writes above.
LEMMA IngestEffect ==
  ASSUME NEW old \in Database, NEW new, NEW r \in Request, NEW e \in Event,
         IngestResult(old, new, r, e)
  PROVE  \E d, m, late : Ingested(old, new, r, e, d, m, late)
<1>0. PICK m \in Hints(e) : \E d \in Targets(old, r, e, m) :
        \E late \in SecondHints(Observed(old, d, e, m), d, e) :
          /\ Unique(Observed(old, d, e, m), late)
          /\ new = Alerted(Logged(Observed(old, d, e, m), r, d, late), d)
  BY DEF IngestResult
<1>01. PICK d \in Targets(old, r, e, m) :
        \E late \in SecondHints(Observed(old, d, e, m), d, e) :
          /\ Unique(Observed(old, d, e, m), late)
          /\ new = Alerted(Logged(Observed(old, d, e, m), r, d, late), d)
  BY <1>0
<1>1. PICK late \in SecondHints(Observed(old, d, e, m), d, e) :
        /\ Unique(Observed(old, d, e, m), late)
        /\ new = Alerted(Logged(Observed(old, d, e, m), r, d, late), d)
  BY <1>01
<1> DEFINE db1 == Observed(old, d, e, m)
<1>2. d \in Request /\ m \in Mac \cup {None} /\ late \in Mac \cup {None}
  <2>1. SecondHints(db1, d, e) \subseteq Mac \cup {None}
    BY HintsType DEF SecondHints
  <2>. QED BY <1>1, <2>1, HintsType, TargetsType
<1>3. /\ Unique(db1, late) /\ late \in SecondHints(db1, d, e)
      /\ db1 = Observed(old, d, e, m)
      /\ new = Alerted(Logged(db1, r, d, late), d)
  BY <1>1
<1> HIDE DEF db1
<1>4. IsObserved(old, db1, d, e, m)
  BY <1>2, <1>3, ObservedFields
<1>5. IsRecorded(db1, new, r, d, late)
  <2>1. db1 \in Database
    BY <1>4 DEF IsObserved
  <2>. QED BY <1>2, <1>3, <2>1, RecordedFields
<1>6. old.mac \in [Request -> Mac \cup {None}] /\ db1.mac[d] = NewMac(old, d, m)
  BY <1>2, <1>4 DEF Database, Written, IsObserved
<1>7. late # None => /\ NewMac(old, d, m) = None
                     /\ \A x \in Request : x # d => old.mac[x] # late
  <2>1. late # None => NewMac(old, d, m) = None
    BY <1>3, <1>6 DEF SecondHints
  <2>2. late # None => \A x \in Request : db1.mac[x] # late
    BY <1>3 DEF Unique, ByMac
  <2>. QED BY <1>2, <1>4, <1>6, <2>1, <2>2 DEF Written, IsObserved
<1>8. Written(new.mac, old.mac, d, IF late # None THEN late ELSE NewMac(old, d, m))
  BY <1>2, <1>4, <1>5, <1>6 DEF Written, IsObserved, IsRecorded
<1>9. Ingested(old, new, r, e, d, m, late)
  BY <1>01, <1>2, <1>4, <1>5, <1>7, <1>8 DEF Ingested, IsObserved, IsRecorded
<1>. QED BY <1>9

\* approve_device.
LEMMA ApproveEffect ==
  ASSUME NEW old \in Database, NEW new, NEW d \in Request, ApproveResult(old, new, d)
  PROVE  /\ new \in Database /\ d \in Known(old)
         /\ new.ip = old.ip /\ new.seen = old.seen /\ new.host = old.host
         /\ new.mac = old.mac /\ new.services = old.services
         /\ new.approved = [old.approved EXCEPT ![d] = TRUE]
         /\ new.baseline = [old.baseline EXCEPT ![d] = State(old, d)]
         /\ new.alerts = old.alerts /\ new.audit = old.audit
<1>1. State(old, d) \in Snapshot
  BY DEF State, Snapshot, Database
<1>. QED BY <1>1 DEF ApproveResult, Database

\* A step of the specification is one of the two.
LEMMA StepEffect ==
  ASSUME TypeOK, [Next]_db
  PROVE  \/ \E r \in Request, e \in Event :
               \E d, m, late : Ingested(db, db', r, e, d, m, late)
         \/ \E d \in Request : ApproveResult(db, db', d)
         \/ db' = db
BY IngestEffect DEF TypeOK, Next, Ingest, Approve

--------------------------------------------------------------------------------
(* The inductive invariant *)

\* `seen' is bounded, so that one of the devices at an address was seen last.
SeenBounded == \E b \in Nat : \A d \in Request : db.seen[d] <= b

ApprovedKnown == \A d \in Request : db.approved[d] => d \in Known(db)

\* A device comes from an event that is in the audit log.
DevicesAudited == \A d \in Request : db.ip[d] # None \/ db.mac[d] # None => d \in db.audit

IInv ==
  /\ TypeOK /\ SeenBounded /\ ApprovedKnown /\ DevicesAudited
  /\ MacsUnique /\ UnknownAlerted /\ MismatchAlerted /\ NoMacNoTwin

\* resolve_device_id by address finds a device if there is one at the address.
LEMMA SomeLastSeen ==
  ASSUME TypeOK, SeenBounded, NEW y \in Request
  PROVE  ByIp(db, db.ip[y]) # {}
<1> DEFINE there == {x \in Request : db.ip[x] = db.ip[y]}
           T == {b \in Nat : \A x \in there : db.seen[x] <= b}
<1>1. T # {} /\ y \in there /\ \A x \in there : db.seen[x] \in Nat
  BY DEF SeenBounded, TypeOK, Database
<1>2. PICK b \in T : \A c \in T : b <= c
  BY <1>1, LeastNatural
<1>3. PICK x \in there : db.seen[x] = b
  <2>. SUFFICES ASSUME \A x \in there : db.seen[x] # b PROVE FALSE
    OBVIOUS
  <2>1. b # 0
    BY <1>1, <1>2
  <2>2. b - 1 \in T
    BY <1>1, <1>2, <2>1
  <2>. QED BY <1>2, <2>2
<1>. QED BY <1>2, <1>3 DEF ByIp

\* An event never takes the host from a device that has one.
LEMMA NewHostKeeps ==
  ASSUME NEW old, NEW d, NEW e \in Event, NEW m, old.host[d] # None
  PROVE  NewHost(old, d, e, m) # None
BY EventType, MergeKeepsHost DEF NewHost

\* The invariant holds of the empty database.
LEMMA IInvInit == Init => IInv
<1>1. \A d \in Request : EmptyDatabase.seen[d] <= 0
  BY DEF EmptyDatabase
<1>2. EmptyDatabase \in Database
  BY DEF EmptyDatabase, Database
<1>. QED BY <1>1, <1>2 DEF Init, IInv, TypeOK, SeenBounded, ApprovedKnown, DevicesAudited, Known,
        EmptyDatabase, MacsUnique, UnknownAlerted, MismatchAlerted, NoMacNoTwin

\* The ingestion of an event keeps the invariant.
LEMMA IngestKeeps ==
  ASSUME IInv, NEW r \in Request, NEW e \in Event, NEW d, NEW m, NEW late,
         Ingested(db, db', r, e, d, m, late)
  PROVE  IInv'
<1>0. /\ d \in Request /\ e.ip # None /\ e.seen \in Nat
      /\ db \in Database /\ db' \in Database
      /\ db.alerts \subseteq db'.alerts /\ Policy(db', d) \subseteq db'.alerts
      /\ db'.approved = db.approved /\ db'.baseline = db.baseline
  BY EventType DEF Ingested, IInv, TypeOK
<1>1. \A x \in Request :
        /\ db'.ip[x] = IF x = d THEN e.ip ELSE db.ip[x]
        /\ db'.seen[x] = IF x = d THEN e.seen ELSE db.seen[x]
        /\ db'.mac[x] = IF x = d THEN IF late # None THEN late ELSE NewMac(db, d, m)
                        ELSE db.mac[x]
        /\ db'.host[x] = IF x = d THEN NewHost(db, d, e, m) ELSE db.host[x]
        /\ db'.services[x] = IF x = d THEN db.services[d] \cup e.services
                             ELSE db.services[x]
  BY DEF Ingested, Written
<1>2. \A x \in Request : x # d => State(db', x) = State(db, x)
  BY <1>1 DEF State
<1>3. \A x \in Request : x # d => (x \in Known(db') <=> x \in Known(db))
  BY <1>1 DEF Known
<1>4. SeenBounded'
  <2>1. PICK b \in Nat : \A x \in Request : db.seen[x] <= b
    BY DEF IInv, SeenBounded
  <2>2. \A x \in Request : db.seen[x] \in Nat
    BY <1>0 DEF Database
  <2>3. CASE e.seen <= b
    BY <1>1, <2>1, <2>3 DEF SeenBounded
  <2>4. CASE b <= e.seen
    <3>1. \A x \in Request : db'.seen[x] <= e.seen
      BY <1>0, <1>1, <2>1, <2>2, <2>4
    <3>. QED BY <1>0, <3>1 DEF SeenBounded
  <2>. QED BY <1>0, <2>3, <2>4
<1>5. ApprovedKnown'
  BY <1>0, <1>1, <1>3 DEF IInv, ApprovedKnown, Known
<1>6. MacsUnique'
  <2>. SUFFICES ASSUME NEW y \in Request, y # d, db.mac[y] # None,
                       db.mac[y] = db'.mac[d]
                PROVE  FALSE
    BY <1>0, <1>1 DEF MacsUnique, IInv
  <2>1. CASE late # None
    BY <1>0, <1>1, <2>1 DEF Ingested
  <2>2. CASE late = None /\ db.mac[d] # None
    BY <1>0, <1>1, <2>2 DEF NewMac, IInv, MacsUnique
  <2>3. CASE late = None /\ db.mac[d] = None
    <3>1. y \in ByMac(db, m)
      BY <1>0, <1>1, <2>3 DEF NewMac, ByMac
    <3>2. d \in ByMac(db, m)
      BY <3>1 DEF Ingested, Targets
    <3>. QED BY <2>3, <3>2 DEF ByMac
  <2>. QED BY <2>1, <2>2, <2>3
<1>7. UnknownAlerted'
  <2>. SUFFICES ASSUME NEW x \in Known(db'), ~db'.approved[x],
                       db'.host[x] # None \/ db'.services[x] # {}
                PROVE  [type |-> "unknown", device |-> x] \in db'.alerts
    BY DEF UnknownAlerted
  <2>1. CASE x = d
    BY <1>0, <2>1 DEF Policy
  <2>2. CASE x # d
    <3>1. x \in Request /\ x \in Known(db)
      BY <1>3, <2>2 DEF Known
    <3>. QED BY <1>0, <1>1, <2>2, <3>1 DEF IInv, UnknownAlerted
  <2>. QED BY <2>1, <2>2
<1>8. MismatchAlerted'
  <2>. SUFFICES ASSUME NEW x \in Known(db'), db'.approved[x]
                PROVE  /\ db'.baseline[x] # None
                       /\ \/ State(db', x) = db'.baseline[x]
                          \/ [type |-> "mismatch", device |-> x, state |-> State(db', x)]
                               \in db'.alerts
    BY DEF MismatchAlerted
  <2>1. x \in Request /\ x \in Known(db)
    BY <1>0 DEF IInv, ApprovedKnown, Known
  <2>2. /\ db.baseline[x] # None
        /\ \/ State(db, x) = db.baseline[x]
           \/ [type |-> "mismatch", device |-> x, state |-> State(db, x)] \in db.alerts
    BY <1>0, <2>1 DEF IInv, MismatchAlerted
  <2>3. CASE x # d
    BY <1>0, <1>2, <2>1, <2>2, <2>3
  <2>4. CASE x = d /\ db'.host[d] = None /\ db'.services[d] = {}
    <3>1. db.host[d] = None
      <4>1. NewHost(db, d, e, m) = None
        BY <1>0, <1>1, <2>4
      <4>. QED BY <4>1, NewHostKeeps
    <3>2. db.services[d] = {}
      BY <1>0, <1>1, <2>4
    <3>3. State(db', d) = State(db, d)
      BY <2>4, <3>1, <3>2 DEF State
    <3>. QED BY <1>0, <2>2, <2>4, <3>3
  <2>5. CASE x = d /\ ~(db'.host[d] = None /\ db'.services[d] = {})
    <3>1. db'.baseline[d] # State(db', d)
            => [type |-> "mismatch", device |-> d, state |-> State(db', d)]
                 \in Policy(db', d)
      BY <1>0, <2>2, <2>5 DEF Policy
    <3>. QED BY <1>0, <2>2, <2>5, <3>1
  <2>. QED BY <2>3, <2>4, <2>5
<1>9. NoMacNoTwin'
  <2>. SUFFICES ASSUME NEW y \in Request, y # d, db'.mac[y] = None, db'.mac[d] = None,
                       db'.ip[y] = db'.ip[d], db'.ip[d] # None
                PROVE  FALSE
    <3>. SUFFICES ASSUME NEW d1 \in Known(db'), NEW d2 \in Known(db'), d1 # d2,
                         db'.mac[d1] = None, db'.mac[d2] = None, db'.ip[d1] = db'.ip[d2]
                  PROVE  FALSE
      BY DEF NoMacNoTwin
    <3>1. d1 \in Request /\ d2 \in Request /\ db'.ip[d1] # None
      BY DEF Known
    <3>2. CASE d1 # d /\ d2 # d
      BY <1>1, <1>3, <3>1, <3>2 DEF IInv, NoMacNoTwin
    <3>. QED BY <3>1, <3>2
  <2>1. db.mac[y] = None /\ db.ip[y] = e.ip
    BY <1>0, <1>1
  <2>2. m = None /\ db.mac[d] = None
    BY <1>0, <1>1 DEF NewMac
  <2>3. ByMac(db, m) = {}
    BY <2>2 DEF ByMac
  <2>4. ByIp(db, e.ip) # {}
    BY <2>1, SomeLastSeen DEF IInv
  <2>5. db.ip[d] = e.ip
    BY <2>3, <2>4 DEF Ingested, Targets, ByIp
  <2>. QED BY <1>0, <2>1, <2>2, <2>5 DEF IInv, NoMacNoTwin, Known
<1>10. DevicesAudited'
  <2>1. db'.audit = db.audit \cup {r}
    BY DEF Ingested
  <2>2. d \in db'.audit
    <3>1. CASE d = r
      BY <2>1, <3>1
    <3>2. CASE d # r
      <4>1. db.mac[d] # None \/ db.ip[d] = e.ip
        BY <3>2 DEF Ingested, Targets, ByMac, ByIp
      <4>. QED BY <1>0, <2>1, <4>1 DEF IInv, DevicesAudited
    <3>. QED BY <3>1, <3>2
  <2>. QED BY <1>1, <2>1, <2>2 DEF IInv, DevicesAudited
<1>. QED BY <1>0, <1>4, <1>5, <1>6, <1>7, <1>8, <1>9, <1>10 DEF IInv, TypeOK

\* The approval of a device keeps the invariant.
LEMMA ApproveKeeps ==
  ASSUME IInv, NEW d \in Request, ApproveResult(db, db', d)
  PROVE  IInv'
<1>1. /\ db' \in Database /\ d \in Known(db)
      /\ db'.ip = db.ip /\ db'.seen = db.seen /\ db'.host = db.host
      /\ db'.mac = db.mac /\ db'.services = db.services
      /\ db'.approved = [db.approved EXCEPT ![d] = TRUE]
      /\ db'.baseline = [db.baseline EXCEPT ![d] = State(db, d)]
      /\ db'.alerts = db.alerts /\ db'.audit = db.audit
  BY ApproveEffect DEF IInv, TypeOK
<1>2. /\ \A x \in Request : /\ State(db', x) = State(db, x)
                            /\ x # d => db'.approved[x] = db.approved[x]
                            /\ x # d => db'.baseline[x] = db.baseline[x]
      /\ db'.approved[d] = TRUE /\ db'.baseline[d] = State(db, d)
  BY <1>1 DEF State, IInv, TypeOK, Database
<1>3. Known(db') = Known(db) /\ Known(db) \subseteq Request
  BY <1>1 DEF Known
<1>4. State(db, d) # None
  <2>1. State(db, d) \in Snapshot
    BY DEF State, Snapshot, Database, IInv, TypeOK, Known
  <2>. QED BY <2>1, BaselineAssumption
<1>5. ApprovedKnown'
  BY <1>1, <1>2, <1>3 DEF IInv, ApprovedKnown
<1>6. UnknownAlerted'
  BY <1>1, <1>2, <1>3 DEF IInv, UnknownAlerted
<1>7. MismatchAlerted'
  BY <1>1, <1>2, <1>3, <1>4 DEF IInv, MismatchAlerted
<1>8. SeenBounded' /\ DevicesAudited' /\ MacsUnique' /\ NoMacNoTwin'
  BY <1>1, <1>3 DEF IInv, SeenBounded, DevicesAudited, MacsUnique, NoMacNoTwin
<1>. QED BY <1>1, <1>5, <1>6, <1>7, <1>8 DEF IInv, TypeOK

\* So does every step.
LEMMA IInvNext == IInv /\ [Next]_db => IInv'
<1>. SUFFICES ASSUME IInv, [Next]_db PROVE IInv'
  OBVIOUS
<1>1. CASE \E r \in Request, e \in Event :
             \E d, m, late : Ingested(db, db', r, e, d, m, late)
  BY <1>1, IngestKeeps
<1>2. CASE \E d \in Request : ApproveResult(db, db', d)
  BY <1>2, ApproveKeeps
<1>3. CASE db' = db
  BY <1>3 DEF IInv, TypeOK, SeenBounded, ApprovedKnown, DevicesAudited, Known, State,
       MacsUnique, UnknownAlerted, MismatchAlerted, NoMacNoTwin
<1>. QED BY <1>1, <1>2, <1>3, StepEffect DEF IInv

\* The inductive invariant holds throughout.
THEOREM Invariance == Spec => []IInv
<1>. QED BY IInvInit, IInvNext, PTL DEF Spec

--------------------------------------------------------------------------------
(* The properties *)

\* Every column of the database keeps its type.
THEOREM TypeCorrect == Spec => []TypeOK
<1>1. IInv => TypeOK
  BY DEF IInv
<1>. QED BY <1>1, Invariance, PTL

\* idx_devices_mac: no two devices ever have one MAC.
THEOREM OneDevicePerMac == Spec => []MacsUnique
<1>1. IInv => MacsUnique
  BY DEF IInv
<1>. QED BY <1>1, Invariance, PTL

\* api/README.md, "Security alerts": a device that is not approved and shows a
\* host or a service has its UNKNOWN_DEVICE alert.
THEOREM UnknownDevicesAlerted == Spec => []UnknownAlerted
<1>1. IInv => UnknownAlerted
  BY DEF IInv
<1>. QED BY <1>1, Invariance, PTL

\* An approved device has a baseline, and an alert for its present state when
\* that is not the baseline.
THEOREM MismatchesAlerted == Spec => []MismatchAlerted
<1>1. IInv => MismatchAlerted
  BY DEF IInv
<1>. QED BY <1>1, Invariance, PTL

\* No two devices without a MAC are ever at one address.
THEOREM NoTwins == Spec => []NoMacNoTwin
<1>1. IInv => NoMacNoTwin
  BY DEF IInv
<1>. QED BY <1>1, Invariance, PTL

\* No event takes back what is known.
LEMMA IngestGrows ==
  ASSUME IInv, NEW r \in Request, NEW e \in Event, NEW d, NEW m, NEW late,
         Ingested(db, db', r, e, d, m, late), NEW x \in Known(db)
  PROVE  /\ x \in Known(db')
         /\ db.mac[x] # None => db'.mac[x] = db.mac[x]
         /\ db.host[x] # None => db'.host[x] # None
         /\ db.services[x] \subseteq db'.services[x]
         /\ db.approved[x] => db'.approved[x]
<1>1. /\ x \in Request /\ db.ip[x] # None /\ e.ip # None
      /\ db'.approved = db.approved
      /\ late # None => NewMac(db, d, m) = None
  BY EventType DEF Ingested, Known
<1>2. /\ db'.ip[x] = IF x = d THEN e.ip ELSE db.ip[x]
      /\ db'.mac[x] = IF x = d THEN IF late # None THEN late ELSE NewMac(db, d, m)
                      ELSE db.mac[x]
      /\ db'.host[x] = IF x = d THEN NewHost(db, d, e, m) ELSE db.host[x]
      /\ db'.services[x] = IF x = d THEN db.services[d] \cup e.services
                           ELSE db.services[x]
  BY <1>1 DEF Ingested, Written
<1>3. db.host[x] # None => NewHost(db, x, e, m) # None
  BY NewHostKeeps
<1>4. db.mac[x] # None => db'.mac[x] = db.mac[x]
  BY <1>1, <1>2 DEF NewMac
<1>5. db.host[x] # None => db'.host[x] # None
  BY <1>2, <1>3
<1>. QED BY <1>1, <1>2, <1>4, <1>5 DEF Known

\* What the API knows only grows, with every event and every approval.
THEOREM KnowledgeNeverLost == Spec => KnowledgeGrows
<1> DEFINE Grows ==
      /\ \A d \in Known(db) :
           /\ d \in Known(db')
           /\ db.mac[d] # None => db'.mac[d] = db.mac[d]
           /\ db.host[d] # None => db'.host[d] # None
           /\ db.services[d] \subseteq db'.services[d]
           /\ db.approved[d] => db'.approved[d]
      /\ db.alerts \subseteq db'.alerts /\ db.audit \subseteq db'.audit
<1>1. IInv /\ [Next]_db => [Grows]_db
  <2>. SUFFICES ASSUME IInv, [Next]_db PROVE Grows
    OBVIOUS
  <2>1. CASE \E r \in Request, e \in Event :
               \E d, m, late : Ingested(db, db', r, e, d, m, late)
    <3>1. PICK r \in Request, e \in Event :
            \E d, m, late : Ingested(db, db', r, e, d, m, late)
      BY <2>1
    <3>2. PICK d, m, late : Ingested(db, db', r, e, d, m, late)
      BY <3>1
    <3>3. db.alerts \subseteq db'.alerts /\ db.audit \subseteq db'.audit
      BY <3>2 DEF Ingested
    <3>. QED BY <3>2, <3>3, IngestGrows
  <2>2. CASE \E d \in Request : ApproveResult(db, db', d)
    <3>1. PICK d \in Request : ApproveResult(db, db', d)
      BY <2>2
    <3>2. /\ db'.ip = db.ip /\ db'.host = db.host /\ db'.mac = db.mac
          /\ db'.services = db.services /\ db'.alerts = db.alerts
          /\ db'.audit = db.audit /\ db'.approved = [db.approved EXCEPT ![d] = TRUE]
      BY <3>1 DEF ApproveResult, IInv, TypeOK, Database
    <3>3. \A x \in Request : db.approved[x] => db'.approved[x]
      BY <3>2 DEF IInv, TypeOK, Database
    <3>. QED BY <3>2, <3>3 DEF Known
  <2>3. CASE db' = db
    BY <2>3 DEF Known
  <2>. QED BY <2>1, <2>2, <2>3, StepEffect DEF IInv
<1>. QED BY <1>1, Invariance, PTL DEF Spec, KnowledgeGrows
================================================================================
