--------------------------- MODULE DiscoveryApiProofs ---------------------------
(***************************************************************************)
(* Theorems about DiscoveryApi, for any requests, events and number of     *)
(* crashes: requests that overlap, fail and are cut off change the         *)
(* database as requests that come one at a time do, and what was proved of *)
(* DeviceDatabase therefore holds of the database they share.              *)
(***************************************************************************)
EXTENDS DiscoveryApi, TLAPS

\* The theorems about DeviceDatabase, about its state in this module.
DDP == INSTANCE DeviceDatabaseProofs

--------------------------------------------------------------------------------
(* The operators of DeviceDatabase *)

\* Those that DiscoveryApi uses are those that the theorems are about.
LEMMA SameOperators ==
  /\ DD!Database = DDP!Database
  /\ \A e : DD!Hints(e) = DDP!Hints(e)
  /\ \A old, r, e, m : DD!Targets(old, r, e, m) = DDP!Targets(old, r, e, m)
  /\ \A old, d, e, m : DD!Observed(old, d, e, m) = DDP!Observed(old, d, e, m)
  /\ \A old, r, d, late : DD!Logged(old, r, d, late) = DDP!Logged(old, r, d, late)
  /\ \A old, d : DD!Alerted(old, d) = DDP!Alerted(old, d)
<1>1. DD!Database = DDP!Database
  BY DEF DD!Database, DD!Snapshot, DD!AlertKey, DDP!Database, DDP!Snapshot, DDP!AlertKey
<1>2. \A e : DD!Hints(e) = DDP!Hints(e)
  BY DEF DD!Hints, DD!Lookup, DDP!Hints, DDP!Lookup
<1>3. \A old, r, e, m : DD!Targets(old, r, e, m) = DDP!Targets(old, r, e, m)
  BY DEF DD!Targets, DD!ByMac, DD!ByIp, DDP!Targets, DDP!ByMac, DDP!ByIp
<1>4. \A old, d, e, m : DD!Observed(old, d, e, m) = DDP!Observed(old, d, e, m)
  BY DEF DD!Observed, DD!NewHost, DD!NewMac, DD!ByMac, DD!EventHost, DD!HostAfter,
      DD!MergeHost, DDP!Observed, DDP!NewHost, DDP!NewMac, DDP!ByMac, DDP!EventHost,
      DDP!HostAfter, DDP!MergeHost
<1>5. \A old, r, d, late : DD!Logged(old, r, d, late) = DDP!Logged(old, r, d, late)
  BY DEF DD!Logged, DDP!Logged
<1>6. \A old, d : DD!Alerted(old, d) = DDP!Alerted(old, d)
  BY DEF DD!Alerted, DD!Policy, DD!State, DDP!Alerted, DDP!Policy, DDP!State
<1>. QED BY <1>1, <1>2, <1>3, <1>4, <1>5, <1>6

\* So are their specifications.
LEMMA SameSpecification ==
  /\ DD!Init <=> DDP!Init
  /\ DD!Next <=> DDP!Next
<1>1. DD!Init <=> DDP!Init
  BY DEF DD!Init, DD!EmptyDatabase, DDP!Init, DDP!EmptyDatabase
<1>2. \A old, new, r, e : DD!IngestResult(old, new, r, e) <=> DDP!IngestResult(old, new, r, e)
  <2>1. \A old, d, e : DD!SecondHints(old, d, e) = DDP!SecondHints(old, d, e)
    BY SameOperators DEF DD!SecondHints, DDP!SecondHints
  <2>2. \A old, late : DD!Unique(old, late) <=> DDP!Unique(old, late)
    BY DEF DD!Unique, DD!ByMac, DDP!Unique, DDP!ByMac
  <2>. QED BY <2>1, <2>2, SameOperators DEF DD!IngestResult, DDP!IngestResult
<1>3. \A old, new, d : DD!ApproveResult(old, new, d) <=> DDP!ApproveResult(old, new, d)
  BY DEF DD!ApproveResult, DD!Known, DD!State, DDP!ApproveResult, DDP!Known, DDP!State
<1>4. DD!Next <=> DDP!Next
  BY <1>2, <1>3 DEF DD!Next, DD!Ingest, DD!Approve, DDP!Next, DDP!Ingest, DDP!Approve
<1>. QED BY <1>1, <1>4

\* insert_device, update_device_observation and upsert_service_keys.
LEMMA ObserveEffect ==
  ASSUME NEW old \in DD!Database, NEW r \in Request, NEW e \in Event,
         NEW m \in DD!Hints(e), NEW d \in DD!Targets(old, r, e, m)
  PROVE  /\ d \in Request
         /\ DD!Observed(old, d, e, m) \in DD!Database
         /\ DD!Observed(old, d, e, m).audit = old.audit
         /\ DD!Observed(old, d, e, m).approved = old.approved
<1>1. old \in DDP!Database /\ m \in DDP!Hints(e) /\ d \in DDP!Targets(old, r, e, m)
  BY SameOperators
<1>2. m \in Mac \cup {None} /\ d \in Request
  BY <1>1, DDP!HintsType, DDP!TargetsType, NoneAssumption, EventAssumption,
     NullAssumption DEF DD!Snapshot, DDP!Snapshot, DD!Record, DDP!Record
<1>3. DDP!IsObserved(old, DDP!Observed(old, d, e, m), d, e, m)
  BY <1>1, <1>2, DDP!ObservedFields, NoneAssumption, EventAssumption,
     NullAssumption DEF DD!Snapshot, DDP!Snapshot, DD!Record, DDP!Record
<1>4. DDP!Observed(old, d, e, m) = DD!Observed(old, d, e, m)
  BY SameOperators
<1>. QED BY <1>2, <1>3, <1>4, SameOperators DEF DDP!IsObserved

\* update_device_mac, append_discovery_event and _apply_policy_alerts.
LEMMA RecordEffect ==
  ASSUME NEW old \in DD!Database, NEW r \in Request, NEW d \in Request,
         NEW e \in Event, NEW late \in DD!SecondHints(old, d, e)
  PROVE  LET new == DD!Alerted(DD!Logged(old, r, d, late), d) IN
           /\ new \in DD!Database
           /\ new.audit = old.audit \cup {r}
           /\ new.approved = old.approved
<1>1. late \in Mac \cup {None} /\ old \in DDP!Database
  <2>1. DDP!Hints(e) \subseteq Mac \cup {None}
    BY DDP!HintsType, NoneAssumption, EventAssumption,
       NullAssumption DEF DD!Snapshot, DDP!Snapshot, DD!Record, DDP!Record
  <2>. QED BY <2>1, SameOperators DEF DD!SecondHints
<1>2. DDP!IsRecorded(old, DDP!Alerted(DDP!Logged(old, r, d, late), d), r, d, late)
  BY <1>1, DDP!RecordedFields, NoneAssumption, EventAssumption,
     NullAssumption DEF DD!Snapshot, DDP!Snapshot, DD!Record, DDP!Record
<1>3. DDP!Alerted(DDP!Logged(old, r, d, late), d) = DD!Alerted(DD!Logged(old, r, d, late), d)
  BY SameOperators
<1>. QED BY <1>2, <1>3, SameOperators DEF DDP!IsRecorded

\* set_device_approved and upsert_baseline.
Approved(old, d) ==
  [old EXCEPT !.approved[d] = TRUE, !.baseline[d] = DD!State(old, d)]

\* An approval marks its device, keeps the marks of the others, and logs nothing.
LEMMA ApproveEffect ==
  ASSUME NEW old \in DD!Database, NEW d \in Request
  PROVE  /\ Approved(old, d) \in DD!Database
         /\ Approved(old, d).audit = old.audit
         /\ Approved(old, d).approved[d]
         /\ \A x \in Request : old.approved[x] => Approved(old, d).approved[x]
<1>1. DD!State(old, d) \in DD!Snapshot
  BY DEF DD!State, DD!Snapshot, DD!Database
<1>. QED BY <1>1 DEF DD!Database, Approved

--------------------------------------------------------------------------------
(* Transactions *)

\* What the open transaction of r has done to the database it began with, which
\* is still the one committed.
Observing(r) ==
  /\ job[r].kind = "ingest"
  /\ \E m \in DD!Hints(job[r].event) :
       /\ device[r] \in DD!Targets(db, r, job[r].event, m)
       /\ work[r] = DD!Observed(db, device[r], job[r].event, m)
  /\ work[r].audit = db.audit /\ work[r].approved = db.approved

Wrote(r) ==
  \/ /\ job[r].kind = "ingest"
     /\ DD!IngestResult(db, work[r], r, job[r].event)
     /\ work[r].audit = db.audit \cup {r} /\ work[r].approved = db.approved
  \/ /\ job[r].kind = "approve"
     /\ DD!ApproveResult(db, work[r], job[r].device)
     /\ work[r].audit = db.audit /\ work[r].approved[job[r].device]
     /\ \A x \in Request : db.approved[x] => work[r].approved[x]

\* A snapshot that is not stale is the database; a writer has the lock, has a
\* fresh snapshot, and has not committed before.
TransactionOK(r) ==
  /\ pc[r] # "idle" => job[r] \in Job
  /\ pc[r] \in {"idle", "called"} \cup {"read", "observed", "written"} => r \notin db.audit
  /\ pc[r] = "read" =>
       /\ r \notin stale => work[r] = db
       /\ job[r].kind = "approve" => job[r].device \in DD!Known(work[r])
  /\ pc[r] \in {"observed", "written"} => writer = r /\ r \notin stale
  /\ pc[r] = "observed" => Observing(r)
  /\ pc[r] = "written" => Wrote(r)

TInv == TypeOK /\ \A r \in Request : TransactionOK(r)

--------------------------------------------------------------------------------
(* What a step leaves alone *)

\* The transaction of x is not touched.
Apart(x) ==
  /\ pc'[x] = pc[x] /\ job'[x] = job[x] /\ work'[x] = work[x] /\ device'[x] = device[x]
  /\ db' = db /\ (x \in stale' <=> x \in stale)
  /\ writer = x => writer' = x

\* A transaction that is not touched stays sound.
LEMMA ApartKeeps ==
  ASSUME NEW x \in Request, TransactionOK(x), Apart(x)
  PROVE  TransactionOK(x)'
BY DEF TransactionOK, Apart, Observing, Wrote

\* The handler of r ends, with a rollback if its transaction is open: it reports
\* success only of what is committed, and a committed event only as a success.
Ends(r, code) ==
  /\ pc[r] \in Handling
  /\ code \in {200, 202} =>
       pc[r] = "committed" /\ (code = 200 <=> job[r].kind = "approve")
  /\ code \in {400, 404, 500} => pc[r] # "committed" \/ job[r].kind = "approve"
  /\ Closed(r)
  /\ answer' = [answer EXCEPT ![r] = code]
  /\ UNCHANGED <<db, job, up, crashes>>

\* Record without the violation of the UNIQUE index.
Records(r) ==
  /\ pc[r] = "observed"
  /\ \E late \in DD!SecondHints(work[r], device[r], job[r].event) :
       /\ DD!Unique(work[r], late)
       /\ work' = [work EXCEPT ![r] =
            DD!Alerted(DD!Logged(@, r, device[r], late), device[r])]
  /\ pc' = [pc EXCEPT ![r] = "written"]
  /\ UNCHANGED <<db, job, device, stale, writer, answer, up, crashes>>

\* Every step is one of these.
LEMMA Steps ==
  ASSUME [Next]_vars
  PROVE  \/ \E r \in Request :
              \/ Receive(r) \/ Read(r) \/ Observe(r) \/ Approve(r) \/ Records(r)
              \/ Commit(r) \/ \E code \in Codes : Ends(r, code)
         \/ Crash \/ Restart \/ UNCHANGED vars
<1>1. ASSUME NEW r \in Request, Record(r)
      PROVE  Records(r) \/ Ends(r, 500)
  BY <1>1 DEF Record, Records, Error, Ends, Handling
<1>2. ASSUME NEW r \in Request,
             Reject(r) \/ NotFound(r) \/ Busy(r) \/ Reply(r) \/ Fail(r)
      PROVE  \E code \in Codes : Ends(r, code)
  BY <1>2 DEF Reject, NotFound, Busy, Reply, Fail, Answer, Error, Ends, Handling, Codes
<1>3. 500 \in Codes
  BY DEF Codes
<1>. QED BY <1>1, <1>2, <1>3 DEF Next, Step

\* The end of a handler leaves the other transactions alone.
LEMMA EndsApart ==
  ASSUME TypeOK, NEW r \in Request, NEW code, Ends(r, code), NEW x \in Request, x # r
  PROVE  Apart(x)
BY DEF Apart, Ends, Closed, TypeOK

\* A committed transaction leaves the other snapshots stale.
LEMMA CommitOutdates ==
  ASSUME TInv, NEW r \in Request, Commit(r), NEW x \in Request, x # r
  PROVE  /\ pc'[x] = pc[x] /\ job'[x] = job[x] /\ work'[x] = work[x]
         /\ pc[x] \notin {"observed", "written"}
         /\ pc[x] = "read" => x \in stale'
<1>1. writer = r
  BY DEF TInv, TransactionOK, Commit
<1>2. pc[x] \notin {"observed", "written"}
  BY <1>1 DEF TInv, TransactionOK
<1>. QED BY <1>2 DEF Commit, Outdated, InTransaction, TInv, TypeOK

--------------------------------------------------------------------------------
(* The transactions are sound *)

LEMMA TInvInit == Init => TInv
<1>1. DD!EmptyDatabase \in DD!Database
  BY DEF DD!EmptyDatabase, DD!Database
<1>2. DD!EmptyDatabase.audit = {}
  BY DEF DD!EmptyDatabase
<1>. QED BY <1>1, <1>2, BoundAssumption DEF Init, TInv, TypeOK, TransactionOK, InTransaction

\* The event of a job, and the device of an approval.
LEMMA JobType ==
  ASSUME NEW j \in Job
  PROVE  /\ j.kind \in {"ingest", "approve", "malformed"}
         /\ j.kind = "ingest" => j.event \in Event
         /\ j.kind = "approve" => j.device \in Request
BY DEF Job

\* A request arrives: its transaction is not open yet.
LEMMA ReceiveKeeps == ASSUME TInv, NEW r \in Request, Receive(r) PROVE TInv'
<1>1. TypeOK'
  BY DEF Receive, TInv, TypeOK, Handling, InTransaction
<1>2. ASSUME NEW x \in Request, x # r PROVE TransactionOK(x)'
  <2>1. Apart(x)
    BY <1>2 DEF Receive, TInv, TypeOK, Apart
  <2>. QED BY <2>1, ApartKeeps DEF TInv
<1>3. TransactionOK(r)'
  BY DEF Receive, TInv, TypeOK, TransactionOK
<1>. QED BY <1>1, <1>2, <1>3 DEF TInv

\* The first SELECT takes the last commit as its snapshot.
LEMMA ReadKeeps == ASSUME TInv, NEW r \in Request, Read(r) PROVE TInv'
<1>1. TypeOK'
  BY DEF Read, TInv, TypeOK, Handling, InTransaction
<1>2. ASSUME NEW x \in Request, x # r PROVE TransactionOK(x)'
  <2>1. Apart(x)
    BY <1>2 DEF Read, TInv, TypeOK, Apart
  <2>. QED BY <2>1, ApartKeeps DEF TInv
<1>3. TransactionOK(r)'
  BY DEF Read, TInv, TypeOK, TransactionOK
<1>. QED BY <1>1, <1>2, <1>3 DEF TInv

\* The first write of an ingestion takes the lock, on a fresh snapshot only.
LEMMA ObserveKeeps == ASSUME TInv, NEW r \in Request, Observe(r) PROVE TInv'
<1>1. /\ job[r].kind = "ingest" /\ job[r].event \in Event /\ writer = None
      /\ r \notin stale /\ work[r] = db /\ db \in DD!Database /\ r \notin db.audit
      /\ job[r] \in Job /\ pc[r] = "read"
  BY JobType DEF Observe, LockFree, TInv, TransactionOK, TypeOK
<1>2. PICK m \in DD!Hints(job[r].event) :
        \E d \in DD!Targets(work[r], r, job[r].event, m) :
          /\ device' = [device EXCEPT ![r] = d]
          /\ work' = [work EXCEPT ![r] = DD!Observed(@, d, job[r].event, m)]
  BY DEF Observe
<1>3. PICK d \in DD!Targets(work[r], r, job[r].event, m) :
        /\ device' = [device EXCEPT ![r] = d]
        /\ work' = [work EXCEPT ![r] = DD!Observed(@, d, job[r].event, m)]
  BY <1>2
<1> DEFINE new == DD!Observed(work[r], d, job[r].event, m)
<1>4. /\ d \in Request /\ new \in DD!Database
      /\ new.audit = db.audit /\ new.approved = db.approved
  BY <1>1, ObserveEffect
<1>5. /\ device'[r] = d /\ work'[r] = new /\ pc'[r] = "observed" /\ writer' = r
      /\ db' = db /\ job' = job /\ stale' = stale
  BY <1>3 DEF Observe, TInv, TypeOK
<1>6. TypeOK'
  BY <1>1, <1>3, <1>4 DEF Observe, TInv, TypeOK, Handling, InTransaction
<1>7. ASSUME NEW x \in Request, x # r PROVE TransactionOK(x)'
  <2>1. Apart(x)
    BY <1>1, <1>3, <1>7, NullAssumption DEF Observe, TInv, TypeOK, Apart
  <2>. QED BY <2>1, ApartKeeps DEF TInv
<1>8. Observing(r)'
  BY <1>1, <1>3, <1>4, <1>5 DEF Observing
<1>9. TransactionOK(r)'
  BY <1>1, <1>5, <1>8 DEF TransactionOK
<1>. QED BY <1>6, <1>7, <1>9 DEF TInv

\* An approval writes on a fresh snapshot, which has its device.
LEMMA ApproveKeeps == ASSUME TInv, NEW r \in Request, Approve(r) PROVE TInv'
<1> DEFINE d == job[r].device
           new == Approved(work[r], d)
<1>1. /\ job[r].kind = "approve" /\ d \in Request /\ writer = None
      /\ r \notin stale /\ work[r] = db /\ db \in DD!Database /\ r \notin db.audit
      /\ job[r] \in Job /\ pc[r] = "read" /\ d \in DD!Known(db)
  BY JobType DEF Approve, LockFree, TInv, TransactionOK, TypeOK
<1>2. /\ new \in DD!Database /\ new.audit = db.audit
      /\ new.approved[d] /\ \A x \in Request : db.approved[x] => new.approved[x]
  BY <1>1, ApproveEffect
<1>3. /\ device'[r] = d /\ work'[r] = new /\ pc'[r] = "written" /\ writer' = r
      /\ db' = db /\ job' = job /\ stale' = stale
  BY DEF Approve, TInv, TypeOK, Approved
<1>4. DD!ApproveResult(db, new, d)
  BY <1>1 DEF DD!ApproveResult, Approved
<1> HIDE DEF new
<1>5. TypeOK'
  BY <1>1, <1>2 DEF Approve, TInv, TypeOK, Handling, InTransaction, new, Approved
<1>6. ASSUME NEW x \in Request, x # r PROVE TransactionOK(x)'
  <2>1. Apart(x)
    BY <1>1, <1>6, NullAssumption DEF Approve, TInv, TypeOK, Apart
  <2>. QED BY <2>1, ApartKeeps DEF TInv
<1>7. Wrote(r)'
  BY <1>1, <1>2, <1>3, <1>4 DEF Wrote
<1>8. TransactionOK(r)'
  BY <1>1, <1>3, <1>7 DEF TransactionOK
<1>. QED BY <1>5, <1>6, <1>8 DEF TInv

\* The last statements of an ingestion complete what the first ones began.
LEMMA RecordKeeps == ASSUME TInv, NEW r \in Request, Records(r) PROVE TInv'
<1>1. /\ pc[r] = "observed" /\ Observing(r) /\ job[r] \in Job /\ writer = r
      /\ r \notin stale /\ r \notin db.audit /\ job[r].event \in Event
      /\ work[r] \in DD!Database /\ job[r].kind = "ingest"
  BY JobType DEF Records, TInv, TransactionOK, TypeOK, Observing
<1>2. PICK m \in DD!Hints(job[r].event) :
        /\ device[r] \in DD!Targets(db, r, job[r].event, m)
        /\ work[r] = DD!Observed(db, device[r], job[r].event, m)
  BY <1>1 DEF Observing
<1>3. PICK late \in DD!SecondHints(work[r], device[r], job[r].event) :
        /\ DD!Unique(work[r], late)
        /\ work' = [work EXCEPT ![r] =
             DD!Alerted(DD!Logged(@, r, device[r], late), device[r])]
  BY DEF Records
<1> DEFINE new == DD!Alerted(DD!Logged(work[r], r, device[r], late), device[r])
<1>4. device[r] \in Request
  BY <1>1, <1>2, ObserveEffect DEF TInv, TypeOK
<1>5. /\ new \in DD!Database /\ new.audit = db.audit \cup {r}
      /\ new.approved = db.approved
  BY <1>1, <1>4, RecordEffect DEF Observing
<1>6. DD!IngestResult(db, new, r, job[r].event)
  BY <1>2, <1>3 DEF DD!IngestResult
<1> HIDE DEF new
<1>7. /\ work'[r] = new /\ pc'[r] = "written" /\ db' = db /\ job' = job
      /\ writer' = writer /\ stale' = stale
  BY <1>3 DEF Records, TInv, TypeOK, new
<1>8. TypeOK'
  BY <1>1, <1>3, <1>5 DEF Records, TInv, TypeOK, Handling, InTransaction, new
<1>9. ASSUME NEW x \in Request, x # r PROVE TransactionOK(x)'
  <2>1. Apart(x)
    BY <1>3, <1>9 DEF Records, TInv, TypeOK, Apart
  <2>. QED BY <2>1, ApartKeeps DEF TInv
<1>10. Wrote(r)'
  BY <1>1, <1>5, <1>6, <1>7 DEF Wrote
<1>11. TransactionOK(r)'
  BY <1>1, <1>7, <1>10 DEF TransactionOK
<1>. QED BY <1>8, <1>9, <1>11 DEF TInv

\* What is committed is the whole of one transaction; all other snapshots go stale.
LEMMA CommitKeeps == ASSUME TInv, NEW r \in Request, Commit(r) PROVE TInv'
<1>1. /\ pc[r] = "written" /\ job[r] \in Job /\ db' = work[r] /\ Wrote(r)
      /\ pc'[r] = "committed" /\ job' = job
  BY DEF Commit, TInv, TransactionOK, TypeOK
<1>2. db'.audit \subseteq db.audit \cup {r}
  BY <1>1 DEF Wrote
<1>3. TypeOK'
  BY DEF Commit, TInv, TransactionOK, TypeOK, Handling, InTransaction, Outdated
<1>4. ASSUME NEW x \in Request, x # r PROVE TransactionOK(x)'
  <2>1. /\ pc'[x] = pc[x] /\ job'[x] = job[x] /\ work'[x] = work[x]
        /\ pc[x] \notin {"observed", "written"}
        /\ pc[x] = "read" => x \in stale'
    BY <1>4, CommitOutdates
  <2>. QED BY <1>2, <1>4, <2>1 DEF TInv, TransactionOK
<1>5. TransactionOK(r)'
  BY <1>1 DEF TransactionOK
<1>. QED BY <1>3, <1>4, <1>5 DEF TInv

\* A handler that ends leaves no transaction and no lock behind.
LEMMA EndsKeep ==
  ASSUME TInv, NEW r \in Request, NEW code \in Codes, Ends(r, code)
  PROVE  TInv'
<1>1. DD!EmptyDatabase \in DD!Database
  BY DEF DD!EmptyDatabase, DD!Database
<1>2. TypeOK'
  BY <1>1 DEF Ends, Closed, TInv, TypeOK, Handling, InTransaction
<1>3. ASSUME NEW x \in Request, x # r PROVE TransactionOK(x)'
  BY <1>3, EndsApart, ApartKeeps DEF TInv
<1>4. TransactionOK(r)'
  BY DEF Ends, Closed, TInv, TypeOK, TransactionOK, Handling
<1>. QED BY <1>2, <1>3, <1>4 DEF TInv

\* A crash loses every open transaction and nothing else.
LEMMA CrashKeeps == ASSUME TInv, Crash PROVE TInv'
<1>1. DD!EmptyDatabase \in DD!Database
  BY DEF DD!EmptyDatabase, DD!Database
<1>2. TypeOK'
  <2>1. crashes' \in 0..MaxCrashes
    BY BoundAssumption DEF Crash, TInv, TypeOK
  <2>2. pc' \in [Request -> {"idle", "done"} \cup Handling]
    BY DEF Crash, TInv, TypeOK, Handling
  <2>. QED BY <1>1, <2>1, <2>2 DEF Crash, TInv, TypeOK, InTransaction
<1>3. ASSUME NEW x \in Request PROVE TransactionOK(x)'
  BY DEF Crash, TInv, TypeOK, TransactionOK, Handling
<1>. QED BY <1>2, <1>3 DEF TInv

\* Every step of every handler keeps the transactions sound.
LEMMA TInvNext == TInv /\ [Next]_vars => TInv'
<1>. SUFFICES ASSUME TInv, [Next]_vars PROVE TInv'
  OBVIOUS
<1>1. CASE Restart
  BY <1>1 DEF Restart, TInv, TypeOK, TransactionOK, InTransaction, Observing, Wrote
<1>2. CASE UNCHANGED vars
  BY <1>2 DEF vars, TInv, TypeOK, TransactionOK, InTransaction, Observing, Wrote
<1>. QED BY <1>1, <1>2, Steps, ReceiveKeeps, ReadKeeps, ObserveKeeps, ApproveKeeps,
            RecordKeeps, CommitKeeps, EndsKeep, CrashKeeps

\* In every behaviour, the transactions are sound.
THEOREM TransactionsSound == Spec => []TInv
<1>. QED BY TInvInit, TInvNext, PTL DEF Spec

--------------------------------------------------------------------------------
(* The database changes as if requests came one at a time *)

\* A step of the API that changes the database serves one request.
LEMMA StepIsSerial == TInv /\ [Next]_vars => [DD!Next]_db
<1>. SUFFICES ASSUME TInv, [Next]_vars, db' # db PROVE DD!Next
  OBVIOUS
<1>1. PICK r \in Request : Commit(r)
  BY Steps DEF TInv, Receive, Read, Observe, Approve, Records, Ends, Crash, Restart, vars
<1>2. /\ db' = work[r] /\ Wrote(r) /\ r \notin db.audit /\ job[r] \in Job
      /\ db' \in DD!Database
  BY <1>1 DEF Commit, TInv, TransactionOK, TypeOK
<1>3. CASE job[r].kind = "ingest"
  BY <1>2, <1>3, JobType DEF Wrote, DD!Next, DD!Ingest
<1>4. CASE job[r].kind = "approve"
  BY <1>2, <1>4, JobType DEF Wrote, DD!Next, DD!Approve
<1>. QED BY <1>2, <1>3, <1>4 DEF Wrote

\* The API implements DeviceDatabase: requests that overlap, fail and are cut
\* off have the effects that they have one at a time, or none.
THEOREM RequestsAreSerial == Spec => Serial
<1>1. Init => DD!Init
  BY DEF Init, DD!Init
<1>. QED BY <1>1, StepIsSerial, TransactionsSound, PTL DEF Spec, Serial, DD!Spec

\* The invariant of DeviceDatabase holds of the database that they share.
LEMMA DatabaseInvariant == Spec => []DDP!IInv
<1>1. DDP!Spec => []DDP!IInv
  BY DDP!Invariance, NoneAssumption, EventAssumption,
     NullAssumption DEF DD!Snapshot, DDP!Snapshot, DD!Record, DDP!Record
<1>. QED BY <1>1, SameSpecification, RequestsAreSerial, PTL
         DEF Serial, DD!Spec, DDP!Spec

\* However requests overlap, no two devices have one MAC, no two devices without
\* a MAC are at one address, and no alert is missing.
THEOREM DatabaseStaysSound ==
  Spec => [](/\ DD!MacsUnique /\ DD!NoMacNoTwin
             /\ DD!UnknownAlerted /\ DD!MismatchAlerted)
<1>1. DDP!IInv => /\ DD!MacsUnique /\ DD!NoMacNoTwin
                  /\ DD!UnknownAlerted /\ DD!MismatchAlerted
  BY DEF DDP!IInv, DD!MacsUnique, DDP!MacsUnique, DD!NoMacNoTwin, DDP!NoMacNoTwin,
      DD!UnknownAlerted, DDP!UnknownAlerted, DD!MismatchAlerted, DDP!MismatchAlerted,
      DD!Known, DDP!Known, DD!State, DDP!State
<1>. QED BY <1>1, DatabaseInvariant, PTL

--------------------------------------------------------------------------------
(* What an answer says is true, and stays so *)

\* A request is answered when it is done; the audit log has events, and only
\* those whose request was not refused.
AnswerOK(r) ==
  /\ r \in db.audit => job[r] \in Job /\ job[r].kind = "ingest"
  /\ pc[r] = "committed" =>
       \/ job[r].kind = "ingest" /\ r \in db.audit
       \/ job[r].kind = "approve" /\ db.approved[job[r].device]
  /\ answer[r] # None => pc[r] = "done"
  /\ answer[r] = 202 => r \in db.audit
  /\ answer[r] = 200 => job[r].kind = "approve" /\ db.approved[job[r].device]
  /\ answer[r] \in {400, 404, 500} => r \notin db.audit

AInv == \A r \in Request : AnswerOK(r)

\* Approvals and the audit log only grow, the log by events.
Grows ==
  /\ db.audit \subseteq db'.audit
  /\ \A x \in db'.audit \ db.audit :
       pc[x] = "written" /\ job[x] \in Job /\ job[x].kind = "ingest"
  /\ \A x \in Request : db.approved[x] => db'.approved[x]

\* No step takes an audit row or an approval back.
LEMMA StepGrows == ASSUME TInv, [Next]_vars PROVE Grows
<1>1. CASE db' = db
  BY <1>1 DEF Grows
<1>2. ASSUME NEW r \in Request, Commit(r) PROVE Grows
  <2>1. /\ db' = work[r] /\ Wrote(r) /\ pc[r] = "written" /\ job[r] \in Job
    BY <1>2 DEF Commit, TInv, TransactionOK
  <2>. QED BY <2>1 DEF Wrote, Grows
<1>. QED BY <1>1, <1>2, Steps
         DEF TInv, Receive, Read, Observe, Approve, Records, Ends, Crash, Restart, vars

\* A request that is not touched keeps what its answer says.
LEMMA AnswerKept ==
  ASSUME TInv, NEW x \in Request, AnswerOK(x), Grows,
         job'[x] = job[x], answer'[x] = answer[x],
         pc'[x] = pc[x] \/ (answer[x] = None /\ pc'[x] # "committed")
  PROVE  AnswerOK(x)'
<1>1. answer[x] # None => x \notin db'.audit \ db.audit
  BY DEF AnswerOK, Grows
<1>2. job[x] \in Job /\ job[x].kind = "approve" => job[x].device \in Request
  BY JobType
<1>3. pc[x] # "idle" => job[x] \in Job
  BY DEF TInv, TransactionOK
<1>. QED BY <1>1, <1>2, <1>3, NullAssumption DEF AnswerOK, Grows, Codes

\* Before the first request there is no answer.
LEMMA AInvInit == Init => AInv
<1>1. DD!EmptyDatabase.audit = {}
  BY DEF DD!EmptyDatabase
<1>. SUFFICES ASSUME Init, NEW r \in Request PROVE AnswerOK(r)
  BY DEF AInv
<1>2. r \notin db.audit /\ pc[r] = "idle" /\ answer[r] = None
  BY <1>1 DEF Init
<1>3. None \notin {200, 202, 400, 404, 500}
  BY NullAssumption DEF Codes
<1>. QED BY <1>2, <1>3 DEF AnswerOK

\* The end of a handler: the answer is true of the database.
LEMMA EndsAnswers ==
  ASSUME TInv, AInv, NEW r \in Request, NEW code \in Codes, Ends(r, code)
  PROVE  AnswerOK(r)'
<1>1. /\ AnswerOK(r) /\ TransactionOK(r) /\ job[r] \in Job
      /\ db' = db /\ job' = job /\ pc'[r] = "done" /\ answer'[r] = code
  BY DEF AInv, TInv, TransactionOK, Ends, Closed, TypeOK, Handling
<1>2. CASE code = 202
  BY <1>1, <1>2 DEF AnswerOK, Ends
<1>3. CASE code = 200
  BY <1>1, <1>3 DEF AnswerOK, Ends
<1>4. CASE code \in {400, 404, 500}
  <2>1. CASE pc[r] = "committed"
    BY <1>1, <1>4, <2>1 DEF AnswerOK, Ends
  <2>2. CASE pc[r] # "committed"
    <3>1. r \notin db.audit
      BY <1>1, <2>2 DEF TransactionOK, Ends, Handling
    <3>. QED BY <1>1, <1>4, <3>1 DEF AnswerOK
  <2>. QED BY <2>1, <2>2
<1>. QED BY <1>2, <1>3, <1>4 DEF Codes

\* The answers stay true.
LEMMA AInvNext == TInv /\ AInv /\ [Next]_vars => AInv'
<1>. SUFFICES ASSUME TInv, AInv, [Next]_vars, NEW x \in Request PROVE AnswerOK(x)'
  BY DEF AInv
<1>0. Grows /\ AnswerOK(x) /\ TransactionOK(x)
  BY StepGrows DEF AInv, TInv
<1>1. ASSUME NEW r \in Request, Receive(r) PROVE AnswerOK(x)'
  <2>1. CASE x = r
    BY <1>0, <1>1, <2>1, NullAssumption
       DEF Receive, AnswerOK, TransactionOK, TInv, TypeOK, Codes
  <2>2. CASE x # r
    BY <1>0, <1>1, <2>2, AnswerKept DEF Receive, TInv, TypeOK
  <2>. QED BY <2>1, <2>2
<1>2. ASSUME NEW r \in Request, Read(r) \/ Observe(r) \/ Approve(r) \/ Records(r)
      PROVE  AnswerOK(x)'
  <2>1. /\ job' = job /\ answer' = answer
        /\ pc[r] # "done" /\ pc'[r] # "committed"
        /\ \A y \in Request : y # r => pc'[y] = pc[y]
    BY <1>2 DEF Read, Observe, Approve, Records, TInv, TypeOK
  <2>. QED BY <1>0, <2>1, AnswerKept DEF AnswerOK
<1>3. ASSUME NEW r \in Request, Commit(r) PROVE AnswerOK(x)'
  <2>1. CASE x = r
    <3>1. /\ db' = work[r] /\ Wrote(r) /\ pc[r] = "written" /\ job' = job
          /\ job[r] \in Job /\ answer'[r] = answer[r] /\ pc'[r] = "committed"
          /\ answer[r] = None /\ r \notin db.audit
      BY <1>0, <1>3, <2>1 DEF Commit, TInv, TransactionOK, TypeOK, AnswerOK
    <3>. QED BY <2>1, <3>1, NullAssumption DEF Wrote, AnswerOK, Codes
  <2>2. CASE x # r
    BY <1>0, <1>3, <2>2, AnswerKept DEF Commit, TInv, TypeOK
  <2>. QED BY <2>1, <2>2
<1>4. ASSUME NEW r \in Request, NEW code \in Codes, Ends(r, code) PROVE AnswerOK(x)'
  <2>1. CASE x = r
    BY <1>4, <2>1, EndsAnswers
  <2>2. CASE x # r
    BY <1>0, <1>4, <2>2, AnswerKept DEF Ends, Closed, TInv, TypeOK
  <2>. QED BY <2>1, <2>2
<1>5. CASE Crash
  <2>1. /\ job' = job /\ answer' = answer
        /\ pc'[x] = IF pc[x] \in Handling THEN "done" ELSE pc[x]
    BY <1>5 DEF Crash
  <2>. QED BY <1>0, <2>1, AnswerKept DEF AnswerOK, Handling
<1>6. CASE Restart \/ UNCHANGED vars
  BY <1>0, <1>6, AnswerKept DEF Restart, vars
<1>. QED BY <1>1, <1>2, <1>3, <1>4, <1>5, <1>6, Steps

\* Every answer is true of the database whenever it is looked at.
THEOREM AnswersStayTrue == Spec => []AInv
<1>. QED BY AInvInit, AInvNext, TransactionsSound, PTL DEF Spec

\* An event answered 202 is in the audit log and a device answered 200 is
\* approved, with a baseline, across crashes and whatever other requests do.
THEOREM SuccessNotLost == Spec => []SuccessIsDurable
<1>1. TInv /\ AInv /\ DDP!IInv => SuccessIsDurable
  <2>. SUFFICES ASSUME TInv, AInv, DDP!IInv, NEW r \in Request
                PROVE  /\ answer[r] = 202 => r \in db.audit
                       /\ answer[r] = 200 => /\ db.approved[job[r].device]
                                             /\ db.baseline[job[r].device] # None
    BY DEF SuccessIsDurable
  <2>1. CASE answer[r] = 200
    <3>1. /\ job[r].kind = "approve" /\ db.approved[job[r].device]
          /\ pc[r] = "done" /\ job[r] \in Job
      BY <2>1, NullAssumption DEF AInv, AnswerOK, TInv, TransactionOK, Codes
    <3>2. job[r].device \in Request
      BY <3>1, JobType
    <3>3. db.baseline[job[r].device] # None
      BY <3>1, <3>2 DEF DDP!IInv, DDP!ApprovedKnown, DDP!MismatchAlerted
    <3>. QED BY <2>1, <3>1, <3>3
  <2>2. CASE answer[r] # 200
    BY <2>2 DEF AInv, AnswerOK
  <2>. QED BY <2>1, <2>2
<1>. QED BY <1>1, TransactionsSound, AnswersStayTrue, DatabaseInvariant, PTL

\* A request answered with an error has left neither an audit row nor a device,
\* and none comes of it later.
THEOREM RefusedLeavesNothing == Spec => []RefusalLeavesNothing
<1>1. AInv /\ DDP!IInv => RefusalLeavesNothing
  BY DEF AInv, AnswerOK, DDP!IInv, DDP!DevicesAudited, RefusalLeavesNothing, DD!Known
<1>. QED BY <1>1, AnswersStayTrue, DatabaseInvariant, PTL

\* The variables have their types, and the lock and the snapshots belong to
\* transactions that are open.
THEOREM TypeCorrect == Spec => []TypeOK
<1>1. TInv => TypeOK
  BY DEF TInv
<1>. QED BY <1>1, TransactionsSound, PTL
================================================================================
