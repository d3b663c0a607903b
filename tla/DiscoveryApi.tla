------------------------------ MODULE DiscoveryApi ------------------------------
(***************************************************************************)
(* The Discovery API at work: requests served by a pool of threads, each   *)
(* with a connection of its own to one SQLite database in WAL mode, that   *)
(* overlap, fail half way and are cut off by a crash of the process.       *)
(*                                                                         *)
(* A handler runs in one deferred transaction.  Its first SELECT fixes the *)
(* snapshot it reads; its first write takes the write lock, and fails at   *)
(* once with "database is locked" when another transaction has the lock or *)
(* has committed since the snapshot (a transaction that has read does not  *)
(* wait for the lock).  What the handlers do to the database is that of    *)
(* DeviceDatabase, and Serial states that nothing else comes of it.        *)
(***************************************************************************)
EXTENDS Naturals, Sequences

CONSTANTS
  Request, Ip, Mac, Host, ServiceType, None, Garbled, Event,
  MaxCrashes   \* bound: how often the process is killed

VARIABLES
  db,       \* what is committed: it survives a crash
  job,      \* what each request asks for
  pc,       \* where its handler is
  work,     \* the database as its transaction sees it
  device,   \* the device its transaction works on
  stale,    \* requests whose snapshot is older than the last commit
  writer,   \* the request that has the write lock
  answer,   \* status code of the response
  up, crashes

vars == <<db, job, pc, work, device, stale, writer, answer, up, crashes>>

DD == INSTANCE DeviceDatabase

\* Requests that pass require_api_key.  "malformed" has no records or no src_ip.
Job == [kind : {"ingest"}, event : Event] \cup [kind : {"approve"}, device : Request]
         \cup [kind : {"malformed"}]

Codes == {200, 202, 400, 404, 500}

ASSUME NoneAssumption ==
  {None, Garbled} \cap (Ip \cup Mac \cup Host) = {} /\ None # Garbled
ASSUME EventAssumption ==
  Event \subseteq [ip : Ip, mac : Mac \cup {None, Garbled}, seen : Nat,
                   records : Seq(DD!Record), services : SUBSET ServiceType]
ASSUME BoundAssumption == MaxCrashes \in Nat
ASSUME NullAssumption == None \notin Request \cup Codes \cup DD!Snapshot

\* Before its first statement, after its first SELECT, after its first write,
\* before COMMIT, after it, and when there is nothing left to do.
Handling == {"called", "read", "observed", "written", "committed"}

InTransaction == {r \in Request : pc[r] \in {"read", "observed", "written"}}

Init ==
  /\ db = DD!EmptyDatabase
  /\ job = [r \in Request |-> None]
  /\ pc = [r \in Request |-> "idle"]
  /\ work = [r \in Request |-> DD!EmptyDatabase]
  /\ device = [r \in Request |-> None]
  /\ stale = {} /\ writer = None
  /\ answer = [r \in Request |-> None]
  /\ up = TRUE /\ crashes = 0

--------------------------------------------------------------------------------
(* The end of a handler *)

\* The connection is closed (get_db), which drops the transaction if it is open.
Closed(r) ==
  /\ pc' = [pc EXCEPT ![r] = "done"]
  /\ work' = [work EXCEPT ![r] = DD!EmptyDatabase]
  /\ device' = [device EXCEPT ![r] = None]
  /\ stale' = stale \ {r}
  /\ writer' = IF writer = r THEN None ELSE writer

\* Fault: the error is swallowed, and the request answered like a good one.
ErrorFault(r) ==
  /\ Closed(r)
  /\ answer' = [answer EXCEPT ![r] = IF job[r].kind = "approve" THEN 200 ELSE 202]
  /\ UNCHANGED <<db, job, up, crashes>>
\* Fault: what was written before the error is committed.
ErrorFault2(r) ==
  /\ Closed(r)
  /\ db' = IF writer = r THEN work[r] ELSE db
  /\ answer' = [answer EXCEPT ![r] = 500]
  /\ UNCHANGED <<job, up, crashes>>
\* except sqlite3.Error: roll back and answer 500.
Error(r) ==
  /\ Closed(r)
  /\ answer' = [answer EXCEPT ![r] = 500]
  /\ UNCHANGED <<db, job, up, crashes>>

Answer(r, code) ==
  /\ Closed(r)
  /\ answer' = [answer EXCEPT ![r] = code]
  /\ UNCHANGED <<db, job, up, crashes>>

--------------------------------------------------------------------------------
(* The steps of a handler *)

Receive(r) ==
  /\ up /\ pc[r] = "idle"
  /\ pc' = [pc EXCEPT ![r] = "called"]
  /\ \E j \in Job : job' = [job EXCEPT ![r] = j]
  /\ UNCHANGED <<db, work, device, stale, writer, answer, up, crashes>>

\* `if not event.records', and the ValueError of an empty src_ip.
Reject(r) ==
  /\ pc[r] = "called" /\ job[r].kind = "malformed"
  /\ Answer(r, 400)

\* get_device_row of a device that is not there.
NotFound(r) ==
  /\ pc[r] = "called" /\ job[r].kind = "approve" /\ job[r].device \notin DD!Known(db)
  /\ Answer(r, 404)

\* find_device_by_mac, find_device_by_src_ip, get_device_row.
Read(r) ==
  /\ pc[r] = "called"
  /\ \/ job[r].kind = "ingest"
     \/ job[r].kind = "approve" /\ job[r].device \in DD!Known(db)
  /\ pc' = [pc EXCEPT ![r] = "read"]
  /\ work' = [work EXCEPT ![r] = db]
  /\ UNCHANGED <<db, job, device, stale, writer, answer, up, crashes>>

\* Fault: the snapshot is not kept from the SELECT to the first write.
LockFreeFault(r) == writer = None
\* SQLite lets a transaction that has read go on to write.
LockFree(r) == writer = None /\ r \notin stale

\* insert_device or update_device_observation, and upsert_service_keys.
Observe(r) ==
  /\ pc[r] = "read" /\ LockFree(r) /\ job[r].kind = "ingest"
  /\ pc' = [pc EXCEPT ![r] = "observed"]
  /\ writer' = r
  /\ \E m \in DD!Hints(job[r].event) :
       \E d \in DD!Targets(work[r], r, job[r].event, m) :
         /\ device' = [device EXCEPT ![r] = d]
         /\ work' = [work EXCEPT ![r] = DD!Observed(@, d, job[r].event, m)]
  /\ UNCHANGED <<db, job, stale, answer, up, crashes>>

\* set_device_approved and upsert_baseline.
Approve(r) ==
  /\ pc[r] = "read" /\ LockFree(r) /\ job[r].kind = "approve"
  /\ pc' = [pc EXCEPT ![r] = "written"]
  /\ writer' = r
  /\ device' = [device EXCEPT ![r] = job[r].device]
  /\ work' = [work EXCEPT ![r] =
       [@ EXCEPT !.approved[job[r].device] = TRUE,
                 !.baseline[job[r].device] = DD!State(work[r], job[r].device)]]
  /\ UNCHANGED <<db, job, stale, answer, up, crashes>>

\* Fault: the statement is retried in the same transaction until it succeeds.
BusyFault(r) == pc[r] = "read" /\ ~LockFree(r) /\ UNCHANGED vars
\* "database is locked", at once.
Busy(r) == pc[r] = "read" /\ ~LockFree(r) /\ Error(r)

\* _attach_mac_if_needed, append_discovery_event and _apply_policy_alerts.
Record(r) ==
  /\ pc[r] = "observed"
  /\ \E late \in DD!SecondHints(work[r], device[r], job[r].event) :
       IF DD!Unique(work[r], late)
         THEN /\ pc' = [pc EXCEPT ![r] = "written"]
              /\ work' = [work EXCEPT ![r] =
                   DD!Alerted(DD!Logged(@, r, device[r], late), device[r])]
              /\ UNCHANGED <<db, job, device, stale, writer, answer, up, crashes>>
         ELSE Error(r)   \* IntegrityError

\* The others whose snapshot a commit leaves behind.
Outdated(r) == InTransaction \ {r}

Commit(r) ==
  /\ pc[r] = "written"
  /\ pc' = [pc EXCEPT ![r] = "committed"]
  /\ db' = work[r]
  /\ stale' = stale \cup Outdated(r)
  /\ writer' = None
  /\ UNCHANGED <<job, work, device, answer, up, crashes>>

Reply(r) ==
  /\ pc[r] = "committed"
  /\ Answer(r, IF job[r].kind = "approve" THEN 200 ELSE 202)

\* Any statement may fail, that of get_db, the COMMIT, and the SELECT with which
\* an approval that is already committed fetches its answer.
Fail(r) ==
  /\ \/ pc[r] \in Handling \ {"committed"}
     \/ pc[r] = "committed" /\ job[r].kind = "approve"
  /\ Error(r)

--------------------------------------------------------------------------------
(* The process *)

\* Requests under way get no answer; open transactions leave no trace.
Crash ==
  /\ up /\ crashes < MaxCrashes
  /\ up' = FALSE /\ crashes' = crashes + 1
  /\ pc' = [r \in Request |-> IF pc[r] \in Handling THEN "done" ELSE pc[r]]
  /\ work' = [r \in Request |-> DD!EmptyDatabase]
  /\ device' = [r \in Request |-> None]
  /\ stale' = {} /\ writer' = None
  /\ UNCHANGED <<db, job, answer>>

\* ensure_database finds the schema in place.
Restart == ~up /\ up' = TRUE /\ UNCHANGED <<db, job, pc, work, device, stale, writer, answer, crashes>>

Step(r) ==
  \/ Reject(r) \/ NotFound(r) \/ Read(r) \/ Observe(r) \/ Approve(r)
  \/ Busy(r) \/ Record(r) \/ Commit(r) \/ Reply(r)

Next ==
  \/ \E r \in Request : Receive(r) \/ Step(r) \/ Fail(r)
  \/ Crash \/ Restart

Spec == Init /\ [][Next]_vars

\* The threads of the pool run.
FairSpec == Spec /\ \A r \in Request : WF_vars(Step(r))

--------------------------------------------------------------------------------
(* Properties *)

\* The variables have their types, and the lock and the snapshots belong to
\* transactions that are open.
TypeOK ==
  /\ db \in DD!Database
  /\ job \in [Request -> Job \cup {None}]
  /\ pc \in [Request -> {"idle", "done"} \cup Handling]
  /\ work \in [Request -> DD!Database]
  /\ device \in [Request -> Request \cup {None}]
  /\ stale \subseteq InTransaction
  /\ writer \in InTransaction \cup {None}
  /\ answer \in [Request -> Codes \cup {None}]
  /\ up \in BOOLEAN /\ crashes \in 0..MaxCrashes

\* However requests overlap, fail and are cut off, the database changes as if
\* they had come one at a time: no event is recorded on what another request
\* has changed since, or in part.
Serial == DD!Spec

\* An answer of success is kept across a crash: the event is in the audit log,
\* the device is approved and has a baseline.
SuccessIsDurable ==
  \A r \in Request :
    /\ answer[r] = 202 => r \in db.audit
    /\ answer[r] = 200 => LET d == job[r].device IN db.approved[d] /\ db.baseline[d] # None

\* An event that was refused, or failed, leaves nothing behind: neither an audit
\* row nor a device.  The scanner may send it again.
RefusalLeavesNothing ==
  \A r \in Request :
    answer[r] \in {400, 404, 500} => r \notin db.audit \cup DD!Known(db)

\* No handler waits for another for ever: every request is answered, or cut off
\* by a crash.
Answered == \A r \in Request : pc[r] = "called" ~> pc[r] = "done"
================================================================================
