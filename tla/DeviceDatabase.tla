----------------------------- MODULE DeviceDatabase -----------------------------
(***************************************************************************)
(* What the Discovery API does to its database, one request at a time: the *)
(* ingestion of a discovery event and the approval of a device.  This is   *)
(* the abstract specification of the API; DiscoveryApi shows that requests *)
(* which overlap, fail or meet a crash have no other effects.              *)
(*                                                                         *)
(* The database is one record with a field per column or table.  A device  *)
(* is identified by the request that inserted it (a fresh uuid4); its row  *)
(* exists when its ip does (src_ip is NOT NULL).  Only columns on which a  *)
(* later decision depends are kept.                                        *)
(***************************************************************************)
EXTENDS Naturals, Sequences

CONSTANTS
  Request,   \* requests, each of them made once
  Ip, Mac, Host, ServiceType,
  None,      \* SQL NULL and Python None
  Garbled,   \* a MAC that normalize_mac rejects
  Event      \* the events that may be posted

ASSUME NoneAssumption == {None, Garbled} \cap (Ip \cup Mac \cup Host) = {} /\ None # Garbled

\* A record of an event: is it an SRV record, and the host it names.
Record == [srv : BOOLEAN, host : Host \cup {None}]

ASSUME EventAssumption ==
  Event \subseteq [ip : Ip, mac : Mac \cup {None, Garbled}, seen : Nat,
                   records : Seq(Record), services : SUBSET ServiceType]

Snapshot == [host : Host \cup {None}, services : SUBSET ServiceType]

\* A device without a baseline is told from one with a baseline.
ASSUME BaselineAssumption == None \notin Snapshot

\* dedupe_key of an alert.
AlertKey ==
  [type : {"unknown"}, device : Request]
    \cup [type : {"mismatch"}, device : Request, state : Snapshot]

Database ==
  [ip : [Request -> Ip \cup {None}],
   mac : [Request -> Mac \cup {None}],
   host : [Request -> Host \cup {None}],
   seen : [Request -> Nat],
   approved : [Request -> BOOLEAN],
   services : [Request -> SUBSET ServiceType],
   baseline : [Request -> Snapshot \cup {None}],
   alerts : SUBSET AlertKey,
   audit : SUBSET Request]      \* discovery_events, by the request it came with

EmptyDatabase ==
  [ip |-> [r \in Request |-> None], mac |-> [r \in Request |-> None],
   host |-> [r \in Request |-> None], seen |-> [r \in Request |-> 0],
   approved |-> [r \in Request |-> FALSE], services |-> [r \in Request |-> {}],
   baseline |-> [r \in Request |-> None], alerts |-> {}, audit |-> {}]

VARIABLE db

--------------------------------------------------------------------------------
(* mdns_merge.py *)

\* merge_mdns_host: an SRV host is taken, any other only where there is none.
MergeHost(current, record) ==
  IF record.host # None /\ (record.srv \/ current = None) THEN record.host ELSE current

\* The host after each of the records, merged in their order.
HostAfter(current, records) ==
  LET host[i \in 0..Len(records)] ==
        IF i = 0 THEN current ELSE MergeHost(host[i - 1], records[i])
  IN  host[Len(records)]

\* mdns_host_from_event
EventHost(e) == HostAfter(None, e.records)

--------------------------------------------------------------------------------
(* ingest.py: process_discovery_event *)

\* mac_resolver.lookup: whatever the ARP table and `ip neigh' have at the time.
Lookup == Mac \cup {None}

\* _resolve_mac_hint: the MAC in the event, normalised, else a lookup.
Hints(e) == CASE e.mac = None -> Lookup [] e.mac = Garbled -> {None} [] OTHER -> {e.mac}

ByMac(old, m) == {d \in Request : m # None /\ old.mac[d] = m}

\* Fault: only a device that has a MAC is found by its address.
ByIpFault(old, a) ==
  {d \in Request : old.ip[d] = a /\ old.mac[d] # None
     /\ \A x \in Request : old.ip[x] = a => old.seen[x] <= old.seen[d]}
ByIp(old, a) ==
  {d \in Request : old.ip[d] = a /\ \A x \in Request : old.ip[x] = a => old.seen[x] <= old.seen[d]}

\* resolve_device_id: by MAC, else the device last seen at the address, else a
\* new device.
Targets(old, r, e, m) ==
  IF ByMac(old, m) # {} THEN ByMac(old, m)
  ELSE IF ByIp(old, e.ip) # {} THEN ByIp(old, e.ip)
  ELSE {r}

\* Fault: an event without a host clears the host.
NewHostFault(old, d, e, m) ==
  IF ByMac(old, m) # {} THEN EventHost(e) ELSE HostAfter(old.host[d], e.records)
\* A device found by its MAC takes whatever host the event names; one found by
\* its address (or new) is merged record by record.
NewHost(old, d, e, m) ==
  IF ByMac(old, m) # {}
    THEN IF EventHost(e) # None THEN EventHost(e) ELSE old.host[d]
    ELSE HostAfter(old.host[d], e.records)

\* The first MAC known for a device stays.
NewMac(old, d, m) == IF old.mac[d] = None THEN m ELSE old.mac[d]

\* insert_device or update_device_observation, then upsert_service_keys.
Observed(old, d, e, m) ==
  [old EXCEPT !.ip[d] = e.ip, !.seen[d] = e.seen,
              !.host[d] = NewHost(old, d, e, m), !.mac[d] = NewMac(old, d, m),
              !.services[d] = @ \cup e.services]

\* _attach_mac_if_needed: a device left without a MAC is looked up once more.
SecondHints(db1, d, e) == IF db1.mac[d] = None THEN Hints(e) ELSE {None}

\* Fault: the index on devices.mac is not UNIQUE.
UniqueFault(db1, late) == TRUE
\* The UNIQUE index on devices.mac.  A violation fails the whole request.
Unique(db1, late) == late # None => ByMac(db1, late) = {}

\* update_device_mac and append_discovery_event.
Logged(db1, r, d, late) ==
  [db1 EXCEPT !.mac[d] = IF late # None THEN late ELSE @,
              !.audit = @ \cup {r}]

State(db1, d) == [host |-> db1.host[d], services |-> db1.services[d]]

\* security_policy.py: the alert that the state of a device calls for.
\* Fault: only the services are compared.
PolicyFault(db1, d) ==
  IF db1.host[d] = None /\ db1.services[d] = {} THEN {}
  ELSE IF ~db1.approved[d] THEN {[type |-> "unknown", device |-> d]}
  ELSE IF db1.baseline[d] # None /\ db1.baseline[d].services # db1.services[d]
    THEN {[type |-> "mismatch", device |-> d, state |-> State(db1, d)]}
  ELSE {}
\* Fault: only a device that names a host is reported.
PolicyFault2(db1, d) ==
  IF db1.host[d] = None THEN {}
  ELSE IF ~db1.approved[d] THEN {[type |-> "unknown", device |-> d]}
  ELSE IF db1.baseline[d] # None /\ db1.baseline[d] # State(db1, d)
    THEN {[type |-> "mismatch", device |-> d, state |-> State(db1, d)]}
  ELSE {}
Policy(db1, d) ==
  IF db1.host[d] = None /\ db1.services[d] = {} THEN {}
  ELSE IF ~db1.approved[d] THEN {[type |-> "unknown", device |-> d]}
  ELSE IF db1.baseline[d] # None /\ db1.baseline[d] # State(db1, d)
    THEN {[type |-> "mismatch", device |-> d, state |-> State(db1, d)]}
  ELSE {}

\* insert_alert_if_new: INSERT OR IGNORE on the dedupe key.
Alerted(db1, d) == [db1 EXCEPT !.alerts = @ \cup Policy(db1, d)]

\* `new' is what request r makes of `old' with event e.
IngestResult(old, new, r, e) ==
  \E m \in Hints(e) : \E d \in Targets(old, r, e, m) :
    LET db1 == Observed(old, d, e, m) IN
      \E late \in SecondHints(db1, d, e) :
        /\ Unique(db1, late)
        /\ new = Alerted(Logged(db1, r, d, late), d)

--------------------------------------------------------------------------------
(* ingest.py: approve_device *)

Known(old) == {d \in Request : old.ip[d] # None}

\* set_device_approved and upsert_baseline.
ApproveResult(old, new, d) ==
  /\ d \in Known(old)
  /\ new = [old EXCEPT !.approved[d] = TRUE, !.baseline[d] = State(old, d)]

--------------------------------------------------------------------------------
Init == db = EmptyDatabase

Ingest ==
  \E r \in Request \ db.audit, e \in Event : IngestResult(db, db', r, e)

Approve == \E d \in Request : ApproveResult(db, db', d)

Next == Ingest \/ Approve

Spec == Init /\ [][Next]_db

--------------------------------------------------------------------------------
(* Properties *)

\* Every column has its type.
TypeOK == db \in Database

\* idx_devices_mac: no two devices have one MAC.
MacsUnique ==
  \A d1, d2 \in Request : db.mac[d1] # None /\ db.mac[d1] = db.mac[d2] => d1 = d2

\* api/README.md, "Security alerts": a device that is not approved and has a
\* hostname or service types has its UNKNOWN_DEVICE alert.
UnknownAlerted ==
  \A d \in Known(db) :
    ~db.approved[d] /\ (db.host[d] # None \/ db.services[d] # {})
      => [type |-> "unknown", device |-> d] \in db.alerts

\* An approved device has a baseline, and has an alert for the state it is in
\* whenever that is not the approved one: whatever order events, changes of
\* address and approvals come in, no deviation goes unreported.
MismatchAlerted ==
  \A d \in Known(db) :
    db.approved[d] =>
      /\ db.baseline[d] # None
      /\ \/ State(db, d) = db.baseline[d]
         \/ [type |-> "mismatch", device |-> d, state |-> State(db, d)] \in db.alerts

\* Two devices without a MAC never share an address: they could not be told
\* apart, and the older one would never be found again.
NoMacNoTwin ==
  \A d1, d2 \in Known(db) :
    db.mac[d1] = None /\ db.mac[d2] = None /\ db.ip[d1] = db.ip[d2] => d1 = d2

\* What the API knows only grows: no event or approval takes back a device, its
\* MAC, the fact that it has a host, a service, an approval, an alert or an
\* audit row.
KnowledgeGrows ==
  [][/\ \A d \in Known(db) :
          /\ d \in Known(db')
          /\ db.mac[d] # None => db'.mac[d] = db.mac[d]
          /\ db.host[d] # None => db'.host[d] # None
          /\ db.services[d] \subseteq db'.services[d]
          /\ db.approved[d] => db'.approved[d]
     /\ db.alerts \subseteq db'.alerts /\ db.audit \subseteq db'.audit]_db

\* api/README.md, "mDNS host preference": a record that is not an SRV record
\* "set[s] host only if mdns_host is currently empty".
HostPreference ==
  [][\A d \in Known(db) : db.host[d] # None /\ db'.host[d] # db.host[d]
       => \E r \in Request, e \in Event :
            /\ IngestResult(db, db', r, e)
            /\ \E i \in 1..Len(e.records) :
                 e.records[i].srv /\ e.records[i].host = db'.host[d]]_db

Row(d) == <<db.ip[d], db.host[d], db.seen[d], db.services[d]>>

\* api/README.md, "Device identity": the MAC is the "primary key for same
\* physical device", src_ip "not the sole primary key".  What is observed of
\* one MAC is not recorded of a device that has another.
MacDecides ==
  [][\A r \in Request, e \in Event :
       e.mac \in Mac /\ r \notin db.audit /\ IngestResult(db, db', r, e)
         => \A d \in Request : db.mac[d] \notin {None, e.mac} => Row(d)' = Row(d)]_db
================================================================================
