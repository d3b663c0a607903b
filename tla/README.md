# Verification of the LAN discovery tool

TLA+ specifications of the mDNS scanner (C++, `src/`, `include/`) and of the
Discovery API (Python, `api/`), checked with TLC and, in part, proved with TLAPS.
`PROJECT.json` lists the runs, maps every definition to the lines it models, and
lists hazards, findings and theorems.

## 1. The system

```
 network -> receiver --PacketReceiveQueue--> worker --> MdnsProbePlanner --> poller -> network
            (thread)                        (thread)                        (thread)
                                               |
                                               v  change filter, console registry
                                         HttpEventSink --queue--> poster (thread)
                                                                    |  HTTP POST
                                                                    v
                           Discovery API (thread pool) <--------> SQLite
                                                                    ^
                                              PATCH (approval) -----+
```

| component | state | operations | what is hard | what makes it correct |
|---|---|---|---|---|
| Engine (`DiscoveryEngine`) | flags `running`, `error_occurred_`, counters, three threads | `run`, the three loops | stop flag against blocking calls, a thread that cannot be created, errors in one thread | no thread outlives `run()`, errors are reported, `run()` returns, the counters add up |
| `PacketReceiveQueue` | deque, drop counter, mutex, condition variable | `push`, `wait_pop`, `notify_all` | lost wake-ups, the flag read twice | FIFO, drops only the oldest and only when full, no sleeping on a packet |
| `MdnsProbePlanner` | `pending_`, `pending_keys_`, `last_probe_` | `observe`, `drain_ready` | two redundant structures, a bound, time | keys and batches agree, the cooldown is kept, the queue drains |
| `HttpEventSink` | deque, `stop_`, poster thread | `on_event`, `poster_loop`, destructor | outages, retries, lost or late answers, shutdown | nothing is lost but to the bound and to shutdown, first arrivals in order, the destructor returns |
| Record text (`RDataFormatter`, `MdnsPacketInterpreter`) | none | `create_discovery_event`, the formatters | a second name read from inside the RDATA, which may loop or leave the packet | every record gets the text the datagram spells, and no record hides another |
| Names (`MdnsNames`, `RecordLabels`, `mdns_names.py`) | none | classification of names, service type of a name, labels, keys | dots and bars inside names, two implementations that must agree | a service type is the last three labels, keys tell records apart |
| Change filter (`DeviceStateStore`, `ChangeFilteredEventSink`) | set of seen record keys | `filter_unseen` | marks before delivery, remembers values and not which is current | every record that is new is printed and posted, once |
| Console registry (`DeviceRegistry`) | a snapshot per address | `apply`, `merge_records` | sits behind the filter, mirrors the API's merge | knows what was heard, agrees with the API |
| Discovery API | SQLite: devices, services, audit log, baselines, alerts | ingest, approve, queries | concurrent requests, partial failure, crash, identity by MAC or address | requests are serial, success is durable, every deviation has an alert |
| Decoder (`parse_qname`, `MdnsMessageDecoder`, `QueryBuilder`) | none | decode, build | pointers, bounds, narrowing | terminates, stays in the packet, reads back what was built |
| Logging, command line, socket, interface list, ARP parsing, `lan_db.py`, deployment | – | – | I/O and text | not modelled (section 8) |

## 2. Modules

| module | models | checked by |
|---|---|---|
| `DropOldest` | abstract: a bounded FIFO window over numbered items that gives up its oldest | refined by the two queues |
| `CaptureEngine` | `DiscoveryEngine::run` with four threads and `PacketReceiveQueue` | `MCCaptureEngine` |
| `CaptureEngineProofs` | theorems about `CaptureEngine` | tlapm |
| `HttpEventSink` | the sink, its poster thread and destructor, the network and the API's answers | `MCHttpEventSink` |
| `HttpEventSinkProofs` | theorems about `HttpEventSink` | tlapm |
| `ProbePlanner` | the planner between worker and poller, with discrete time | `MCProbePlanner` |
| `ProbePlannerProofs` | theorems about `ProbePlanner` | tlapm |
| `DeviceDatabase` | abstract: what one ingestion or approval does to the database | `MCDeviceDatabase` |
| `DeviceDatabaseProofs` | theorems about `DeviceDatabase` | tlapm |
| `DiscoveryApi` | overlapping requests in SQLite transactions, failures, a crash | `MCDiscoveryApi` |
| `DiscoveryApiProofs` | theorems about `DiscoveryApi`, those about `DeviceDatabase` carried over | tlapm |
| `MdnsMessageDecoder` | `decode`, `parse_qname`, `parse_questions` on one datagram, and `QueryBuilder` | `MCMdnsMessageDecoder` |
| `RecordText` | extends it: the records of a decoded response formatted one by one, with `parse_qname` entered again from inside the RDATA | `MCMdnsMessageDecoder` |
| `MdnsMessageDecoderProofs` | theorems about the offsets of `MdnsMessageDecoder`, about what it reads of any datagram and of the scanner's own queries, and about `RecordText` | tlapm |
| `MdnsNames` | operators: kinds of names, service types, keys, labels, in C++ and in Python | `MCDelivery` |
| `Delivery` | composition: filter, registry, HTTP queue (`DropOldest`) and API (`DeviceDatabase`), over restarts of the scanner | `MCDelivery` |
| `DeliveryProofs` | theorems about `Delivery`: its worker, the way of an event into the database, the order of hosts; and about the keys and names of `MdnsNames` | tlapm |
| `SharedLemmas` | lemmas several proofs cite: windows of consecutive numbers, the least element of a set of numbers, functions defined step by step | tlapm |

**CaptureEngine.** Each thread has a program counter (`main`, `receiver`,
`worker`, `poller`); one step is one critical section, one access to the atomic
`running`, or one socket call. `cv_.wait` is taken apart into the test of the
predicate (`WorkerTest`), joining the wait set (`WorkerPark`), and waking
(`Notified`, `WorkerSpurious`), because that is where `notify_all` without the
mutex matters. The mutex has no variable of its own: the worker holds it exactly
while it is "parking" or "ready". Packets are numbers in the order of their
pushes; what a packet is (undecodable, query, response) is decided when the
worker decodes it. History variables `pushed` and `carried` let the counters be
compared with what happened.

**HttpEventSink.** Events are numbers. A post may fail, succeed, succeed with its
answer lost, or be given up by the client and arrive later (`PostDelayed`,
`DelayedArrives`). `Refused` is the set of events the API answers with a 4xx.

**ProbePlanner.** `observe` holds the mutex from the first record to the last, so
`drain_ready` only interleaves between events; within one event each record and
each request is a step, because `enqueue_batch` looks at the bound per batch and
`try_enqueue` at keys and cooldown per request. `last_probe_` is kept as the time
since, capped at the cooldown. The poller sleeps `Interval` ticks.

**DeviceDatabase.** One record with a field per column that later decisions read.
The request that creates a device stands for its uuid. The loop of `merge_mdns_host`
is a recursive function over the records (`HostAfter`); `resolve_device_id`, `_attach_mac_if_needed`, the audit
row and the policy are composed in `IngestResult`. The ARP table may answer
anything, also two different things within one request. Timestamps matter only
through `last_seen_ms`, which an event may set back; `seen` of an event is the
maximum `_event_seen_ms` computes.

**DiscoveryApi.** Every request has a connection, a snapshot (`work`), and is at
one of six places. SQLite's rule for a deferred transaction in WAL mode is
external: the first SELECT fixes the snapshot; the first write needs the write
lock and a snapshot that is still the last commit, and otherwise fails at once.
`Fail` may strike at any statement, `Crash` at any time. `Serial` is
`DeviceDatabase!Spec`: the refinement mapping is the identity on `db`.

**MdnsMessageDecoder.** One behaviour decodes one datagram, chosen at the start:
real bytes with the real 12-byte header. There is one action for each way through
an iteration of `parse_qname`'s loop and one step for each field behind a name; an
exception ends in `pc = "throw"`. `high` is a history variable: how far the
datagram has been read. Values that no later decision reads (types, classes, TTL,
RDATA) stay the bytes they are. `Chain`, `Texts`, `NameEnd` and `Cyclic` are the
reference the decoder is compared with: the chain of offsets of RFC 1035 and the
text of the labels along it, as recursive functions, without the code's flags and
counters; `IsWire` says when an item is what the datagram has at its place, field by
field. `QueryBuilder` is a set of operators: it is used by
one thread within one call.

**RecordText.** Once `decode()` has returned a response, its records are formatted
in order. A formatter that needs no name is one step (`FormatPlain`); one that does
sets the variables of `parse_qname` anew (`FormatName`), and the iterations that
follow are the decoder's own actions (`NameGoesOn`), with other ways out: the end of
the name, and the exceptions, which the formatter catches (`NameCaught`). `TextSpec`
thus runs `parse_qname` from every offset at which the program runs it, and all
properties of the decoder are checked of it too. A text is the formatter's sentence
and what it fills in, bytes and not digits.

**MdnsNames.** A name is a sequence of tokens: labels, dots, bars and blanks, the
words the code searches for, and one byte JSON does not allow. That is as fine as
the code looks: it cuts at dots, compares suffixes, joins with bars, strips blanks.

**Delivery.** A response is an address and records with their texts. Hearing one is
one step, because only the worker uses filter and registry: `create_discovery_event`,
then `OnEvent`, `Output`, `Console` and `apply`, the chain of sinks `main()` builds.
The queue is the specification `DropOldest` (which `HttpEventSink` is shown to
implement), the effect of a request on the database `DeviceDatabase!IngestResult`
(which `DiscoveryApi` is shown to keep under concurrency). A request may stay
unanswered and be repeated, or arrive after later ones. `Restart` forgets all that
the scanner keeps in memory, from the filter to the queue.

## 3. Runs

| run | bounds | states | shows |
|---|---|---|---|
| `capture_engine` | queue 2, 3 packets, 2 runs | 253,622 | all properties of `CaptureEngine`; the queue overflows, and a second run meets packets of the first |
| `capture_stop` | 1 packet, 1 run | – | violation: `StopEndsWorker` |
| `http_sink` | queue 2, 4 events, 2 unanswered requests | 9,117 | all properties of `HttpEventSink`; the queue overflows while the poster holds an event |
| `http_refused` | 2 events, the first refused | – | violation: `EventsArrive` |
| `probe_planner` | queue 2, 1 batch per tick, cooldown 4, one service, one instance, events of 2 records | 173,064 | all properties of `ProbePlanner`; an event fills the queue and is refused, a key waits in a backlog |
| `probe_cooldown` | queue 3, cooldown 2, two instances | – | violation: `CooldownBetweenProbes` |
| `database` | 4 requests, 6 events, 2 addresses, 2 MACs, 2 hosts, 1 service type | 4,885 (with symmetry) | invariants of the database under any order of events and approvals; the host merge equals its closed form on all sequences of up to 3 records |
| `database_host`, `database_mac` | 3 requests | – | violations: `HostPreference`, `MacDecides` |
| `decoder` | every name of up to 4 bytes over 9 byte values; three messages of 2 or 3 items and every prefix of them; PTR and SRV records with every name of up to 3 bytes over 7 values, alone and in pairs; records of each other type, of right and wrong sizes; the PTR record of a test of the repository; 6 queries of up to 2 questions, one with empty labels | 106,382 | all properties of `MdnsMessageDecoder` and `RecordText`; pointers chain, loop (also through labels), point outside, into RDATA and between two records |
| `api` | 3 requests, 2 events, 1 crash | 132,841 | serial, durable, all-or-nothing, answered |
| `delivery` | queue 1, 3 responses out of 9, 1 unanswered request, 1 restart | 172,097 | all properties of `Delivery`; the reference for `service_type_from_name` on all names of up to 7 tokens |

Why the bounds are enough: a queue of two has an oldest that is not the newest,
and overflows with one more item; a third packet or request is the one that
interferes with two others; a second run sees what the first left. Requests are
symmetric in `database` (invariants and an action property only). Four bytes hold
two labels, a label and a pointer, or two pointers, and so every pair of steps of a
name; the bounds checks are decided by the last two bytes. Three responses are a
value, the one that replaces it and the one that brings it back; with a queue of one
the second event already overtakes the first. Every exception a property of
`Delivery` makes (a bar in a name, a name under both suffixes, blanks, the meta service
after a blank, a text that is not JSON, a change back, an event given up) happens in the
run by itself: without it, TLC finds the property violated.

Deadlock is checked in `capture_engine` (an idle engine may be started in vain,
which is a step), `probe_planner` and `database` (a device can always be approved
again); `http_sink`, `api`, `decoder` and `delivery` stop when the sink is destroyed,
the requests are used up, the records have their texts, or the last response has been
delivered.

## 4. Fairness

* `CaptureEngine`: weak fairness of each thread; for the receiver only of the
  loop test, the timeout of `recvfrom` (`SO_RCVTIMEO`, one second) and the push.
  Nobody has to start or stop the engine, no datagram and no error has to come,
  and no wake-up is spurious on purpose.
* `HttpEventSink`: weak fairness of both threads (every request ends by the
  client's timeout). Strong fairness of `PostAccepted` is an assumption about the
  API: an event posted again and again is answered some time. `EventsArrive`
  needs it, `DestructorReturns` does not.
* `ProbePlanner`: weak fairness of worker, sending and time; strong fairness of
  `Drain`, which needs a mutex the worker releases after every event.
* `MdnsMessageDecoder`, `RecordText`: weak fairness of the next step: decoding and
  formatting are plain calls without a lock or a wait.
* `Delivery`: weak fairness of `Take` and of `PostAnswered`: the poster runs, and the
  API answers an event it can read when it is posted again and again (the bound on
  unanswered requests stands for the strong fairness of `HttpEventSink`). None for
  `Hear`, `DelayedArrives` or `Restart`.
* `DiscoveryApi`: weak fairness of each handler. None for `Receive`, `Crash`,
  `Restart` or `Fail`.

## 5. Findings

1. **A stopped engine may not stop** (`capture_stop`). `running = false` and
   `notify_all` come without the queue's mutex and may fall between the worker's
   predicate and its wait. Only another packet, or a spurious wake-up, would free
   it, and the receiver has ended. Setting the flag under the mutex would do.
2. **One refused event blocks the sink** (`http_refused`). Every non-2xx status is
   retried for ever, also the ones that will never change.
3. **The cooldown is not the time between probes** (`probe_cooldown`). It starts
   when a probe is queued. `SpacingUpToBacklog` states what does hold: the
   cooldown less the time a full queue takes to drain.
4. **An A record may overwrite an SRV host** (`database_host`) of a device found
   by its MAC, against the preference the API's README states.
5. **The address wins over an unknown MAC** (`database_mac`): the new device's
   services are added to the old one, which, if approved, is reported as
   deviating, while the new device is never registered.
6. **A test of the PTR formatter asserts what the code does not do** (`decoder`,
   `TextsAreWire`). `tests/test_parser.cpp:221-230` gives the formatter the RDATA
   `04 _itunes_ 04 _tcp 00` and asserts that the text contains `itunes`. The length says
   that the label is `_itu`; the `n` behind it is no length and no pointer, `parse_qname`
   throws (`MDNSDefinitions.hpp:110`), and the text is `(malformed PTR record)`. The code
   is right and the bytes of the test are wrong (the length should be 8). The assertion
   goes unnoticed because the default build type is Release (`CMakeLists.txt:7`), which
   defines `NDEBUG`. The record is among the datagrams of the run: the property says of
   it what the code does, and so passes where the test, built for debugging, fails.

Observed, but not a run: the README of the API lists the mDNS hostname as the
second step of identification; the code has no such step. The dedupe key of a
mismatch outlives a re-approval, so a device that deviates to a state it was
alerted for earlier has its (old) alert and gets no new one: `MismatchAlerted`
says exactly that an alert exists.

Observed in `Delivery`, `MdnsNames` and `RecordText`, each as an exception a property
has to make:

* The change filter remembers values, not which is current. A host that changes and
  changes back is neither printed nor posted the second time, although "only new or
  changed records are POSTed" (`README.md:54`); console and API keep the host in
  between (`StaleOnlyAfterReturn`, which makes an exception only where a device sends a
  record again after it has named another host; announcing several services of one host
  any number of times is no exception). For the same reason a record announced again
  never advances `last_seen`, here or in the API.
* A text with a control character, which any device may announce, makes a body that
  is not JSON (`json_escape` knows five characters). The API refuses it, and finding 2
  follows: it blocks the queue (`Blocked` in `ServicesArrive`).
* `service_type_from_name` looks for `._tcp.local` anywhere in a name first. For a
  name under `._udp.local` that has it inside it returns something that is no service
  type, in C++ and in Python alike (`Nested` in `RegistryKnowsHeard`).
* The API strips blanks around a service type and the console does not (`Stripped` in
  `ApiMirrorsRegistry`). It strips the blanks of a PTR's RDATA before it looks at it
  (`mdns_names.py:49`): where that leaves `_services._dns-sd._udp.local`, the console has
  a service type and the API has none (`HidesMeta`), although the module "mirrors C++
  MdnsNames / DeviceRegistry". What such a record tells never reaches the API's database,
  with nothing lost or blocked: `ServicesArrive` makes the same exception. After a late
  or repeated request the API may have an older host than the console.
* Keys are joined with bars that names may contain: two records can have one key, and
  the second is taken for a repetition (`Collide`).
* A name in RDATA may run on behind the RDATA, into the next record; the formatter
  accepts what it finds there (`TextsAreWire` says the text is that of the datagram,
  not that of the RDATA).
* A label with a dot in it is asked for as two labels when the name is probed
  (`RoundTrip`): the device will not answer to that name. Empty labels are dropped:
  `.a..b` is asked for as `a.b`. Nothing else a name has is lost on the way.

## 6. Proofs

For each of the eight modules below, one theorem (`Invariance`, in `DiscoveryApiProofs`
`TransactionsSound` and `AnswersStayTrue`, in the decoder's `Inductive` and
`WireInvariance`) says that an inductive invariant holds throughout; its proof has one
lemma or step for each action. The properties the runs check follow from it. Every
conjunct was first checked by TLC on the instance of the run. The theorems hold for
every value of the constants that satisfies the named assumptions of the modules:
capacities are positive, bounds are natural numbers, `None` is no value it stands in
for, events, datagrams and responses have their types.

**CaptureEngine** (every capacity >= 1, any number of packets and runs): type
correctness, `PacketsAccountedFor`, `BlockedOnlyWhenEmpty`, `NeverPopsEmpty`,
`NoThreadOutlivesRun`, `ErrorsStick`, and that the queue implements `DropOldest`. The
invariant adds

* `Phases`: which threads can exist at which point of `run()`, and that `running`
  is true exactly between the start and the stop;
* `QueueIsWindow`: the queue holds the numbers `pushed - Len(queue) + 1 .. pushed`
  in order, which is what the refinement needs and `TypeOK` does not give;
* the worker's view of the queue while it holds the mutex: `BlockedOnlyWhenEmpty`
  and `NeverPopsEmpty` need each other's program counters and the fact, built into
  `Push`, that a push waits for the mutex;
* `carried <= pushed`, for `PacketsAccountedFor`.

**HttpEventSink** (every capacity, any refused events): `NothingLost`,
`FirstsInOrder`, `DrainedAtExit`, and the refinement of `DropOldest`. The properties
talk about what the API has; the invariant has to follow an event on its way there:
the queue is a window of the events offered, all younger than the one the poster
holds (`QueueIsWindow`); the API has, or may still get, only what the poster has held,
and never what was given up (`PostedOnlyTaken`); the poster lets go of an event only
when the API has it, and everything not waiting any more was delivered, given up, or
is in its hands (`HandedOver`); nothing is queued behind a poster that has left
(`DrainedIsFinal`). A repeated or late request can then only bring what is in the log
already, or the current event, which is why first arrivals stay in order.

**ProbePlanner** (any names, bounds, cooldown, interval): `PendingKeysExact`,
`RefusedNotRemembered`, `SpacingUpToBacklog`. The last one is about time. The
invariant bounds how long a key can wait by its place in the queue (`WaitIsBounded`:
age, time to the next drain, and a whole interval for every `MaxProbesPerTick` batches
before it stay within `MaxWait`), and relates what was sent last to what was accepted
last (`SentIsSpaced`), which needs that a key is under way once (`Distinct`,
`BatchIsFresh`) and that the poller sleeps only when it has sent all (`PollerIsAwake`).

**DeviceDatabase** (any requests, addresses, MACs, events): `MacsUnique`,
`UnknownAlerted`, `MismatchAlerted`, `NoMacNoTwin`, `KnowledgeGrows`, and `HostIsMerged`:
the loop over any number of records leaves the host of the last SRV record, or the host
there was, or that of the first record. The invariant adds that the times
of the devices have a maximum (`SeenBounded`, so that the device seen last exists),
that only known devices are approved
(`ApprovedKnown`), and that the audit log has the request that made a device
(`DevicesAudited`). `IsObserved` and `IsRecorded` say once what an observation and a
log entry do to each column; the invariants are proved of those.

**DiscoveryApi** (any requests, failures and crashes): that overlapping requests
implement `DeviceDatabase` (`Serial`), `SuccessIsDurable`, `RefusalLeavesNothing`. The
invariant about transactions (`TransactionOK`) says for each place a handler can be at
what its snapshot is: a step of `DeviceDatabase` away from the database it was taken
from, which is still the last commit when the write lock is held. A commit is then one
step of `DeviceDatabase` and everything else a stutter. By the refinement the
invariants of `DeviceDatabase` hold of the shared database (`DatabaseStaysSound`), and
with them every answer stays true (`AnswersStayTrue`), also across crashes.

**MdnsMessageDecoder** (datagrams of any length and contents). `Inductive`: every
offset stays inside, a name takes at most as many iterations as the datagram has
bytes, and no byte outside is read. The invariant adds `Busy` (an item being parsed is
one the header announced) and `Shape` (the fields read so far have the widths they are
read with), because RDLENGTH is taken from the fourth field. `WireInvariance`: what is
read is what the datagram says. `WalksFrom` follows `parse_qname` along the reference
chain: `npos` is the next offset, `name` the text of the labels behind, `consumed` the
place behind the first pointer. `LoopVerdict` is the pigeonhole principle: a reader
that has moved through as many offsets as there are bytes and moves on is somewhere
for the second time, so its name never ends; and an offset at which a name ends is
left by nobody, so a name that ends is never refused as a loop. `MessageIsWire` adds
that the items are complete, side by side and counted (`ItemsAreWire`, `Progress`).

**RecordText** (the same datagrams). `TextInvariance` covers the whole of `TextSpec`, the
decoder and the formatters behind it. While a formatter waits, `pc` is that of the
decoder's loop but nothing of the decoder's item is there, so that `IInv` does not hold;
what does is its part about the loop alone (`Bounded`), `WalksFrom` the offset the name
in the RDATA starts at, and that the message is complete (`Decoded`). That offset is
inside because a record ends inside and its RDATA lies at its end (`RdataIs`). A name is
refused exactly when the reference does not end (`RefusedIsEndless`, one case for each
exception, and the pigeonhole again for the loop). `TextsAreWire` follows, and that
bounds, message and verdicts of the decoder hold under `TextSpec`, the specification the
run checks.

`QueriesReadBack`: `RoundTrip` for any number of questions with any names. Half of it is
about the operators of `QueryBuilder`. The loop of `add_question` finds labels that are
not empty and have no dot (`LabelsAreLabels`), and finds them again in the text that
joins them (`LabelsOfJoined`). `Build` only ever appends, so what an iteration has
written stays where it is; the last datagram is spelled out from that, question by
question and label by label (`LabelsLie`, `QuestionsLie`). The other half follows
`decode()` through that datagram. `QuestionsSoFar` is the invariant: the questions read
are those asked, nothing has been thrown, and `parse_qname` stands before label `j + 1`
of the next question in iteration `j`, with the first `j` labels joined. Each step goes
on by one label or field, and every branch that throws is ruled out by what lies at the
next byte (`NothingThrown`); a pointer never lies there because a label has at most 63
bytes. That names read from any datagram are asked for as they were read, unless a label
has a dot, is `AskedAsRead`, along the same chain of offsets as `TextAt`. A query has no
records, so the formatters do not change it (`FormattersKeepQueries`).

Assumptions of both: datagrams are sequences of bytes (`DatagramsAssumption`). Names asked
for are too, with labels of at most 63 bytes, and types, classes and the number of
questions have 16 bits (`QueriesAssumption`). The code has `uint16_t` for them, and a query
in which the count wraps is longer than any UDP datagram, whatever is configured for
`max_probes_per_tick`. Names are service types or were read by `parse_qname`, which takes
no longer label.

**Delivery** (any responses, with any texts, in any order; any queue, API and number of
restarts): `SentOnce`, `RegistryKnowsHeard`, `ApiMirrorsRegistry` and
`StaleOnlyAfterReturn`, by three invariants.

`Invariance` follows a record on its way through the worker: the filter has seen the
keys of all that was heard since the start (`HeardIsSeen`), and exactly the keys of what
it let through (`SeenIsSent`), each in one event and once (`NeverTwice`); nothing was let
through that was not heard (`SentWasHeard`); and the registry is what the events since
the start tell (`RegistryIsTold`). `RegistryKnowsHeard` speaks of all that was heard, and
the registry gets only what passes the filter: that this is the same needs that two
records of one key are one record, or joined by a bar (`KeysTellApart`), and, for the
reference, that `service_type_from_name` finds the last three labels of every name, of
any length and with any dots, that is not under both suffixes (`InstanceNames`,
`ServiceNames`).

`DeliveryInvariance` follows an event from the queue to the database. Every event is
waiting, in the poster's hands, given up, or stored (`NothingMissed`), and every service
type of an address is one of an event with that address (`NothingInvented`), which needs
that an address has one row (`Rows`). For hosts the order matters: while nothing was lost
and nothing comes twice, there is one sequence of hosts, one after each event
(`HostsFollow`); the console is at its end and the database as far behind as the poster.
`RequestsLeft` says that the bound on requests is never what stops one. Underneath are
lemmas that the two implementations agree: `merge_records` and `merge_mdns_host` on
hosts (`MergeIs`, `ApiHostAfter`), `MdnsNames.cpp` and `mdns_names.py` on service types,
up to blanks and except for `HidesMeta` (`ApiReadsSame`). `IngestIs` says what
`IngestResult` of `DeviceDatabase` comes to when no MAC is known.

`InductiveLast` is about the order of the records in the responses: unless a device sent
a record again after it had named another host, the console shows the one it named last
(`LastShows`). The filter keeps the order of what it lets through (`FilterInOrder`); if
the record is new it is let through and none behind it names another host
(`NamedFirst`), and if it is not, whatever is let through names the host already shown
(`NamedAgain`).

The assumptions are that responses have records whose texts are sequences of tokens
(`PacketsAssumption`), that `None` is no address and no host (`NullAssumption`), and that
the bounds are natural numbers (`BoundsAssumption`).

Induction over data is by the least counterexample (`LeastNatural` in `SharedLemmas`),
and only over recursive functions written in the modules themselves: the induction
theorems of the library and the folds of the community modules take operators as
parameters, which the provers cannot instantiate. That is why `HostAfter`, `Chain`,
`Texts`, `Scan`, `Built`, `FirstOfKey` and `JoinKey` are recursive functions, and what they compute rests
on a lemma that the definition has a solution (`Recursion` in `SharedLemmas`).

Only model-checked are the liveness properties: `PacketsServed`, `HelpersStop`,
`DestructorReturns`, `EventsArrive`, `ProbesLeaveTheQueue`, `Answered`,
`EveryRecordGetsText` and `ServicesArrive`. Under fairness they are out of the prover's
reach. Every invariant and action property the runs check, and every refinement, is
a theorem.

## 7. Plan

Done: the modules of section 2, their runs, and the proofs of section 6. What is left is
liveness, for a prover that has it.

## 8. Not modelled

* Text nothing depends on: log lines, hex dumps, the wording of summaries, digits.
* Times: TTLs, timestamps on the console and in the registry. The API's `last_seen_ms`
  is in `DeviceDatabase`, because it decides who is found.
* System calls: socket options, addresses and descriptors, the interface list, the two
  HTTP backends. They succeed or fail, which `CaptureEngine` and `HttpEventSink` have.
* The parsing of `/proc/net/arp` and of `ip neigh`: what a lookup may answer is in
  `DeviceDatabase`; no MAC is known in `Delivery`.
* The command line: its values are constants, and the hazards name those it does not
  check.
* `lan_db.py` and the containers, which are used while the API is stopped; the GET
  handlers, which change nothing; the creation of the schema by two processes at once.
* The vendored HTTP client.
