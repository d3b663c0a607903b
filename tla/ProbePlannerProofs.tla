--------------------------- MODULE ProbePlannerProofs ---------------------------
(***************************************************************************)
(* Theorems about ProbePlanner, for any names, bounds, cooldown and poll   *)
(* interval.                                                               *)
(***************************************************************************)
EXTENDS ProbePlanner, SharedLemmas

USE ConfigAssumption, IntervalAssumption

--------------------------------------------------------------------------------
(* The inductive invariant *)

\* No key is in s, a queue of batches, twice.
Distinct(s) ==
  \A i, j \in 1..Len(s) : \A m \in 1..Len(s[i]), n \in 1..Len(s[j]) :
    s[i][m] = s[j][n] => i = j /\ m = n

\* The batch under construction: there is room for it, and its keys are fresh.
BatchIsFresh ==
  /\ worker # "request" => accepted = <<>> /\ asked = <<>>
  /\ worker = "request" => Len(pending) < MaxPending
  /\ \A m, n \in 1..Len(accepted) : accepted[m] = accepted[n] => m = n
  /\ Requests(accepted) \cap KeysOf(pending) = {}

\* The poller sleeps only when it has sent what it drained.
PollerIsAwake ==
  /\ sleep > 0 => sending = <<>>
  /\ MaxProbesPerTick = 0 => sending = <<>>

\* The time until the next drain, unless the worker is at it.
UntilDrain == IF sending # <<>> THEN Interval ELSE sleep

\* A key is drained before MaxWait has passed since it was accepted: what is
\* before it in the queue keeps it waiting for whole intervals.
WaitIsBounded ==
  MaxProbesPerTick # 0 =>
    /\ \A i \in 1..Len(pending) : \A k \in Requests(pending[i]) :
         age[k] + UntilDrain + Interval * ((i - 1) \div MaxProbesPerTick) <= MaxWait
    /\ \A k \in Requests(accepted) : age[k] + UntilDrain <= Interval
    /\ \A k \in KeysOf(sending) : age[k] <= MaxWait

\* A key under way was accepted when the cooldown had passed since it was
\* accepted last, and it was sent within MaxWait of that.
SentIsSpaced ==
  MaxProbesPerTick # 0 /\ MaxWait < Cooldown =>
    /\ Distinct(sending) /\ KeysOf(sending) \cap pendingKeys = {}
    /\ \A k \in pendingKeys \cup KeysOf(sending) : sinceSent[k] + MaxWait >= Cooldown
    /\ \A k \in Key \ (pendingKeys \cup KeysOf(sending)) : sinceSent[k] + MaxWait >= age[k]

IInv ==
  /\ TypeOK /\ PendingKeysExact
  /\ BatchIsFresh /\ PollerIsAwake /\ WaitIsBounded /\ SentIsSpaced

--------------------------------------------------------------------------------
(* Queues of batches *)

LEMMA RequestsType ==
  ASSUME NEW b \in Seq(Key)
  PROVE  Requests(b) \subseteq Key
BY ElementOfSeq DEF Requests

\* A key is pending when a request of a batch is for it.
LEMMA InKeysOf ==
  ASSUME NEW s, NEW k
  PROVE  k \in KeysOf(s) <=> \E i \in 1..Len(s) : \E m \in 1..Len(s[i]) : s[i][m] = k
BY DEF KeysOf, Requests

\* The keys of a queue of batches are keys.
LEMMA KeysOfType ==
  ASSUME NEW s \in Seq(Seq(Key))
  PROVE  KeysOf(s) \subseteq Key
<1>1. \A i \in 1..Len(s) : s[i] \in Seq(Key)
  BY ElementOfSeq
<1>. QED BY <1>1, RequestsType DEF KeysOf

\* The requests of a batch and of one more.
LEMMA RequestsAppend ==
  ASSUME NEW b \in Seq(Key), NEW k \in Key
  PROVE  Requests(Append(b, k)) = Requests(b) \cup {k}
<1> DEFINE c == Append(b, k)
<1>1. /\ Len(b) \in Nat /\ Len(c) = Len(b) + 1
      /\ \A i \in 1..Len(b) : c[i] = b[i]
      /\ c[Len(b) + 1] = k
  BY AppendProperties, LenProperties
<1> HIDE DEF c
<1>2. 1..Len(c) = 1..Len(b) \cup {Len(b) + 1}
  BY <1>1
<1>3. {c[i] : i \in 1..Len(c)} = {b[i] : i \in 1..Len(b)} \cup {k}
  BY <1>1, <1>2
<1>. QED BY <1>3 DEF Requests, c

\* A queue s that is the batches of t followed by those of u.
Split(s, t, u) ==
  /\ Len(t) \in Nat /\ Len(u) \in Nat /\ Len(s) = Len(t) + Len(u)
  /\ \A i \in 1..Len(t) : s[i] = t[i]
  /\ \A i \in 1..Len(u) : s[Len(t) + i] = u[i]

\* A key found twice is found at one place.
LEMMA OnePlace ==
  ASSUME NEW s, Distinct(s), NEW i \in 1..Len(s), NEW j \in 1..Len(s),
         NEW m \in 1..Len(s[i]), NEW n \in 1..Len(s[j]), s[i][m] = s[j][n]
  PROVE  i = j /\ m = n
BY DEF Distinct

\* A queue cut in two has the keys of its parts.
LEMMA SplitKeys ==
  ASSUME NEW s, NEW t, NEW u, Split(s, t, u)
  PROVE  /\ KeysOf(s) = KeysOf(t) \cup KeysOf(u)
         /\ Distinct(s) => /\ Distinct(t) /\ Distinct(u)
                           /\ KeysOf(t) \cap KeysOf(u) = {}
<1>1. \A i \in 1..Len(t) : i \in 1..Len(s) /\ s[i] = t[i]
  BY DEF Split
<1>2. \A i \in 1..Len(u) : Len(t) + i \in 1..Len(s) /\ s[Len(t) + i] = u[i]
  BY DEF Split
<1>3. \A i \in 1..Len(s) : i \in 1..Len(t) \/ \E j \in 1..Len(u) : i = Len(t) + j
  <2>. SUFFICES ASSUME NEW i \in 1..Len(s), i \notin 1..Len(t)
                PROVE  \E j \in 1..Len(u) : i = Len(t) + j
    OBVIOUS
  <2>1. i - Len(t) \in 1..Len(u) /\ i = Len(t) + (i - Len(t))
    BY DEF Split
  <2>. QED BY <2>1
<1>4. KeysOf(s) = KeysOf(t) \cup KeysOf(u)
  <2>1. ASSUME NEW k \in KeysOf(s) PROVE k \in KeysOf(t) \/ k \in KeysOf(u)
    <3>1. PICK i \in 1..Len(s) : \E m \in 1..Len(s[i]) : s[i][m] = k
      BY <2>1, InKeysOf
    <3>2. CASE i \in 1..Len(t)
      BY <1>1, <3>1, <3>2, InKeysOf
    <3>3. ASSUME NEW j \in 1..Len(u), i = Len(t) + j PROVE k \in KeysOf(u)
      BY <1>2, <3>1, <3>3, InKeysOf
    <3>. QED BY <1>3, <3>2, <3>3
  <2>2. ASSUME NEW k \in KeysOf(t) PROVE k \in KeysOf(s)
    BY <1>1, <2>2, InKeysOf
  <2>3. ASSUME NEW k \in KeysOf(u) PROVE k \in KeysOf(s)
    <3>1. PICK i \in 1..Len(u) : \E m \in 1..Len(u[i]) : u[i][m] = k
      BY <2>3, InKeysOf
    <3>2. Len(t) + i \in 1..Len(s) /\ s[Len(t) + i] = u[i]
      BY <1>2
    <3>. QED BY <3>1, <3>2, InKeysOf
  <2>. QED BY <2>1, <2>2, <2>3
<1>5. Distinct(s) => Distinct(t)
  BY <1>1 DEF Distinct
<1>6. Distinct(s) => Distinct(u)
  <2>. SUFFICES ASSUME Distinct(s), NEW i \in 1..Len(u), NEW j \in 1..Len(u),
                       NEW m \in 1..Len(u[i]), NEW n \in 1..Len(u[j]),
                       u[i][m] = u[j][n]
                PROVE  i = j /\ m = n
    BY DEF Distinct
  <2>1. /\ Len(t) + i \in 1..Len(s) /\ s[Len(t) + i] = u[i]
        /\ Len(t) + j \in 1..Len(s) /\ s[Len(t) + j] = u[j]
    BY <1>2
  <2>2. /\ m \in 1..Len(s[Len(t) + i]) /\ n \in 1..Len(s[Len(t) + j])
        /\ s[Len(t) + i][m] = s[Len(t) + j][n]
    BY <2>1
  <2>3. Len(t) + i = Len(t) + j /\ m = n
    BY <2>1, <2>2, OnePlace
  <2>. QED BY <2>3 DEF Split
<1>7. Distinct(s) => KeysOf(t) \cap KeysOf(u) = {}
  <2>. SUFFICES ASSUME Distinct(s), NEW k \in KeysOf(t), k \in KeysOf(u) PROVE FALSE
    OBVIOUS
  <2>1. PICK i \in 1..Len(t) : \E m \in 1..Len(t[i]) : t[i][m] = k
    BY InKeysOf
  <2>2. PICK j \in 1..Len(u) : \E m \in 1..Len(u[j]) : u[j][m] = k
    BY InKeysOf
  <2>3. /\ i \in 1..Len(s) /\ s[i] = t[i]
        /\ Len(t) + j \in 1..Len(s) /\ s[Len(t) + j] = u[j]
    BY <1>1, <1>2
  <2>4. i = Len(t) + j
    BY <2>1, <2>2, <2>3 DEF Distinct
  <2>. QED BY <2>4 DEF Split
<1>. QED BY <1>4, <1>5, <1>6, <1>7

\* A batch more at the end of the queue.
LEMMA AppendBatch ==
  ASSUME NEW s \in Seq(Seq(Key)), NEW b \in Seq(Key)
  PROVE  LET t == Append(s, b) IN
           /\ t \in Seq(Seq(Key)) /\ Len(t) = Len(s) + 1 /\ t[Len(s) + 1] = b
           /\ \A i \in 1..Len(s) : t[i] = s[i]
           /\ KeysOf(t) = KeysOf(s) \cup Requests(b)
           /\ (/\ Distinct(s) /\ KeysOf(s) \cap Requests(b) = {}
               /\ \A m, n \in 1..Len(b) : b[m] = b[n] => m = n)
              => Distinct(t)
<1> DEFINE t == Append(s, b)
<1>1. /\ t \in Seq(Seq(Key)) /\ Len(t) = Len(s) + 1 /\ t[Len(s) + 1] = b
      /\ \A i \in 1..Len(s) : t[i] = s[i]
      /\ Len(s) \in Nat
  BY AppendProperties, LenProperties
<1> HIDE DEF t
<1>2. 1..Len(t) = 1..Len(s) \cup {Len(s) + 1}
  BY <1>1
<1>3. \A k : k \in Requests(b) <=> \E m \in 1..Len(b) : b[m] = k
  BY DEF Requests
<1>4. KeysOf(t) = KeysOf(s) \cup Requests(b)
  <2>1. ASSUME NEW k \in KeysOf(t) PROVE k \in KeysOf(s) \/ k \in Requests(b)
    <3>1. PICK i \in 1..Len(t) : \E m \in 1..Len(t[i]) : t[i][m] = k
      BY <2>1, InKeysOf
    <3>2. CASE i \in 1..Len(s)
      BY <1>1, <3>1, <3>2, InKeysOf
    <3>3. CASE i = Len(s) + 1
      BY <1>1, <1>3, <3>1, <3>3
    <3>. QED BY <1>2, <3>2, <3>3
  <2>2. ASSUME NEW k \in KeysOf(s) PROVE k \in KeysOf(t)
    <3>1. PICK i \in 1..Len(s) : \E m \in 1..Len(s[i]) : s[i][m] = k
      BY <2>2, InKeysOf
    <3>2. i \in 1..Len(t) /\ t[i] = s[i]
      BY <1>1, <1>2
    <3>. QED BY <3>1, <3>2, InKeysOf
  <2>3. ASSUME NEW k \in Requests(b) PROVE k \in KeysOf(t)
    BY <1>1, <1>2, <1>3, <2>3, InKeysOf
  <2>. QED BY <2>1, <2>2, <2>3
<1>5. ASSUME Distinct(s), KeysOf(s) \cap Requests(b) = {},
             \A m, n \in 1..Len(b) : b[m] = b[n] => m = n
      PROVE  Distinct(t)
  <2>1. \A i \in 1..Len(s) : \A m \in 1..Len(s[i]), n \in 1..Len(b) : s[i][m] # b[n]
    BY <1>3, <1>5, InKeysOf
  <2>. SUFFICES ASSUME NEW i \in 1..Len(t), NEW j \in 1..Len(t),
                       NEW m \in 1..Len(t[i]), NEW n \in 1..Len(t[j]),
                       t[i][m] = t[j][n]
                PROVE  i = j /\ m = n
    BY DEF Distinct
  <2>2. CASE i \in 1..Len(s) /\ j \in 1..Len(s)
    <3>1. t[i] = s[i] /\ t[j] = s[j]
      BY <1>1, <2>2
    <3>2. m \in 1..Len(s[i]) /\ n \in 1..Len(s[j]) /\ s[i][m] = s[j][n]
      BY <3>1
    <3>. QED BY <1>5, <2>2, <3>2, OnePlace
  <2>3. CASE i \in 1..Len(s) /\ j = Len(s) + 1
    <3>1. m \in 1..Len(s[i]) /\ n \in 1..Len(b) /\ s[i][m] = b[n]
      BY <1>1, <2>3, Zenon
    <3>. QED BY <2>1, <2>3, <3>1, Zenon
  <2>4. CASE i = Len(s) + 1 /\ j \in 1..Len(s)
    <3>1. n \in 1..Len(s[j]) /\ m \in 1..Len(b) /\ s[j][n] = b[m]
      BY <1>1, <2>4, Zenon
    <3>. QED BY <2>1, <2>4, <3>1, Zenon
  <2>5. CASE i = Len(s) + 1 /\ j = Len(s) + 1
    BY <1>1, <1>5, <2>5
  <2>. QED BY <1>2, <2>2, <2>3, <2>4, <2>5
<1>. QED BY <1>1, <1>4, <1>5 DEF t

\* The first batch and the others.
LEMMA FirstBatch ==
  ASSUME NEW s \in Seq(Seq(Key)), s # <<>>
  PROVE  /\ Head(s) \in Seq(Key) /\ Tail(s) \in Seq(Seq(Key))
         /\ Len(Tail(s)) = Len(s) - 1 /\ Len(s) \in Nat \ {0}
         /\ KeysOf(s) = Requests(Head(s)) \cup KeysOf(Tail(s))
         /\ Distinct(s) => /\ Distinct(Tail(s))
                           /\ Requests(Head(s)) \cap KeysOf(Tail(s)) = {}
<1>1. /\ Head(s) \in Seq(Key) /\ Tail(s) \in Seq(Seq(Key))
      /\ Len(Tail(s)) = Len(s) - 1 /\ Len(s) \in Nat \ {0}
      /\ \A i \in 1..Len(Tail(s)) : Tail(s)[i] = s[i + 1]
  BY HeadTailProperties, EmptySeq
<1>2. Head(s) = s[1]
  BY <1>1
<1> DEFINE t == <<Head(s)>>
           u == Tail(s)
<1>3. Len(t) = 1 /\ t[1] = Head(s)
  OBVIOUS
<1> HIDE DEF t, u
<1>4. Split(s, t, u)
  BY <1>1, <1>2, <1>3 DEF Split, u
<1>5. KeysOf(t) = Requests(Head(s))
  BY <1>3 DEF KeysOf
<1>. QED BY <1>1, <1>4, <1>5, SplitKeys DEF u

\* The first n batches and the others.
LEMMA FirstBatches ==
  ASSUME NEW s \in Seq(Seq(Key)), NEW n \in 0..Len(s)
  PROVE  LET t == SubSeq(s, 1, n)
             u == SubSeq(s, n + 1, Len(s)) IN
           /\ t \in Seq(Seq(Key)) /\ u \in Seq(Seq(Key)) /\ Split(s, t, u)
           /\ Len(t) = n /\ Len(u) = Len(s) - n
<1> DEFINE t == SubSeq(s, 1, n)
           u == SubSeq(s, n + 1, Len(s))
<1>1. Len(s) \in Nat /\ n \in Nat /\ n <= Len(s)
  BY LenProperties
<1>2. \A i \in 1..Len(s) : s[i] \in Seq(Key)
  BY ElementOfSeq
<1>3. \A i \in 1..n : s[i] \in Seq(Key)
  BY <1>1, <1>2
<1>4. \A i \in (n + 1)..Len(s) : s[i] \in Seq(Key)
  BY <1>1, <1>2
<1>5. /\ t \in Seq(Seq(Key)) /\ Len(t) = (IF 1 <= n THEN n - 1 + 1 ELSE 0)
      /\ \A i \in 1..(n - 1 + 1) : t[i] = s[1 + i - 1]
  BY <1>1, <1>3, SubSeqProperties
<1>6. /\ u \in Seq(Seq(Key))
      /\ Len(u) = (IF n + 1 <= Len(s) THEN Len(s) - (n + 1) + 1 ELSE 0)
      /\ \A i \in 1..(Len(s) - (n + 1) + 1) : u[i] = s[n + 1 + i - 1]
  BY <1>1, <1>4, SubSeqProperties
<1> HIDE DEF t, u
<1>7. Len(t) = n /\ \A i \in 1..n : t[i] = s[i]
  BY <1>1, <1>5
<1>8. Len(u) = Len(s) - n /\ \A i \in 1..(Len(s) - n) : u[i] = s[n + i]
  BY <1>1, <1>6
<1>9. Split(s, t, u)
  BY <1>1, <1>7, <1>8 DEF Split
<1>. QED BY <1>5, <1>6, <1>7, <1>8, <1>9 DEF t, u

--------------------------------------------------------------------------------
(* How long the place in the queue keeps a batch waiting *)

LEMMA MaxWaitType == MaxProbesPerTick # 0 => MaxWait \in Nat
<1>. SUFFICES ASSUME MaxProbesPerTick # 0 PROVE MaxWait \in Nat
  OBVIOUS
<1>1. (MaxPending + MaxProbesPerTick - 1) \div MaxProbesPerTick \in Nat
  OBVIOUS
<1>2. \A q \in Nat : Interval * q \in Nat
  OBVIOUS
<1>. QED BY <1>1, <1>2 DEF MaxWait

\* The place of a batch in the queue is a number of ticks.
LEMMA PlaceType ==
  ASSUME MaxProbesPerTick # 0, NEW i \in Nat \ {0}
  PROVE  Interval * ((i - 1) \div MaxProbesPerTick) \in Nat
<1>1. i - 1 \in Nat /\ MaxProbesPerTick \in Nat \ {0}
  OBVIOUS
<1>2. (i - 1) \div MaxProbesPerTick \in Nat
  BY <1>1
<1>. QED BY <1>2

\* The last place in the queue is drained within MaxWait.
LEMMA WaitOfPlace ==
  ASSUME MaxProbesPerTick # 0, NEW i \in 1..MaxPending
  PROVE  /\ (i - 1) \div MaxProbesPerTick \in Nat
         /\ Interval + Interval * ((i - 1) \div MaxProbesPerTick) <= MaxWait
         /\ MaxWait \in Nat
<1> DEFINE b == MaxProbesPerTick
           q == (i - 1) \div b
           p == (MaxPending + b - 1) \div b
<1>1. /\ b \in Nat \ {0} /\ i \in Nat /\ i <= MaxPending /\ i - 1 \in Nat
      /\ MaxPending + b - 1 \in Nat
  OBVIOUS
<1>2. q \in Nat /\ b * q <= i - 1
  BY <1>1
<1>3. p \in Nat /\ MaxPending + b - 1 < b * p + b
  BY <1>1
<1> HIDE DEF b, q, p
<1>4. q + 1 <= p
  <2>. SUFFICES ASSUME p <= q PROVE FALSE
    BY <1>2, <1>3
  <2>1. b * p <= b * q
    BY <1>1, <1>2, <1>3
  <2>. QED BY <1>1, <1>2, <1>3, <2>1
<1>5. Interval * (q + 1) <= Interval * p /\ Interval * p \in Nat
  BY <1>2, <1>3, <1>4
<1>6. Interval * (q + 1) = Interval + Interval * q
  BY <1>2
<1>. QED BY <1>2, <1>5, <1>6 DEF MaxWait, b, q, p

\* A batch that stays in the queue at a drain moves up by one interval.
LEMMA NextPlace ==
  ASSUME MaxProbesPerTick # 0, NEW i \in Nat \ {0}
  PROVE  Interval * ((i + MaxProbesPerTick - 1) \div MaxProbesPerTick)
           = Interval + Interval * ((i - 1) \div MaxProbesPerTick)
<1> DEFINE b == MaxProbesPerTick
           q == (i - 1) \div b
<1>1. b \in Nat \ {0} /\ i - 1 \in Nat
  OBVIOUS
<1>2. q \in Nat /\ b * q <= i - 1 /\ i - 1 < b * q + b
  BY <1>1
<1>3. (i + b - 1) \div b = q + 1
  <2>1. i + b - 1 \in Nat /\ b * (q + 1) <= i + b - 1 /\ i + b - 1 < b * (q + 1) + b
    BY <1>1, <1>2
  <2>. QED BY <1>1, <1>2, <2>1
<1> HIDE DEF q, b
<1>4. Interval * (q + 1) = Interval + Interval * q
  BY <1>2
<1>. QED BY <1>3, <1>4 DEF b, q

--------------------------------------------------------------------------------
(* The invariant holds at the start and is kept by the worker *)

LEMMA NothingTwice == NothingPendingTwice <=> Distinct(pending)
BY DEF NothingPendingTwice, Distinct

\* The empty planner has the invariant.
LEMMA IInvInit == Init => IInv
<1>. SUFFICES ASSUME Init PROVE IInv
  OBVIOUS
<1>1. /\ Len(pending) = 0 /\ Len(accepted) = 0 /\ Len(sending) = 0
      /\ KeysOf(pending) = {} /\ KeysOf(sending) = {} /\ Requests(accepted) = {}
  BY DEF Init, KeysOf, Requests
<1>2. TypeOK
  BY DEF Init, TypeOK
<1>3. PendingKeysExact /\ BatchIsFresh /\ PollerIsAwake /\ WaitIsBounded
  BY <1>1 DEF Init, PendingKeysExact, NothingPendingTwice, BatchIsFresh, PollerIsAwake,
       WaitIsBounded
<1>4. SentIsSpaced
  <2>. SUFFICES ASSUME MaxProbesPerTick # 0 PROVE SentIsSpaced
    BY DEF SentIsSpaced
  <2>1. MaxWait \in Nat
    BY DEF MaxWait
  <2>. QED BY <1>1, <2>1 DEF Init, SentIsSpaced, Distinct
<1>. QED BY <1>2, <1>3, <1>4 DEF IInv

\* Steps that leave the queue, the keys and the clocks alone.
LEMMA Untouched ==
  ASSUME IInv, UNCHANGED <<plannerVars, accepted, sending, sleep, sinceSent>>
  PROVE  PendingKeysExact' /\ PollerIsAwake' /\ WaitIsBounded' /\ SentIsSpaced'
BY DEF plannerVars, IInv, PendingKeysExact, NothingPendingTwice, PollerIsAwake,
       WaitIsBounded, UntilDrain, SentIsSpaced

\* A record asks for keys.
LEMMA BatchForType ==
  ASSUME NEW name \in Services \cup Instances
  PROVE  BatchFor(name) \in Seq(Key)
<1>1. name \in Services => <<name, "PTR">> \in Key
  BY DEF Key
<1>2. name \notin Services => <<name, "SRV">> \in Key /\ <<name, "TXT">> \in Key
  BY DEF Key
<1> HIDE DEF Key
<1>3. \A k \in Key : <<k>> \in Seq(Key)
  OBVIOUS
<1>4. \A k, l \in Key : <<k, l>> \in Seq(Key)
  OBVIOUS
<1>. QED BY <1>1, <1>2, <1>3, <1>4 DEF BatchFor

\* observe() takes the mutex and the records of an event.
LEMMA ObserveKeeps == ASSUME IInv, Observe PROVE IInv'
<1>1. todo' \in Seq(Services \cup Instances)
  BY SeqDef DEF Observe
<1>2. TypeOK' /\ BatchIsFresh'
  BY <1>1 DEF Observe, plannerVars, IInv, TypeOK, BatchIsFresh
<1>. QED BY <1>2, Untouched DEF Observe, IInv

\* A batch that finds the queue full leaves no trace.
LEMMA BatchRefusedKeeps == ASSUME IInv, BatchRefused PROVE IInv'
<1>1. todo' \in Seq(Services \cup Instances)
  BY HeadTailProperties DEF BatchRefused, IInv, TypeOK
<1>2. TypeOK' /\ BatchIsFresh'
  BY <1>1 DEF BatchRefused, plannerVars, IInv, TypeOK, BatchIsFresh
<1>. QED BY <1>2, Untouched DEF BatchRefused, IInv

\* A batch that finds room starts empty.
LEMMA BatchStartedKeeps == ASSUME IInv, BatchStarted PROVE IInv'
<1>1. todo' \in Seq(Services \cup Instances) /\ asked' \in Seq(Key)
  BY HeadTailProperties, BatchForType DEF BatchStarted, IInv, TypeOK
<1>2. TypeOK' /\ BatchIsFresh'
  BY <1>1 DEF BatchStarted, HasRoom, plannerVars, IInv, TypeOK, BatchIsFresh
<1>. QED BY <1>2, Untouched DEF BatchStarted, IInv

\* observe() returns.
LEMMA ObserveDoneKeeps == ASSUME IInv, ObserveDone PROVE IInv'
<1>1. TypeOK' /\ BatchIsFresh'
  BY DEF ObserveDone, plannerVars, IInv, TypeOK, BatchIsFresh
<1>. QED BY <1>1, Untouched DEF ObserveDone, IInv

\* try_enqueue takes a key that is neither pending nor cooling down.
LEMMA RequestTriedKeeps == ASSUME IInv, RequestTried PROVE IInv'
<1> DEFINE k == Head(asked)
<1>1. /\ k \in Key /\ asked' \in Seq(Key) /\ worker = "request" /\ worker' = worker
      /\ pending' = pending /\ todo' = todo /\ sending' = sending /\ sleep' = sleep
      /\ sinceSent' = sinceSent /\ accepted \in Seq(Key) /\ age \in [Key -> 0..Cooldown]
      /\ pendingKeys \subseteq Key
  BY HeadTailProperties DEF RequestTried, IInv, TypeOK
<1>2. CASE UNCHANGED <<pendingKeys, age, accepted>>
  <2>1. TypeOK' /\ BatchIsFresh'
    BY <1>1, <1>2 DEF IInv, TypeOK, BatchIsFresh
  <2>. QED BY <1>1, <1>2, <2>1, Untouched DEF plannerVars, IInv
<1>3. CASE /\ Eligible(k) /\ pendingKeys' = pendingKeys \cup {k}
           /\ age' = [age EXCEPT ![k] = 0] /\ accepted' = Append(accepted, k)
  <2>1. /\ accepted' \in Seq(Key) /\ Len(accepted') = Len(accepted) + 1
        /\ \A i \in 1..Len(accepted) : accepted'[i] = accepted[i]
        /\ accepted'[Len(accepted) + 1] = k /\ Len(accepted) \in Nat
        /\ Requests(accepted') = Requests(accepted) \cup {k}
    BY <1>1, <1>3, AppendProperties, LenProperties, RequestsAppend
  <2>2. /\ k \notin KeysOf(pending) /\ k \notin Requests(accepted) /\ age[k] >= Cooldown
        /\ \A l \in Key : age'[l] = IF l = k THEN 0 ELSE age[l]
    BY <1>1, <1>3 DEF Eligible, IInv, PendingKeysExact
  <2>3. TypeOK'
    BY <1>1, <1>3, <2>1 DEF IInv, TypeOK
  <2>4. BatchIsFresh'
    <3>1. \A m \in 1..Len(accepted) : accepted[m] # k
      BY <2>2 DEF Requests
    <3>2. \A m, n \in 1..Len(accepted') : accepted'[m] = accepted'[n] => m = n
      BY <2>1, <3>1 DEF IInv, BatchIsFresh
    <3>. QED BY <1>1, <2>1, <2>2, <3>2 DEF IInv, BatchIsFresh
  <2>5. PendingKeysExact' /\ PollerIsAwake'
    BY <1>1, <1>3, <2>1 DEF IInv, PendingKeysExact, NothingPendingTwice, PollerIsAwake
  <2>6. \A l \in Key : age'[l] <= age[l]
    BY <1>1, <2>2
  <2>7. WaitIsBounded'
    <3>. SUFFICES ASSUME MaxProbesPerTick # 0 PROVE WaitIsBounded'
      BY DEF WaitIsBounded
    <3>1. UntilDrain' = UntilDrain /\ UntilDrain \in Nat /\ UntilDrain <= Interval
      BY <1>1 DEF UntilDrain, IInv, TypeOK
    <3>2. \A i \in 1..Len(pending) : \A l \in Requests(pending[i]) : l \in Key /\ l # k
      BY <2>2, RequestsType, ElementOfSeq DEF IInv, TypeOK, KeysOf
    <3>3. \A i \in 1..Len(pending') : \A l \in Requests(pending'[i]) :
            age'[l] + UntilDrain' + Interval * ((i - 1) \div MaxProbesPerTick) <= MaxWait
      BY <1>1, <2>2, <3>1, <3>2 DEF IInv, WaitIsBounded
    <3>4. \A l \in Requests(accepted') : age'[l] + UntilDrain' <= Interval
      <4>1. Requests(accepted) \subseteq Key
        BY <1>1, RequestsType
      <4>. QED BY <2>1, <2>2, <3>1, <4>1 DEF IInv, WaitIsBounded
    <3>5. \A l \in KeysOf(sending') : age'[l] <= MaxWait
      <4>1. KeysOf(sending) \subseteq Key /\ MaxWait \in Nat
        BY KeysOfType, MaxWaitType DEF IInv, TypeOK
      <4>. QED BY <1>1, <2>2, <4>1 DEF IInv, WaitIsBounded
    <3>. QED BY <3>3, <3>4, <3>5 DEF WaitIsBounded
  <2>8. SentIsSpaced'
    <3>. SUFFICES ASSUME MaxProbesPerTick # 0, MaxWait < Cooldown PROVE SentIsSpaced'
      BY DEF SentIsSpaced
    <3>0. MaxWait \in Nat /\ sinceSent \in [Key -> 0..Cooldown]
      BY MaxWaitType DEF IInv, TypeOK
    <3>1. k \notin KeysOf(sending)
      BY <1>1, <2>2, <3>0 DEF IInv, WaitIsBounded
    <3>2. sinceSent[k] + MaxWait >= Cooldown
      <4>1. sinceSent[k] + MaxWait >= age[k]
        BY <1>1, <1>3, <3>1 DEF Eligible, IInv, SentIsSpaced
      <4>. QED BY <1>1, <2>2, <3>0, <4>1
    <3>. QED BY <1>1, <1>3, <2>2, <3>1, <3>2 DEF IInv, SentIsSpaced
  <2>. QED BY <2>3, <2>4, <2>5, <2>7, <2>8 DEF IInv
<1>. QED BY <1>2, <1>3 DEF RequestTried

\* A batch that is not empty becomes the last of the queue.
LEMMA BatchDoneKeeps == ASSUME IInv, BatchDone PROVE IInv'
<1>1. /\ worker = "request" /\ worker' = "record" /\ asked = <<>> /\ asked' = asked
      /\ accepted' = <<>> /\ pendingKeys' = pendingKeys /\ age' = age /\ todo' = todo
      /\ sending' = sending /\ sleep' = sleep /\ sinceSent' = sinceSent
      /\ pending \in Seq(Seq(Key)) /\ accepted \in Seq(Key) /\ Len(pending) \in Nat
  BY LenProperties DEF BatchDone, IInv, TypeOK
<1>2. Requests(<<>>) = {}
  BY DEF Requests
<1>3. /\ pending' \in Seq(Seq(Key)) /\ Distinct(pending')
      /\ KeysOf(pending') = KeysOf(pending) \cup Requests(accepted)
      /\ Len(pending') <= MaxPending
      /\ \A i \in 1..Len(pending') :
           \/ i \in 1..Len(pending) /\ pending'[i] = pending[i]
           \/ pending'[i] = accepted /\ i \in 1..MaxPending
  <2>1. CASE accepted = <<>>
    BY <1>1, <1>2, <2>1, NothingTwice DEF BatchDone, IInv, PendingKeysExact, TypeOK
  <2>2. CASE accepted # <<>>
    <3>1. pending' = Append(pending, accepted)
      BY <2>2 DEF BatchDone
    <3>2. Len(pending) < MaxPending /\ Distinct(pending)
      BY <1>1, NothingTwice DEF IInv, BatchIsFresh, PendingKeysExact
    <3>3. /\ pending' \in Seq(Seq(Key)) /\ Len(pending') = Len(pending) + 1
          /\ pending'[Len(pending) + 1] = accepted
          /\ \A i \in 1..Len(pending) : pending'[i] = pending[i]
          /\ KeysOf(pending') = KeysOf(pending) \cup Requests(accepted)
      BY <1>1, <3>1, AppendBatch
    <3>4. Distinct(pending')
      BY <1>1, <3>1, <3>2, AppendBatch DEF IInv, BatchIsFresh
    <3>5. Len(pending') <= MaxPending
      BY <1>1, <3>2, <3>3
    <3>6. ASSUME NEW i \in 1..Len(pending')
          PROVE  \/ i \in 1..Len(pending) /\ pending'[i] = pending[i]
                 \/ pending'[i] = accepted /\ i \in 1..MaxPending
      BY <1>1, <3>2, <3>3
    <3>. QED BY <3>3, <3>4, <3>5, <3>6
  <2>. QED BY <2>1, <2>2
<1>4. TypeOK'
  BY <1>1, <1>3 DEF IInv, TypeOK
<1>5. BatchIsFresh' /\ PollerIsAwake'
  BY <1>1, <1>2 DEF IInv, BatchIsFresh, PollerIsAwake
<1>6. PendingKeysExact'
  <2>1. NothingPendingTwice'
    BY <1>3 DEF NothingPendingTwice, Distinct
  <2>. QED BY <1>1, <1>2, <1>3, <2>1 DEF IInv, PendingKeysExact
<1>7. WaitIsBounded'
  <2>. SUFFICES ASSUME MaxProbesPerTick # 0 PROVE WaitIsBounded'
    BY DEF WaitIsBounded
  <2>1. UntilDrain' = UntilDrain /\ UntilDrain \in Nat
    BY <1>1 DEF UntilDrain, IInv, TypeOK
  <2>2. ASSUME NEW i \in 1..Len(pending'), NEW k \in Requests(pending'[i])
        PROVE  age'[k] + UntilDrain' + Interval * ((i - 1) \div MaxProbesPerTick) <= MaxWait
    <3>1. CASE i \in 1..Len(pending) /\ pending'[i] = pending[i]
      BY <1>1, <2>1, <2>2, <3>1 DEF IInv, WaitIsBounded
    <3>2. CASE pending'[i] = accepted /\ i \in 1..MaxPending
      <4>1. age[k] + UntilDrain <= Interval /\ age[k] \in Nat
        BY <1>1, <2>2, <3>2, RequestsType DEF IInv, TypeOK, WaitIsBounded
      <4>2. /\ (i - 1) \div MaxProbesPerTick \in Nat
            /\ Interval + Interval * ((i - 1) \div MaxProbesPerTick) <= MaxWait
            /\ MaxWait \in Nat
        BY <3>2, WaitOfPlace
      <4>3. \A q \in Nat : Interval * q \in Nat
        OBVIOUS
      <4>. QED BY <1>1, <2>1, <4>1, <4>2, <4>3
    <3>. QED BY <1>3, <3>1, <3>2
  <2>. QED BY <1>1, <1>2, <2>2 DEF IInv, WaitIsBounded
<1>8. SentIsSpaced'
  BY <1>1 DEF IInv, SentIsSpaced
<1>. QED BY <1>4, <1>5, <1>6, <1>7, <1>8 DEF IInv

--------------------------------------------------------------------------------
(* The poller and the clock keep the invariant *)

LEMMA DrainKeeps == ASSUME IInv, Drain PROVE IInv'
<1> DEFINE n == IF Len(pending) < MaxProbesPerTick THEN Len(pending) ELSE MaxProbesPerTick
           t == SubSeq(pending, 1, n)
           u == SubSeq(pending, n + 1, Len(pending))
<1>1. /\ worker = "idle" /\ worker' = worker /\ sleep = 0 /\ sending = <<>>
      /\ age' = age /\ sinceSent' = sinceSent /\ accepted' = accepted
      /\ asked' = asked /\ todo' = todo /\ accepted = <<>> /\ asked = <<>>
      /\ pending' = u /\ sending' = t /\ pendingKeys' = pendingKeys \ KeysOf(t)
      /\ sleep' = IF n = 0 THEN Interval ELSE 0
  BY DEF Drain, DrainLimit, KeysLeft, observeVars, IInv, BatchIsFresh
<1>2. pending \in Seq(Seq(Key)) /\ Len(pending) \in Nat /\ n \in 0..Len(pending)
  BY LenProperties DEF IInv, TypeOK
<1>3. /\ t \in Seq(Seq(Key)) /\ u \in Seq(Seq(Key)) /\ Split(pending, t, u)
      /\ Len(t) = n /\ Len(u) = Len(pending) - n
  BY <1>2, FirstBatches
<1>4. n = Len(pending) \/ n = MaxProbesPerTick
  OBVIOUS
<1> HIDE DEF t, u, n
<1>5. /\ KeysOf(pending) = KeysOf(t) \cup KeysOf(u)
      /\ Distinct(t) /\ Distinct(u) /\ KeysOf(t) \cap KeysOf(u) = {}
  BY <1>3, SplitKeys, NothingTwice DEF IInv, PendingKeysExact
<1>6. Requests(accepted) = {} /\ KeysOf(sending) = {}
  BY <1>1 DEF Requests, KeysOf
<1>7. pendingKeys = KeysOf(pending) /\ pendingKeys' = KeysOf(u)
  BY <1>1, <1>5, <1>6 DEF IInv, PendingKeysExact
<1>8. TypeOK'
  BY <1>1, <1>2, <1>3 DEF IInv, TypeOK
<1>9. BatchIsFresh'
  BY <1>1, <1>6 DEF IInv, BatchIsFresh
<1>10. PollerIsAwake'
  <2>1. n = 0 => t = <<>>
    BY <1>3, EmptySeq
  <2>2. MaxProbesPerTick = 0 => n = 0
    BY <1>4 DEF n
  <2>. QED BY <1>1, <2>1, <2>2 DEF PollerIsAwake
<1>11. PendingKeysExact'
  <2>1. NothingPendingTwice'
    BY <1>1, <1>5 DEF NothingPendingTwice, Distinct
  <2>. QED BY <1>1, <1>6, <1>7, <2>1 DEF PendingKeysExact
<1>12. WaitIsBounded'
  <2>. SUFFICES ASSUME MaxProbesPerTick # 0 PROVE WaitIsBounded'
    BY DEF WaitIsBounded
  <2>1. ASSUME NEW i \in 1..Len(pending), NEW k \in Requests(pending[i])
        PROVE  /\ age[k] \in Nat
               /\ age[k] + Interval * ((i - 1) \div MaxProbesPerTick) <= MaxWait
    <3>1. k \in Key
      BY <1>2, <2>1, RequestsType, ElementOfSeq
    <3>2. age[k] + UntilDrain + Interval * ((i - 1) \div MaxProbesPerTick) <= MaxWait
      BY <2>1 DEF IInv, WaitIsBounded
    <3>3. UntilDrain = 0
      BY <1>1 DEF UntilDrain
    <3>. QED BY <3>1, <3>2, <3>3 DEF IInv, TypeOK
  <2>2. MaxWait \in Nat
    BY MaxWaitType
  <2>3. ASSUME NEW k \in KeysOf(t) PROVE age[k] <= MaxWait
    <3>1. k \in KeysOf(pending)
      BY <1>5, <2>3
    <3>2. PICK i \in 1..Len(pending) : k \in Requests(pending[i])
      BY <3>1 DEF KeysOf
    <3>4. Interval * ((i - 1) \div MaxProbesPerTick) \in Nat
      BY PlaceType
    <3>. QED BY <2>1, <2>2, <3>2, <3>4
  <2>4. ASSUME NEW i \in 1..Len(u), NEW k \in Requests(u[i])
        PROVE  age[k] + UntilDrain' + Interval * ((i - 1) \div MaxProbesPerTick) <= MaxWait
    <3>1. n = MaxProbesPerTick
      <4>1. Len(u) # 0
        BY <2>4
      <4>. QED BY <1>2, <1>3, <1>4, <4>1
    <3>2. i + MaxProbesPerTick \in 1..Len(pending) /\ u[i] = pending[i + MaxProbesPerTick]
      <4>1. n + i \in 1..Len(pending) /\ n + i = i + n /\ u[i] = pending[n + i]
        BY <1>2, <1>3, <2>4 DEF Split
      <4>. QED BY <3>1, <4>1
    <3>3. age[k] \in Nat /\
          age[k] + Interval * ((i + MaxProbesPerTick - 1) \div MaxProbesPerTick) <= MaxWait
      BY <2>1, <2>4, <3>2
    <3>4. Interval * ((i + MaxProbesPerTick - 1) \div MaxProbesPerTick)
            = Interval + Interval * ((i - 1) \div MaxProbesPerTick)
      BY NextPlace
    <3>5. UntilDrain' = Interval
      BY <1>1, <1>3, <3>1 DEF UntilDrain
    <3>6. Interval * ((i - 1) \div MaxProbesPerTick) \in Nat
      BY PlaceType
    <3>. QED BY <3>3, <3>4, <3>5, <3>6
  <2>. QED BY <1>1, <1>6, <2>3, <2>4 DEF WaitIsBounded
<1>13. SentIsSpaced'
  <2>1. pendingKeys' \cup KeysOf(sending') = pendingKeys \cup KeysOf(sending)
    BY <1>1, <1>5, <1>6, <1>7
  <2>. QED BY <1>1, <1>5, <1>7, <2>1 DEF IInv, SentIsSpaced
<1>. QED BY <1>8, <1>9, <1>10, <1>11, <1>12, <1>13 DEF IInv

\* The poller sends one of the batches it has drained.
LEMMA SendBatchKeeps == ASSUME IInv, SendBatch PROVE IInv'
<1>1. /\ sending # <<>> /\ sending' = Tail(sending) /\ pending' = pending
      /\ pendingKeys' = pendingKeys /\ age' = age /\ todo' = todo /\ asked' = asked
      /\ accepted' = accepted /\ worker' = worker /\ sending \in Seq(Seq(Key))
      /\ sleep' = IF Len(sending) = 1 THEN Interval ELSE 0
  BY DEF SendBatch, plannerVars, observeVars, IInv, TypeOK
<1>2. /\ Head(sending) \in Seq(Key) /\ sending' \in Seq(Seq(Key))
      /\ Len(sending') = Len(sending) - 1 /\ Len(sending) \in Nat \ {0}
      /\ KeysOf(sending) = Requests(Head(sending)) \cup KeysOf(sending')
      /\ Distinct(sending) => /\ Distinct(sending')
                              /\ Requests(Head(sending)) \cap KeysOf(sending') = {}
  BY <1>1, FirstBatch
<1>3. Len(sending) = 1 <=> sending' = <<>>
  <2>1. sending' # <<>> => Len(sending') # 0
    BY <1>2, EmptySeq
  <2>2. sending' = <<>> => Len(sending') = 0
    BY EmptySeq
  <2>. QED BY <1>2, <2>1, <2>2
<1>4. UntilDrain' = UntilDrain
  BY <1>1, <1>3 DEF UntilDrain
<1>5. /\ sinceSent \in [Key -> 0..Cooldown] /\ sinceSent' \in [Key -> 0..Cooldown]
      /\ \A k \in Key \ Requests(Head(sending)) : sinceSent'[k] = sinceSent[k]
      /\ \A k \in Key : sinceSent'[k] = 0 \/ sinceSent'[k] = sinceSent[k]
  <2>1. sinceSent \in [Key -> 0..Cooldown]
    BY DEF IInv, TypeOK
  <2>2. CASE sinceSent' = [k \in Key |-> IF k \in Requests(Head(sending)) THEN 0
                                                                     ELSE sinceSent[k]]
    BY <2>1, <2>2
  <2>3. CASE UNCHANGED sinceSent
    BY <2>1, <2>3
  <2>. QED BY <2>2, <2>3 DEF SendBatch
<1>6. TypeOK'
  BY <1>1, <1>2, <1>5 DEF IInv, TypeOK
<1>7. BatchIsFresh' /\ PendingKeysExact'
  BY <1>1 DEF IInv, BatchIsFresh, PendingKeysExact, NothingPendingTwice
<1>8. PollerIsAwake'
  BY <1>1, <1>3 DEF IInv, PollerIsAwake
<1>9. WaitIsBounded'
  BY <1>1, <1>2, <1>4 DEF IInv, WaitIsBounded
<1>10. SentIsSpaced'
  <2>. SUFFICES ASSUME MaxProbesPerTick # 0, MaxWait < Cooldown PROVE SentIsSpaced'
    BY DEF SentIsSpaced
  <2>1. /\ Distinct(sending) /\ KeysOf(sending) \cap pendingKeys = {}
        /\ \A k \in pendingKeys \cup KeysOf(sending) : sinceSent[k] + MaxWait >= Cooldown
        /\ \A k \in Key \ (pendingKeys \cup KeysOf(sending)) :
             sinceSent[k] + MaxWait >= age[k]
    BY DEF IInv, SentIsSpaced
  <2>2. \A k \in pendingKeys \cup KeysOf(sending') : sinceSent'[k] + MaxWait >= Cooldown
    <3>1. \A k \in pendingKeys \cup KeysOf(sending') :
            k \in Key /\ k \notin Requests(Head(sending))
      BY <1>2, <2>1, KeysOfType DEF IInv, TypeOK
    <3>. QED BY <1>2, <1>5, <2>1, <3>1
  <2>3. ASSUME NEW k \in Key \ (pendingKeys \cup KeysOf(sending'))
        PROVE  sinceSent'[k] + MaxWait >= age[k]
    <3>0. MaxWait \in Nat /\ age[k] \in 0..Cooldown
      BY MaxWaitType DEF IInv, TypeOK
    <3>1. CASE k \in Requests(Head(sending))
      <4>1. age[k] <= MaxWait /\ sinceSent[k] + MaxWait >= Cooldown
        BY <1>2, <2>1, <3>1 DEF IInv, WaitIsBounded
      <4>. QED BY <1>5, <3>0, <4>1
    <3>2. CASE k \notin Requests(Head(sending))
      BY <1>2, <1>5, <2>1, <3>2
    <3>. QED BY <3>1, <3>2
  <2>. QED BY <1>1, <1>2, <2>1, <2>2, <2>3 DEF SentIsSpaced
<1>. QED BY <1>6, <1>7, <1>8, <1>9, <1>10 DEF IInv

\* Time passes: nothing is overdue that has not been sent.
LEMMA TickKeeps == ASSUME IInv, Tick PROVE IInv'
<1>1. /\ sleep > 0 /\ sleep' = sleep - 1 /\ sleep \in 0..Interval
      /\ pending' = pending /\ pendingKeys' = pendingKeys /\ sending' = sending
      /\ todo' = todo /\ asked' = asked /\ accepted' = accepted /\ worker' = worker
      /\ sending = <<>>
  BY DEF Tick, observeVars, IInv, TypeOK, PollerIsAwake
<1>2. /\ age \in [Key -> 0..Cooldown] /\ age' \in [Key -> 0..Cooldown]
      /\ \A k \in Key : age'[k] = IF age[k] < Cooldown THEN age[k] + 1 ELSE age[k]
  BY DEF Tick, IInv, TypeOK, Older
<1>3. /\ sinceSent \in [Key -> 0..Cooldown] /\ sinceSent' \in [Key -> 0..Cooldown]
      /\ \A k \in Key : sinceSent'[k] = IF sinceSent[k] < Cooldown THEN sinceSent[k] + 1
                                                                   ELSE sinceSent[k]
  BY DEF Tick, IInv, TypeOK, Older
<1>4. TypeOK'
  BY <1>1, <1>2, <1>3 DEF IInv, TypeOK
<1>5. BatchIsFresh' /\ PendingKeysExact' /\ PollerIsAwake'
  BY <1>1 DEF IInv, BatchIsFresh, PendingKeysExact, NothingPendingTwice, PollerIsAwake
<1>6. KeysOf(sending) = {}
  BY <1>1 DEF KeysOf
<1>7. WaitIsBounded'
  <2>. SUFFICES ASSUME MaxProbesPerTick # 0 PROVE WaitIsBounded'
    BY DEF WaitIsBounded
  <2>1. UntilDrain = sleep /\ UntilDrain' = sleep - 1
    BY <1>1 DEF UntilDrain
  <2>2. \A k \in Key : age'[k] + UntilDrain' <= age[k] + UntilDrain
                       /\ age'[k] \in Nat /\ age[k] \in Nat
    BY <1>1, <1>2, <2>1
  <2>3. ASSUME NEW i \in 1..Len(pending), NEW k \in Requests(pending[i])
        PROVE  age'[k] + UntilDrain' + Interval * ((i - 1) \div MaxProbesPerTick) <= MaxWait
    <3>1. k \in Key
      BY <2>3, RequestsType, ElementOfSeq DEF IInv, TypeOK
    <3>2. age[k] + UntilDrain + Interval * ((i - 1) \div MaxProbesPerTick) <= MaxWait
      BY <2>3 DEF IInv, WaitIsBounded
    <3>4. Interval * ((i - 1) \div MaxProbesPerTick) \in Nat /\ MaxWait \in Nat
      BY PlaceType, MaxWaitType
    <3>. QED BY <1>1, <2>1, <2>2, <3>1, <3>2, <3>4
  <2>4. \A k \in Requests(accepted) : age'[k] + UntilDrain' <= Interval
    <3>1. Requests(accepted) \subseteq Key
      BY RequestsType DEF IInv, TypeOK
    <3>. QED BY <1>1, <2>1, <2>2, <3>1 DEF IInv, WaitIsBounded
  <2>. QED BY <1>1, <1>6, <2>3, <2>4 DEF WaitIsBounded
<1>8. SentIsSpaced'
  <2>. SUFFICES ASSUME MaxProbesPerTick # 0, MaxWait < Cooldown PROVE SentIsSpaced'
    BY DEF SentIsSpaced
  <2>1. MaxWait \in Nat /\ pendingKeys \subseteq Key
    BY MaxWaitType DEF IInv, TypeOK
  <2>2. \A k \in pendingKeys : sinceSent'[k] + MaxWait >= Cooldown
    BY <1>3, <2>1 DEF IInv, SentIsSpaced
  <2>3. \A k \in Key \ pendingKeys : sinceSent'[k] + MaxWait >= age'[k]
    <3>1. \A k \in Key \ pendingKeys : sinceSent[k] + MaxWait >= age[k]
      BY <1>6 DEF IInv, SentIsSpaced
    <3>. QED BY <1>2, <1>3, <2>1, <3>1
  <2>4. Distinct(sending)
    BY <1>1 DEF Distinct
  <2>. QED BY <1>1, <1>6, <2>2, <2>3, <2>4 DEF SentIsSpaced
<1>. QED BY <1>4, <1>5, <1>7, <1>8 DEF IInv

\* Every step of worker, poller and time keeps the invariant.
LEMMA IInvNext == IInv /\ [Next]_vars => IInv'
<1>1. IInv /\ UNCHANGED vars => IInv'
  <2>. SUFFICES ASSUME IInv, UNCHANGED vars PROVE IInv'
    OBVIOUS
  <2>1. TypeOK' /\ BatchIsFresh'
    BY DEF vars, plannerVars, observeVars, IInv, TypeOK, BatchIsFresh
  <2>. QED BY <2>1, Untouched DEF vars, observeVars, IInv
<1>. QED BY <1>1, ObserveKeeps, BatchRefusedKeeps, BatchStartedKeeps, RequestTriedKeeps,
            BatchDoneKeeps, ObserveDoneKeeps, DrainKeeps, SendBatchKeeps, TickKeeps
         DEF Next, WorkerStep, PollerStep

\* The inductive invariant holds throughout.
THEOREM Invariance == Spec => []IInv
<1>. QED BY IInvInit, IInvNext, PTL DEF Spec

--------------------------------------------------------------------------------
(* The properties *)

\* The variables keep their types and pending_ its bound.
THEOREM TypeCorrect == Spec => []TypeOK
<1>1. IInv => TypeOK
  BY DEF IInv
<1>. QED BY <1>1, Invariance, PTL

\* pending_keys_ is exactly what is queued, each key once.
THEOREM KeysMatchQueue == Spec => []PendingKeysExact
<1>1. IInv => PendingKeysExact
  BY DEF IInv
<1>. QED BY <1>1, Invariance, PTL

\* The cooldown of a key never starts while the queue is full.
THEOREM RefusalsNotRemembered == Spec => RefusedNotRemembered
<1> DEFINE Started == (\E k \in Key : age'[k] < age[k]) => Len(pending) < MaxPending
<1>1. IInv /\ [Next]_vars => [Started]_vars
  <2>. SUFFICES ASSUME IInv, [Next]_vars, NEW k \in Key, age'[k] < age[k]
                PROVE  Len(pending) < MaxPending
    OBVIOUS
  <2>1. age \in [Key -> 0..Cooldown]
    BY DEF IInv, TypeOK
  <2>2. CASE age' = age
    BY <2>1, <2>2
  <2>3. CASE Tick
    BY <2>1, <2>3 DEF Tick, Older
  <2>4. CASE RequestTried
    BY <2>4 DEF RequestTried, IInv, BatchIsFresh
  <2>5. age' = age \/ Tick \/ RequestTried
    BY DEF Next, WorkerStep, PollerStep, vars, plannerVars, Observe, BatchRefused,
         BatchStarted, BatchDone, ObserveDone, Drain, SendBatch
  <2>. QED BY <2>2, <2>3, <2>4, <2>5
<1>. QED BY <1>1, Invariance, PTL DEF Spec, RefusedNotRemembered

\* Two queries for one name are at least the cooldown apart, less MaxWait, the
\* longest that the queue keeps a batch waiting.
THEOREM SpacedUpToBacklog == Spec => SpacingUpToBacklog
<1> DEFINE Spaced == \A k \in Key :
             sending' # sending /\ Sends(k) => sinceSent[k] + MaxWait >= Cooldown
<1>1. IInv /\ [Next]_vars => [Spaced]_vars
  <2>. SUFFICES ASSUME IInv, NEW k \in Key, Sends(k)
                PROVE  sinceSent[k] + MaxWait >= Cooldown
    OBVIOUS
  <2>1. /\ sending # <<>> /\ sending \in Seq(Seq(Key)) /\ k \in Requests(Head(sending))
        /\ sinceSent[k] \in Nat
    BY DEF Sends, IInv, TypeOK
  <2>2. k \in KeysOf(sending)
    BY <2>1, FirstBatch
  <2>3. MaxProbesPerTick # 0
    BY <2>1 DEF IInv, PollerIsAwake
  <2>4. CASE MaxWait < Cooldown
    BY <2>2, <2>3, <2>4 DEF IInv, SentIsSpaced
  <2>5. CASE MaxWait >= Cooldown
    BY <2>1, <2>3, <2>5, MaxWaitType
  <2>. QED BY <2>3, <2>4, <2>5, MaxWaitType
<1>. QED BY <1>1, Invariance, PTL DEF Spec, SpacingUpToBacklog
================================================================================
