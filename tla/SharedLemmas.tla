----------------------------- MODULE SharedLemmas -----------------------------
(***************************************************************************)
(* Lemmas that the proofs about several components cite: what a bounded    *)
(* queue of consecutively numbered items goes through, what an element     *)
(* adds to a sequence, the least element of a set of numbers, which is how *)
(* the proofs do induction, and functions defined step by step.            *)
(***************************************************************************)
EXTENDS Integers, SequenceTheorems, WellFoundedInduction, TLAPS

--------------------------------------------------------------------------------
(* A queue that holds consecutive numbers *)

\* The queue q holds the last Len(q) of n items, in order.
IsWindow(q, n) ==
  /\ q \in Seq(Nat) /\ Len(q) <= n
  /\ \A i \in 1..Len(q) : q[i] = (n - Len(q)) + i

\* The queue q after its oldest item has made room for another, if it has to.
Roomy(q, capacity) == IF Len(q) >= capacity THEN Tail(q) ELSE q

\* Making room takes the first item off, or none.
LEMMA RoomyIsSuffix ==
  ASSUME NEW capacity \in Nat \ {0}, NEW q \in Seq(Nat)
  PROVE  LET d == IF Len(q) >= capacity THEN 1 ELSE 0
         IN  /\ Roomy(q, capacity) \in Seq(Nat)
             /\ Len(Roomy(q, capacity)) = Len(q) - d
             /\ \A i \in 1..(Len(q) - d) : Roomy(q, capacity)[i] = q[i + d]
<1>1. CASE Len(q) >= capacity
  <2>1. q # <<>>
    BY <1>1, EmptySeq
  <2>2. /\ Tail(q) \in Seq(Nat)
        /\ Len(Tail(q)) = Len(q) - 1
        /\ \A i \in 1..Len(Tail(q)) : Tail(q)[i] = q[i + 1]
    BY <2>1, HeadTailProperties
  <2>. QED BY <1>1, <2>2 DEF Roomy
<1>2. CASE ~(Len(q) >= capacity)
  BY <1>2 DEF Roomy
<1>. QED BY <1>1, <1>2

\* A window stays one when the next item is appended.
LEMMA PushKeepsWindow ==
  ASSUME NEW capacity \in Nat \ {0}, NEW q, NEW n \in Nat, IsWindow(q, n)
  PROVE  LET r == Append(Roomy(q, capacity), n + 1)
         IN  /\ IsWindow(r, n + 1)
             /\ Len(r) = IF Len(q) >= capacity THEN Len(q) ELSE Len(q) + 1
<1> DEFINE d == IF Len(q) >= capacity THEN 1 ELSE 0
           m == Roomy(q, capacity)
           r == Append(m, n + 1)
<1>1. q \in Seq(Nat) /\ Len(q) \in Nat /\ Len(q) <= n /\ d \in Nat
  BY LenProperties DEF IsWindow
<1>2. /\ m \in Seq(Nat) /\ Len(m) = Len(q) - d /\ Len(m) \in Nat
      /\ \A i \in 1..(Len(q) - d) : m[i] = q[i + d]
  BY <1>1, RoomyIsSuffix, LenProperties
<1>3. /\ r \in Seq(Nat) /\ Len(r) = Len(m) + 1
      /\ \A i \in 1..Len(m) : r[i] = m[i]
      /\ r[Len(m) + 1] = n + 1
  BY <1>2, AppendProperties
<1>4. /\ Len(r) = IF Len(q) >= capacity THEN Len(q) ELSE Len(q) + 1
      /\ Len(r) <= n + 1
  <2>1. capacity \in Nat
    OBVIOUS
  <2>2. CASE Len(q) >= capacity
    <3>1. d = 1 /\ Len(r) = Len(q) - 1 + 1
      BY <1>2, <1>3, <2>2
    <3>. QED BY <1>1, <2>2, <3>1
  <2>3. CASE ~(Len(q) >= capacity)
    <3>1. d = 0 /\ Len(r) = Len(q) - 0 + 1
      BY <1>2, <1>3, <2>3
    <3>. QED BY <1>1, <2>3, <3>1
  <2>. QED BY <2>2, <2>3
<1> HIDE DEF d, m, r
<1>5. Len(q) = Len(m) + d /\ Len(m) \in Nat /\ Len(r) = Len(m) + 1
  BY <1>1, <1>2, <1>3
<1>6. ASSUME NEW i \in 1..Len(r)
      PROVE  r[i] = (n + 1 - Len(r)) + i
  <2>1. CASE i = Len(m) + 1
    BY <1>3, <1>5, <2>1
  <2>2. CASE i \in 1..Len(m)
    <3>1. i \in Nat /\ i + d \in 1..Len(q)
      BY <1>1, <1>5, <2>2
    <3>2. r[i] = q[i + d]
      BY <1>2, <1>3, <2>2
    <3>3. q[i + d] = (n - Len(q)) + (i + d)
      BY <3>1 DEF IsWindow
    <3>4. (n - Len(q)) + (i + d) = (n + 1 - Len(r)) + i
      BY <1>1, <1>5, <3>1
    <3>. QED BY <3>2, <3>3, <3>4
  <2>. QED BY <1>5, <2>1, <2>2
<1>7. IsWindow(r, n + 1)
  BY <1>3, <1>4, <1>6 DEF IsWindow
<1>. QED BY <1>4, <1>7 DEF r, m

\* A window stays one when its first item is taken, and what is taken is the
\* oldest one that waited.
LEMMA PopKeepsWindow ==
  ASSUME NEW q, NEW n \in Nat, IsWindow(q, n), q # <<>>
  PROVE  /\ Head(q) \in Nat /\ Head(q) = n - Len(q) + 1
         /\ IsWindow(Tail(q), n) /\ Len(Tail(q)) = Len(q) - 1
<1>1. q \in Seq(Nat) /\ Len(q) \in Nat \ {0} /\ Len(q) <= n
  BY LenProperties, EmptySeq DEF IsWindow
<1>2. /\ Head(q) \in Nat /\ Head(q) = q[1]
      /\ Tail(q) \in Seq(Nat) /\ Len(Tail(q)) = Len(q) - 1
      /\ \A i \in 1..Len(Tail(q)) : Tail(q)[i] = q[i + 1]
  BY <1>1, HeadTailProperties
<1>3. q[1] = (n - Len(q)) + 1
  BY <1>1 DEF IsWindow
<1>4. ASSUME NEW i \in 1..Len(Tail(q))
      PROVE  Tail(q)[i] = (n - Len(Tail(q))) + i
  <2>1. i \in Nat /\ i + 1 \in 1..Len(q)
    BY <1>1, <1>2
  <2>2. q[i + 1] = (n - Len(q)) + (i + 1)
    BY <2>1 DEF IsWindow
  <2>. QED BY <1>1, <1>2, <2>1, <2>2
<1>. QED BY <1>1, <1>2, <1>3, <1>4 DEF IsWindow

--------------------------------------------------------------------------------
(* Induction *)

\* A set of natural numbers that is not empty has a least element.
LEMMA LeastNatural ==
  ASSUME NEW T, T \subseteq Nat, T # {}
  PROVE  \E n \in T : \A m \in T : n <= m
<1> DEFINE R == OpToRel(<, Nat)
<1>1. \A m, n \in Nat : m < n => <<m, n>> \in R
  BY DEF OpToRel
<1>2. IsWellFoundedOn(R, Nat)
  BY NatLessThanWellFounded
<1> HIDE DEF R
<1>3. PICK n \in T : \A m \in T : ~(<<m, n>> \in R)
  BY <1>2, WFMin
<1>4. ASSUME NEW m \in T
      PROVE  n <= m
  <2>1. m \in Nat /\ n \in Nat /\ ~(m < n)
    BY <1>1, <1>3
  <2>. QED BY <2>1
<1>. QED BY <1>3, <1>4

\* Induction up to a number.
LEMMA UpTo ==
  ASSUME NEW m \in Nat, NEW S, 0 \in S, \A n \in 1..m : n - 1 \in S => n \in S
  PROVE  \A n \in 0..m : n \in S
<1>. SUFFICES ASSUME NEW bad \in 0..m, bad \notin S
              PROVE  FALSE
  OBVIOUS
<1>1. PICK T : T = {n \in 0..m : n \notin S}
  OBVIOUS
<1>2. PICK n \in T : \A k \in T : n <= k
  <2>1. T \subseteq Nat /\ T # {}
    BY <1>1
  <2>. QED BY <2>1, LeastNatural
<1>3. n \in 1..m /\ n \notin S
  BY <1>1, <1>2
<1>4. n - 1 \in 0..m /\ ~(n <= n - 1)
  BY <1>3
<1>5. n - 1 \in S
  BY <1>1, <1>2, <1>4
<1>. QED BY <1>3, <1>5

\* f takes m steps from a first value.
IsIteration(f, X, base, m, step) ==
  f \in [0..m -> X] /\ f[0] = base /\ \A n \in 1..m : f[n] = step[n][f[n - 1]]

\* What is defined step by step from a first value exists.
LEMMA Recursion ==
  ASSUME NEW X, NEW base \in X, NEW m \in Nat, NEW step \in [1..m -> [X -> X]]
  PROVE  \E f : IsIteration(f, X, base, m, step)
<1> DEFINE Up(f, k) == f[0] = base /\ \A n \in 1..k : f[n] = step[n][f[n - 1]]
           S == {k \in 0..m : \E f \in [0..k -> X] : Up(f, k)}
<1>1. 0 \in S
  <2>1. PICK f : f = [n \in 0..0 |-> base]
    OBVIOUS
  <2>2. f \in [0..0 -> X] /\ f[0] = base
    BY <2>1
  <2>3. \A n \in 1..0 : FALSE
    OBVIOUS
  <2>4. Up(f, 0)
    BY <2>2, <2>3, Zenon
  <2>5. 0 \in 0..m
    OBVIOUS
  <2>. QED BY <2>2, <2>4, <2>5, Zenon
<1>2. ASSUME NEW k \in 1..m, k - 1 \in S
      PROVE  k \in S
  <2>1. PICK f \in [0..(k - 1) -> X] : Up(f, k - 1)
    BY <1>2
  <2>2. PICK next \in X : next = step[k][f[k - 1]]
    BY <2>1
  <2>3. PICK g : g = [n \in 0..k |-> IF n = k THEN next ELSE f[n]]
    OBVIOUS
  <2>4. g \in [0..k -> X]
    BY <2>3
  <2>5. g[k] = next /\ \A n \in 0..(k - 1) : g[n] = f[n]
    BY <2>3
  <2>6. g[0] = base
    BY <2>1, <2>5
  <2>7. ASSUME NEW n \in 1..k
        PROVE  g[n] = step[n][g[n - 1]]
    <3>1. g[n - 1] = f[n - 1]
      BY <2>5
    <3>2. CASE n = k
      BY <2>2, <2>5, <3>1, <3>2
    <3>3. CASE n # k
      <4>1. n \in 1..(k - 1) /\ n \in 0..(k - 1)
        BY <3>3
      <4>. QED BY <2>1, <2>5, <3>1, <4>1
    <3>. QED BY <3>2, <3>3
  <2>8. Up(g, k)
    BY <2>6, <2>7, Zenon
  <2>9. k \in 0..m
    OBVIOUS
  <2>. QED BY <2>4, <2>8, <2>9, Zenon
<1> HIDE DEF S
<1>3. m \in S
  <2>1. \A n \in 1..m : n - 1 \in S => n \in S
    BY <1>2
  <2>2. \A n \in 0..m : n \in S
    BY <1>1, <2>1, UpTo
  <2>. QED BY <2>2
<1>. QED BY <1>3, Zenon DEF S, IsIteration
================================================================================
