----------------------------- MODULE DeliveryProofs -----------------------------
(***************************************************************************)
(* For any responses, any sizes and numbers of them, and any capacity of   *)
(* the queue behind it: what the change filter lets through is what is     *)
(* new, the console registry behind the filter knows all that was heard,   *)
(* and when everything is delivered the database has the same, with the    *)
(* host named last.                                                        *)
(***************************************************************************)
EXTENDS Delivery, SharedLemmas, FiniteSetTheorems

--------------------------------------------------------------------------------
(* Sequences *)

\* c is s and then t.
IsConcat(c, s, t) ==
  /\ Len(c) = Len(s) + Len(t)
  /\ \A i \in 1..Len(s) : c[i] = s[i]
  /\ \A i \in 1..Len(t) : c[Len(s) + i] = t[i]

\* Where the elements of two sequences are in their concatenation.
LEMMA ConcatAt ==
  ASSUME NEW S, NEW s \in Seq(S), NEW t \in Seq(S)
  PROVE  s \o t \in Seq(S) /\ IsConcat(s \o t, s, t)
<1>1. /\ s \o t \in Seq(S) /\ Len(s \o t) = Len(s) + Len(t)
      /\ \A i \in 1..(Len(s) + Len(t)) :
           (s \o t)[i] = IF i <= Len(s) THEN s[i] ELSE t[i - Len(s)]
  BY ConcatProperties
<1>2. Len(s) \in Nat /\ Len(t) \in Nat
  BY LenProperties
<1>3. ASSUME NEW i \in 1..Len(s)
      PROVE  (s \o t)[i] = s[i]
  <2>1. i \in 1..(Len(s) + Len(t)) /\ i <= Len(s)
    BY <1>2
  <2>. QED BY <1>1, <2>1, Zenon
<1>4. ASSUME NEW i \in 1..Len(t)
      PROVE  (s \o t)[Len(s) + i] = t[i]
  <2>1. /\ Len(s) + i \in 1..(Len(s) + Len(t)) /\ ~(Len(s) + i <= Len(s))
        /\ (Len(s) + i) - Len(s) = i
    BY <1>2
  <2>. QED BY <1>1, <2>1, Zenon
<1>. QED BY <1>1, <1>3, <1>4, Zenon DEF IsConcat

--------------------------------------------------------------------------------
(* The keys of records (KeyBuilder.hpp, DiscoveryRecord.cpp) *)

\* join_key of two parts.
LEMMA JoinTwo ==
  ASSUME NEW a \in Seq(Token), NEW b \in Seq(Token)
  PROVE  JoinKey(<<a, b>>) = a \o <<Bar>> \o b
<1> DEFINE parts == <<a, b>>
           join(key, n) == IF n = 1 THEN parts[1] ELSE key[n - 1] \o <<Bar>> \o parts[n]
           k == [n \in DOMAIN parts |-> IF n = 1 THEN a ELSE a \o <<Bar>> \o b]
           c == CHOOSE key : key = [n \in DOMAIN parts |-> join(key, n)]
<1>1. DOMAIN parts = {1, 2} /\ Len(parts) = 2
  OBVIOUS
<1>2. k = [n \in DOMAIN parts |-> join(k, n)]
  <2>1. k[1] = a /\ join(k, 1) = a
    BY <1>1
  <2>2. k[2] = a \o <<Bar>> \o b /\ join(k, 2) = a \o <<Bar>> \o b
    BY <1>1, <2>1
  <2>. QED BY <1>1, <2>1, <2>2
<1>3. c = [n \in DOMAIN parts |-> join(c, n)]
  BY <1>2
<1>4. JoinKey(parts) = c[2]
  BY <1>1 DEF JoinKey
<1> HIDE DEF c
<1>5. c[1] = join(c, 1) /\ c[2] = join(c, 2)
  BY <1>1, <1>3
<1>6. c[1] = a /\ c[2] = c[1] \o <<Bar>> \o b
  <2>1. 2 # 1 /\ 2 - 1 = 1 /\ parts[1] = a /\ parts[2] = b
    OBVIOUS
  <2>. QED BY <1>5, <2>1
<1>. QED BY <1>4, <1>6

\* join_key of three parts.
LEMMA JoinThree ==
  ASSUME NEW a \in Seq(Token), NEW b \in Seq(Token), NEW d \in Seq(Token)
  PROVE  JoinKey(<<a, b, d>>) = (a \o <<Bar>> \o b) \o <<Bar>> \o d
<1> DEFINE parts == <<a, b, d>>
           join(key, n) == IF n = 1 THEN parts[1] ELSE key[n - 1] \o <<Bar>> \o parts[n]
           ab == a \o <<Bar>> \o b
           k == [n \in DOMAIN parts |->
                   IF n = 1 THEN a ELSE IF n = 2 THEN ab ELSE ab \o <<Bar>> \o d]
           c == CHOOSE key : key = [n \in DOMAIN parts |-> join(key, n)]
<1>1. /\ DOMAIN parts = {1, 2, 3} /\ Len(parts) = 3
      /\ parts[1] = a /\ parts[2] = b /\ parts[3] = d
      /\ 2 - 1 = 1 /\ 3 - 1 = 2 /\ 2 # 1 /\ 3 # 1
  OBVIOUS
<1> HIDE DEF parts, ab
<1>2. k = [n \in DOMAIN parts |-> join(k, n)]
  <2>1. k[1] = a /\ k[2] = ab /\ k[3] = ab \o <<Bar>> \o d
    BY <1>1
  <2>2. join(k, 1) = k[1] /\ join(k, 2) = k[2] /\ join(k, 3) = k[3]
    BY <1>1, <2>1 DEF ab
  <2> HIDE DEF join
  <2>. QED BY <1>1, <2>2
<1>3. c = [n \in DOMAIN parts |-> join(c, n)]
  BY <1>2
<1>4. JoinKey(parts) = c[3]
  BY <1>1 DEF JoinKey
<1> HIDE DEF c
<1>5. c[1] = join(c, 1) /\ c[2] = join(c, 2) /\ c[3] = join(c, 3)
  BY <1>1, <1>3
<1>6. c[1] = a
  BY <1>1, <1>5
<1>7. c[2] = ab
  <2>1. c[2] = c[1] \o <<Bar>> \o b
    BY <1>1, <1>5, Zenon
  <2>. QED BY <1>6, <2>1 DEF ab
<1>8. c[3] = c[2] \o <<Bar>> \o d
  BY <1>1, <1>5, Zenon
<1>. QED BY <1>4, <1>7, <1>8 DEF parts, ab

\* The key of a record with owner o, type t and RDATA d.
KeyOf(o, t, d) == o \o <<Bar, t, Bar>> \o d

\* What the library says of any sequences, for texts.
LEMMA TextsEqual ==
  \A s, t \in Seq(Token) : Len(s) = Len(t) /\ (\A i \in 1..Len(s) : s[i] = t[i]) => s = t
<1>1. ASSUME NEW s \in Seq(Token), NEW t \in Seq(Token), Len(s) = Len(t),
             \A i \in 1..Len(s) : s[i] = t[i]
      PROVE  s = t
  BY <1>1, SeqEqual
<1>. QED BY <1>1

\* Two texts one after the other are a text.
LEMMA TextsConcat == \A s, t \in Seq(Token) : s \o t \in Seq(Token)
BY ConcatProperties

\* Where the elements of two texts are in their concatenation.
LEMMA TextsAt == \A s, t \in Seq(Token) : IsConcat(s \o t, s, t)
BY ConcatAt

\* It does not matter which of three texts are put together first.
LEMMA TextsAssociate == \A s, t, u \in Seq(Token) : (s \o t) \o u = s \o (t \o u)
BY ConcatAssociative

\* The key of a record is its parts joined by bars.
LEMMA KeyIs ==
  ASSUME NEW o \in Seq(Token), NEW t \in Token, NEW d \in Seq(Token)
  PROVE  JoinKey(<<o, <<t>>, d>>) = KeyOf(o, t, d) /\ KeyOf(o, t, d) \in Seq(Token)
<1>0. Bar \in Token
  BY PacketsAssumption
<1>1. PICK bar, type, end, m \in Seq(Token) :
        bar = <<Bar>> /\ type = <<t>> /\ end = <<t, Bar>> /\ m = <<Bar, t, Bar>>
  <2>1. <<Bar>> \in Seq(Token) /\ <<t>> \in Seq(Token)
    BY <1>0
  <2>2. <<t, Bar>> \in Seq(Token) /\ <<Bar, t, Bar>> \in Seq(Token)
    BY <1>0
  <2>. QED BY <2>1, <2>2
<1>2. bar \o end = m /\ type \o bar = end
  <2>1. Len(bar \o end) = 3 /\ Len(type \o bar) = 2
    BY <1>1, ConcatProperties
  <2>7. Len(m) = 3 /\ m[1] = Bar /\ m[2] = t /\ m[3] = Bar
    BY <1>1
  <2>8. Len(end) = 2 /\ end[1] = t /\ end[2] = Bar
    BY <1>1
  <2>2. (bar \o end)[1] = Bar /\ (bar \o end)[2] = t /\ (bar \o end)[3] = Bar
    BY <1>1, ConcatProperties
  <2>3. (type \o bar)[1] = t /\ (type \o bar)[2] = Bar
    BY <1>1, ConcatProperties
  <2>4. bar \o end \in Seq(Token) /\ type \o bar \in Seq(Token)
    BY ConcatProperties
  <2>5. bar \o end = m
    <3>1. \A i \in 1..3 : i = 1 \/ i = 2 \/ i = 3
      OBVIOUS
    <3>2. \A i \in 1..Len(bar \o end) : (bar \o end)[i] = m[i]
      BY <2>1, <2>2, <2>7, <3>1, Zenon
    <3>. QED BY <2>1, <2>4, <2>7, <3>2, TextsEqual, Zenon
  <2>6. type \o bar = end
    <3>1. \A i \in 1..2 : i = 1 \/ i = 2
      OBVIOUS
    <3>2. \A i \in 1..Len(type \o bar) : (type \o bar)[i] = end[i]
      BY <2>1, <2>3, <2>8, <3>1, Zenon
    <3>. QED BY <2>1, <2>4, <2>8, <3>2, TextsEqual, Zenon
  <2>. QED BY <2>5, <2>6
<1>3. JoinKey(<<o, type, d>>) = (o \o bar \o type) \o bar \o d
  <2>2. \A b \in Seq(Token) : JoinKey(<<o, b, d>>) = (o \o <<Bar>> \o b) \o <<Bar>> \o d
    BY JoinThree, ZenonT(30)
  <2>1. JoinKey(<<o, type, d>>) = (o \o <<Bar>> \o type) \o <<Bar>> \o d
    BY <2>2
  <2>. QED BY <1>1, <2>1, Zenon
<1>4. (o \o bar \o type) \o bar = o \o m
  <2>1. o \o bar \in Seq(Token)
    BY ConcatProperties
  <2>2. ((o \o bar) \o type) \o bar = (o \o bar) \o (type \o bar)
    BY <1>1, <2>1, TextsAssociate
  <2>3. (o \o bar) \o end = o \o (bar \o end)
    BY <1>1, TextsAssociate
  <2>. QED BY <1>2, <2>2, <2>3, Zenon
<1>5. o \o m \o d \in Seq(Token)
  <2>1. o \o m \in Seq(Token)
    BY ConcatProperties
  <2>. QED BY <2>1, ConcatProperties
<1>. QED BY <1>1, <1>3, <1>4, <1>5, Zenon DEF KeyOf

\* k has owner o, a bar, type t, a bar, and RDATA d in it.
IsKey(k, o, t, d) ==
  /\ Len(k) = Len(o) + 3 + Len(d)
  /\ \A i \in 1..Len(o) : k[i] = o[i]
  /\ k[Len(o) + 1] = Bar /\ k[Len(o) + 2] = t
  /\ \A i \in 1..Len(d) : k[Len(o) + 3 + i] = d[i]

\* Where the parts of a record are in its key.
LEMMA KeyParts ==
  ASSUME NEW o \in Seq(Token), NEW t \in Token, NEW d \in Seq(Token)
  PROVE  IsKey(KeyOf(o, t, d), o, t, d)
<1>1. PICK m \in Seq(Token) : m = <<Bar, t, Bar>> /\ Len(m) = 3 /\ m[1] = Bar /\ m[2] = t
  <2>1. Bar \in Token
    BY PacketsAssumption
  <2>2. <<Bar, t, Bar>> \in Seq(Token)
    BY <2>1
  <2>. QED BY <2>2
<1>2. PICK s \in Seq(Token) : s = o \o m
  BY TextsConcat
<1>3. PICK k : k = s \o d
  OBVIOUS
<1>4. KeyOf(o, t, d) = k
  BY <1>1, <1>2, <1>3 DEF KeyOf
<1>5. IsConcat(s, o, m) /\ IsConcat(k, s, d)
  BY <1>2, <1>3, TextsAt, Zenon
<1>6. Len(o) \in Nat /\ Len(d) \in Nat
  BY LenProperties
<1>7. Len(s) = Len(o) + 3 /\ Len(k) = Len(o) + 3 + Len(d)
  BY <1>1, <1>5, <1>6 DEF IsConcat
<1>8. \A i \in 1..Len(o) : k[i] = o[i]
  <2>1. \A i \in 1..Len(o) : i \in 1..Len(s)
    BY <1>6, <1>7
  <2>. QED BY <1>5, <2>1, Zenon DEF IsConcat
<1>9. k[Len(o) + 1] = Bar /\ k[Len(o) + 2] = t
  <2>1. Len(o) + 1 \in 1..Len(s) /\ Len(o) + 2 \in 1..Len(s)
    BY <1>6, <1>7
  <2>2. 1 \in 1..Len(m) /\ 2 \in 1..Len(m)
    BY <1>1
  <2>. QED BY <1>1, <1>5, <2>1, <2>2, Zenon DEF IsConcat
<1>10. \A i \in 1..Len(d) : k[Len(o) + 3 + i] = d[i]
  BY <1>5, <1>7, Zenon DEF IsConcat
<1>. QED BY <1>4, <1>7, <1>8, <1>9, <1>10, Zenon DEF IsKey

\* Without a bar in either owner, two keys are equal only if their parts are.
LEMMA KeysTellApart ==
  ASSUME NEW o1 \in Seq(Token), NEW t1 \in Token, NEW d1 \in Seq(Token),
         NEW o2 \in Seq(Token), NEW t2 \in Token, NEW d2 \in Seq(Token),
         KeyOf(o1, t1, d1) = KeyOf(o2, t2, d2), Bar \notin ToSet(o1 \o o2)
  PROVE  o1 = o2 /\ t1 = t2 /\ d1 = d2
<1>1. PICK both \in Seq(Token) : both = o1 \o o2
  BY TextsConcat
<1>2. Len(o1) \in Nat /\ Len(o2) \in Nat /\ IsConcat(both, o1, o2)
  BY <1>1, TextsAt, LenProperties, Zenon
<1>3. \A i \in 1..Len(both) : both[i] # Bar
  BY <1>1, LenProperties DEF ToSet
<1>4. \A i \in 1..Len(o1) : o1[i] # Bar
  <2>1. \A i \in 1..Len(o1) : i \in 1..Len(both)
    BY <1>2 DEF IsConcat
  <2>. QED BY <1>2, <1>3, <2>1, Zenon DEF IsConcat
<1>5. \A i \in 1..Len(o2) : o2[i] # Bar
  <2>1. \A i \in 1..Len(o2) : Len(o1) + i \in 1..Len(both)
    BY <1>2 DEF IsConcat
  <2>. QED BY <1>2, <1>3, <2>1, Zenon DEF IsConcat
<1>6. PICK k : k = KeyOf(o1, t1, d1)
  OBVIOUS
<1>7. IsKey(k, o1, t1, d1) /\ IsKey(k, o2, t2, d2)
  BY <1>6, KeyParts, Zenon
<1>8. Len(o1) = Len(o2)
  <2>1. CASE Len(o1) < Len(o2)
    <3>1. Len(o1) + 1 \in 1..Len(o2)
      BY <1>2, <2>1
    <3>. QED BY <1>5, <1>7, <3>1, Zenon DEF IsKey
  <2>2. CASE Len(o2) < Len(o1)
    <3>1. Len(o2) + 1 \in 1..Len(o1)
      BY <1>2, <2>2
    <3>. QED BY <1>4, <1>7, <3>1, Zenon DEF IsKey
  <2>. QED BY <1>2, <2>1, <2>2
<1>9. o1 = o2
  <2>1. \A i \in 1..Len(o1) : o1[i] = o2[i]
    BY <1>7, <1>8, Zenon DEF IsKey
  <2>. QED BY <1>8, <2>1, TextsEqual, Zenon
<1>10. Len(d1) = Len(d2)
  <2>1. Len(d1) \in Nat /\ Len(d2) \in Nat
    BY LenProperties
  <2>2. Len(o1) + 3 + Len(d1) = Len(o1) + 3 + Len(d2)
    BY <1>7, <1>8, Zenon DEF IsKey
  <2>. QED BY <1>2, <2>1, <2>2
<1>11. d1 = d2
  <2>1. \A i \in 1..Len(d1) : d1[i] = d2[i]
    BY <1>7, <1>8, <1>10, Zenon DEF IsKey
  <2>. QED BY <1>10, <2>1, TextsEqual, Zenon
<1>12. t1 = t2
  BY <1>7, <1>8, Zenon DEF IsKey
<1>. QED BY <1>9, <1>11, <1>12

\* The same of records: two of them have one key only if they are one record,
\* or if a bar in an owner makes them collide.
LEMMA RecordKeys ==
  ASSUME NEW r1 \in ResourceRecordView, NEW r2 \in ResourceRecordView
  PROVE  /\ record_content_key(r1) \in Seq(Token)
         /\ record_content_key(r1) = record_content_key(r2) <=> Joined(r1) = Joined(r2)
         /\ Joined(r1) = Joined(r2) =>
              r1 = r2 \/ (Collide(r1, r2) /\ Bar \in ToSet(r1.owner \o r2.owner))
<1>1. /\ r1.owner \in Seq(Token) /\ r1.type \in Token /\ r1.rdata \in Seq(Token)
      /\ r2.owner \in Seq(Token) /\ r2.type \in Token /\ r2.rdata \in Seq(Token)
  BY DEF ResourceRecordView
<1>2. /\ record_content_key(r1) = KeyOf(r1.owner, r1.type, r1.rdata)
      /\ record_content_key(r2) = KeyOf(r2.owner, r2.type, r2.rdata)
      /\ record_content_key(r1) \in Seq(Token)
  <2>1. /\ JoinKey(<<r1.owner, <<r1.type>>, r1.rdata>>) = KeyOf(r1.owner, r1.type, r1.rdata)
        /\ KeyOf(r1.owner, r1.type, r1.rdata) \in Seq(Token)
    BY <1>1, KeyIs, Zenon
  <2>2. JoinKey(<<r2.owner, <<r2.type>>, r2.rdata>>) = KeyOf(r2.owner, r2.type, r2.rdata)
    BY <1>1, KeyIs, Zenon
  <2>. QED BY <2>1, <2>2, Zenon DEF record_content_key
<1>3. /\ Joined(r1) = KeyOf(r1.owner, r1.type, r1.rdata)
      /\ Joined(r2) = KeyOf(r2.owner, r2.type, r2.rdata)
  BY DEF Joined, KeyOf
<1>4. ASSUME Joined(r1) = Joined(r2), Bar \notin ToSet(r1.owner \o r2.owner)
      PROVE  r1 = r2
  <2>1. PICK o1, d1, o2, d2 \in Seq(Token) :
          o1 = r1.owner /\ d1 = r1.rdata /\ o2 = r2.owner /\ d2 = r2.rdata
    BY <1>1, Zenon
  <2>2. PICK t1, t2 \in Token : t1 = r1.type /\ t2 = r2.type
    BY <1>1, Zenon
  <2>3. KeyOf(o1, t1, d1) = KeyOf(o2, t2, d2) /\ Bar \notin ToSet(o1 \o o2)
    BY <1>3, <1>4, <2>1, <2>2, Zenon
  <2>4. o1 = o2 /\ t1 = t2 /\ d1 = d2
    BY <2>3, KeysTellApart
  <2>5. r1.owner = r2.owner /\ r1.type = r2.type /\ r1.rdata = r2.rdata
    BY <2>1, <2>2, <2>4, Zenon
  <2>. QED BY <2>5 DEF ResourceRecordView
<1>. QED BY <1>2, <1>3, <1>4, Zenon DEF Collide

\* The key in the store tells devices apart, and the records of one as their
\* own keys do.
LEMMA StoreKeysTellApart ==
  ASSUME NEW a \in Token, NEW b \in Token,
         NEW r1 \in ResourceRecordView, NEW r2 \in ResourceRecordView
  PROVE  record_store_key(a, r1) = record_store_key(b, r2)
           <=> a = b /\ record_content_key(r1) = record_content_key(r2)
<1>1. PICK k1, k2, ia, ib, bar \in Seq(Token) :
        /\ k1 = record_content_key(r1) /\ k2 = record_content_key(r2)
        /\ ia = <<a>> /\ ib = <<b>> /\ bar = <<Bar>>
  <2>1. <<a>> \in Seq(Token) /\ <<b>> \in Seq(Token) /\ <<Bar>> \in Seq(Token)
    BY PacketsAssumption
  <2>. QED BY <2>1, RecordKeys
<1>2. /\ record_store_key(a, r1) = (ia \o bar) \o k1
      /\ record_store_key(b, r2) = (ib \o bar) \o k2
  BY <1>1, JoinTwo DEF record_store_key
<1>3. /\ ia \o bar \in Seq(Token) /\ Len(ia \o bar) = 2 /\ (ia \o bar)[1] = a
      /\ ib \o bar \in Seq(Token) /\ Len(ib \o bar) = 2 /\ (ib \o bar)[1] = b
  BY <1>1, ConcatProperties
<1>4. ASSUME (ia \o bar) \o k1 = (ib \o bar) \o k2
      PROVE  a = b /\ k1 = k2
  <2>1. ((ia \o bar) \o k1)[1] = a /\ ((ib \o bar) \o k2)[1] = b
    <3>1. IsConcat((ia \o bar) \o k1, ia \o bar, k1) /\ IsConcat((ib \o bar) \o k2, ib \o bar, k2)
      BY <1>3, TextsAt, Zenon
    <3>2. 1 \in 1..2
      OBVIOUS
    <3>. QED BY <1>3, <3>1, <3>2, Zenon DEF IsConcat
  <2>2. a = b
    BY <1>4, <2>1
  <2>3. (ia \o bar) \o k1 = (ia \o bar) \o k2
    BY <1>1, <1>4, <2>2
  <2>4. \A s, t, v \in Seq(Token) : s \o t = s \o v => t = v
    BY ConcatSimplifications
  <2>. QED BY <1>1, <1>3, <2>2, <2>3, <2>4, Zenon
<1>. QED BY <1>1, <1>2, <1>4, Zenon

--------------------------------------------------------------------------------
(* The first record of each key (MdnsPacketInterpreter.cpp,                *)
(* DeviceStateStore.cpp)                                                   *)

\* out has one record of `told' for each of their keys K that is not known,
\* and nothing else.
OnePerKey(out, told, K, known) ==
  /\ out \in Seq(ResourceRecordView)
  /\ \A i \in 1..Len(out) : out[i] \in told /\ K[out[i]] \notin known
  /\ \A i, j \in 1..Len(out) : K[out[i]] = K[out[j]] => i = j
  /\ \A rec \in told : K[rec] \in known \/ \E i \in 1..Len(out) : K[out[i]] = K[rec]

\* What one more record does to that.
LEMMA OneMore ==
  ASSUME NEW out, NEW told, NEW K, NEW known, OnePerKey(out, told, K, known),
         NEW rec \in ResourceRecordView,
         NEW more, more = Append(out, rec) \/ more = out,
         more = Append(out, rec)
           <=> K[rec] \notin known /\ \A r \in told : K[r] # K[rec]
  PROVE  OnePerKey(more, told \cup {rec}, K, known)
<1>1. /\ out \in Seq(ResourceRecordView) /\ Len(out) \in Nat
      /\ Append(out, rec) \in Seq(ResourceRecordView)
      /\ Len(Append(out, rec)) = Len(out) + 1 /\ Append(out, rec)[Len(out) + 1] = rec
      /\ \A i \in 1..Len(out) : Append(out, rec)[i] = out[i]
  BY AppendProperties, LenProperties DEF OnePerKey
<1>2. CASE more = Append(out, rec)
  <2>1. K[rec] \notin known /\ \A r \in told : K[r] # K[rec]
    BY <1>2
  <2>2. PICK n \in Nat : n = Len(out)
    BY <1>1
  <2>3. Len(more) = n + 1 /\ more[n + 1] = rec /\ \A i \in 1..n : more[i] = out[i]
    BY <1>1, <1>2, <2>2, Zenon
  <2>4. /\ \A i \in 1..n : out[i] \in told /\ K[out[i]] \notin known
        /\ \A i, j \in 1..n : K[out[i]] = K[out[j]] => i = j
        /\ \A r \in told : K[r] \in known \/ \E i \in 1..n : K[out[i]] = K[r]
    BY <2>2, Zenon DEF OnePerKey
  <2>5. n + 1 \in 1..(n + 1) /\ \A i \in 1..(n + 1) : i \in 1..n \/ i = n + 1
    OBVIOUS
  <2>6. \A i \in 1..n : i \in 1..(n + 1)
    OBVIOUS
  <2>7. \A i \in 1..(n + 1) : more[i] \in told \cup {rec} /\ K[more[i]] \notin known
    BY <2>1, <2>3, <2>4, <2>5, Zenon
  <2>8. ASSUME NEW i \in 1..(n + 1), NEW j \in 1..(n + 1), K[more[i]] = K[more[j]]
        PROVE  i = j
    <3>1. CASE i \in 1..n /\ j \in 1..n
      BY <2>3, <2>4, <2>8, <3>1, Zenon
    <3>2. CASE i = n + 1 /\ j \in 1..n
      BY <2>1, <2>3, <2>4, <2>8, <3>2, Zenon
    <3>3. CASE i \in 1..n /\ j = n + 1
      BY <2>1, <2>3, <2>4, <2>8, <3>3, Zenon
    <3>. QED BY <2>5, <3>1, <3>2, <3>3, Zenon
  <2>9. ASSUME NEW r \in told \cup {rec}
        PROVE  K[r] \in known \/ \E i \in 1..(n + 1) : K[more[i]] = K[r]
    <3>1. CASE r = rec
      BY <2>3, <2>5, <3>1, Zenon
    <3>2. CASE r \in told
      BY <2>3, <2>4, <2>6, <3>2, Zenon
    <3>. QED BY <3>1, <3>2
  <2>10. more \in Seq(ResourceRecordView)
    BY <1>1, <1>2
  <2>. QED BY <2>3, <2>7, <2>8, <2>9, <2>10 DEF OnePerKey
<1>3. CASE more # Append(out, rec)
  <2>1. K[rec] \in known \/ \E r \in told : K[r] = K[rec]
    BY <1>3
  <2>2. more = out
    BY <1>3
  <2>3. K[rec] \in known \/ \E i \in 1..Len(out) : K[out[i]] = K[rec]
    BY <2>1 DEF OnePerKey
  <2>. QED BY <2>2, <2>3, Zenon DEF OnePerKey
<1>. QED BY <1>2, <1>3

\* A place in `shown' whose key is not known, and not that of an earlier one.
IsFirst(n, shown, keys, known) ==
  n \in shown /\ keys[n] \notin known /\ \A j \in shown : j < n => keys[j] # keys[n]

\* FirstOfKey goes through the places one by one.
LEMMA FirstOfKeySteps ==
  ASSUME NEW records \in Seq(ResourceRecordView), NEW shown, NEW known, NEW keys
  PROVE  \E c : /\ c[0] = <<>>
                /\ \A n \in 1..Len(records) :
                     c[n] = IF IsFirst(n, shown, keys, known) THEN Append(c[n - 1], records[n])
                            ELSE c[n - 1]
                /\ FirstOfKey(records, shown, keys, known) = c[Len(records)]
<1> DEFINE new(n) == /\ n \in shown /\ keys[n] \notin known
                     /\ \A j \in shown : j < n => keys[j] # keys[n]
           next(kept, n) == IF new(n) THEN Append(kept[n - 1], records[n]) ELSE kept[n - 1]
           value(kept, n) == IF n = 0 THEN <<>> ELSE next(kept, n)
           m == Len(records)
           c == CHOOSE kept : kept = [n \in 0..m |-> value(kept, n)]
           Seqs == Seq(ResourceRecordView)
           step == [n \in 1..m |-> [kept \in Seqs |->
                     IF new(n) THEN Append(kept, records[n]) ELSE kept]]
<1>1. m \in Nat /\ DOMAIN records = 1..m /\ \A n \in 1..m : records[n] \in ResourceRecordView
  BY LenProperties, ElementOfSeq
<1>2. c = [n \in 0..m |-> value(c, n)]
  <2>1. step \in [1..m -> [Seqs -> Seqs]]
    <3>1. \A n \in 1..m : \A kept \in Seqs : Append(kept, records[n]) \in Seqs
      BY <1>1, AppendProperties
    <3> HIDE DEF new, m, Seqs
    <3>. QED BY <3>1
  <2>2. <<>> \in Seqs
    OBVIOUS
  <2> HIDE DEF m, Seqs, step
  <2>3. PICK f \in [0..m -> Seqs] : f[0] = <<>> /\ \A n \in 1..m : f[n] = step[n][f[n - 1]]
    <3>1. PICK base \in Seqs : base = <<>>
      BY <2>2
    <3>2. \E f : IsIteration(f, Seqs, base, m, step)
      BY <1>1, <2>1, Recursion, Zenon
    <3>. QED BY <3>1, <3>2, Zenon DEF IsIteration
  <2>4. \A n \in 1..m : f[n] = next(f, n)
    <3>1. \A n \in 1..m : f[n - 1] \in Seqs
      BY <1>1
    <3> HIDE DEF new
    <3>. QED BY <2>3, <3>1 DEF step
  <2> HIDE DEF next
  <2>5. \A n \in 0..m : f[n] = value(f, n)
    BY <1>1, <2>3, <2>4
  <2> HIDE DEF value
  <2>6. f = [n \in 0..m |-> value(f, n)]
    BY <2>5
  <2>. QED BY <2>6, Zenon
<1>3. FirstOfKey(records, shown, keys, known) = c[m]
  BY Zenon DEF FirstOfKey
<1> HIDE DEF c, m
<1>4. c[0] = <<>>
  <2>1. 0 \in 0..m
    BY <1>1
  <2>. QED BY <1>2, <2>1, Zenon
<1>5. \A n \in 1..m : c[n] = next(c, n)
  <2>1. \A n \in 1..m : n \in 0..m /\ n # 0
    BY <1>1
  <2> HIDE DEF next
  <2>. QED BY <1>2, <2>1
<1>6. \A n \in 1..m : c[n] = IF IsFirst(n, shown, keys, known) THEN Append(c[n - 1], records[n])
                             ELSE c[n - 1]
  BY <1>5, Zenon DEF IsFirst
<1>. QED BY <1>3, <1>4, <1>6, Zenon DEF m

\* A key K of every record, and of the records at the places `shown' those that
\* FirstOfKey keeps: one of each key that is not known.
LEMMA FirstOfKeyIs ==
  ASSUME NEW records \in Seq(ResourceRecordView), NEW shown \in SUBSET (DOMAIN records),
         NEW known, NEW K, NEW keys, \A i \in DOMAIN records : keys[i] = K[records[i]]
  PROVE  OnePerKey(FirstOfKey(records, shown, keys, known),
                   {records[i] : i \in shown}, K, known)
<1> DEFINE new(n) == IsFirst(n, shown, keys, known)
           m == Len(records)
           told(n) == {records[i] : i \in {j \in shown : j <= n}}
           Seqs == Seq(ResourceRecordView)
<1>1. m \in Nat /\ DOMAIN records = 1..m /\ \A n \in 1..m : records[n] \in ResourceRecordView
  BY LenProperties, ElementOfSeq
<1>2. PICK c : /\ c[0] = <<>>
               /\ \A n \in 1..m : c[n] = IF new(n) THEN Append(c[n - 1], records[n]) ELSE c[n - 1]
               /\ FirstOfKey(records, shown, keys, known) = c[m]
  BY FirstOfKeySteps
<1>3. FirstOfKey(records, shown, keys, known) = c[m]
  BY <1>2
<1>4. c[0] = <<>>
  BY <1>2
<1>5. \A n \in 1..m : c[n] = IF new(n) THEN Append(c[n - 1], records[n]) ELSE c[n - 1]
  BY <1>2, Zenon
<1> DEFINE S == {n \in 0..m : OnePerKey(c[n], told(n), K, known)}
<1> HIDE DEF m
<1>6. 0 \in S
  <2>1. told(0) = {}
    BY <1>1
  <2>2. <<>> \in Seqs /\ Len(<<>>) = 0
    OBVIOUS
  <2> HIDE DEF told
  <2>3. OnePerKey(<<>>, {}, K, known)
    BY <2>2 DEF OnePerKey
  <2>4. 0 \in 0..m
    BY <1>1
  <2>. QED BY <1>4, <2>1, <2>3, <2>4, Zenon
<1>7. ASSUME NEW n \in 1..m, n - 1 \in S
      PROVE  n \in S
  <2>1. OnePerKey(c[n - 1], told(n - 1), K, known) /\ n \in 0..m
    BY <1>1, <1>7
  <2>2. records[n] \in ResourceRecordView
    BY <1>1
  <2>3. CASE n \in shown
    <3>1. told(n) = told(n - 1) \cup {records[n]}
      BY <1>1, <2>3
    <3>2. (\A j \in shown : j < n => keys[j] # keys[n])
            <=> \A r \in told(n - 1) : K[r] # K[records[n]]
      <4>1. \A j \in shown : j < n <=> j <= n - 1
        BY <1>1
      <4>2. \A j \in shown : keys[j] = K[records[j]]
        OBVIOUS
      <4>. QED BY <2>3, <4>1, <4>2
    <3>3. Append(c[n - 1], records[n]) # c[n - 1]
      BY <2>1, <2>2, AppendProperties, LenProperties DEF OnePerKey
    <3>4. new(n) <=> K[records[n]] \notin known /\ \A r \in told(n - 1) : K[r] # K[records[n]]
      <4> HIDE DEF told
      <4>. QED BY <1>1, <2>3, <3>2 DEF IsFirst
    <3> HIDE DEF told, new, S
    <3>5. /\ c[n] = Append(c[n - 1], records[n]) \/ c[n] = c[n - 1]
          /\ c[n] = Append(c[n - 1], records[n]) <=> new(n)
      BY <1>5, <3>3, Zenon
    <3>6. OnePerKey(c[n], told(n - 1) \cup {records[n]}, K, known)
      BY <2>1, <2>2, <3>4, <3>5, OneMore, Zenon
    <3>. QED BY <2>1, <3>1, <3>6, Zenon DEF S
  <2>4. CASE n \notin shown
    <3>1. told(n) = told(n - 1)
      <4>1. \A j \in shown : j <= n <=> j <= n - 1
        BY <1>1, <2>4
      <4>. QED BY <4>1
    <3>2. c[n] = c[n - 1]
      BY <1>5, <2>4 DEF IsFirst
    <3>. QED BY <2>1, <3>1, <3>2, Zenon
  <2>. QED BY <2>3, <2>4
<1>8. m \in S
  <2> HIDE DEF S
  <2>1. \A n \in 1..m : n - 1 \in S => n \in S
    BY <1>7, Zenon
  <2>2. \A n \in 0..m : n \in S
    BY <1>1, <1>6, <2>1, UpTo
  <2>3. m \in 0..m
    BY <1>1
  <2>. QED BY <2>2, <2>3, Zenon
<1>9. told(m) = {records[i] : i \in shown}
  <2>1. \A j \in shown : j <= m
    BY <1>1
  <2>. QED BY <2>1
<1>. QED BY <1>3, <1>8, <1>9, Zenon

--------------------------------------------------------------------------------
(* The inductive invariant of the worker                                   *)

Event == [ip : Ip, records : Seq(ResourceRecordView)]

TypeOK ==
  /\ heard \in Seq(Packets) /\ sent \in Seq(Event)
  /\ offered \in Nat /\ Len(sent) = offered /\ first \in 1..(offered + 1)
  /\ devices = [a \in Ip |-> devices[a]]

\* The filter has seen what was heard since the scanner was started, and it
\* has seen nothing else than what it let through.
HeardIsSeen ==
  \A p \in ToSet(heard) : \A rec \in Displayable(p) : record_store_key(p.ip, rec) \in seen_keys
SeenIsSent ==
  \A key : key \in seen_keys <=> \E n \in first..offered : key \in StoreKeys(sent[n])

\* What was let through of a device.
SentTo(a) == UNION {ToSet(sent[n].records) : n \in SentOf(a)}

\* No key went through twice, and nothing that was not heard.
NeverTwice ==
  \A n, m \in first..offered :
    \A i \in 1..Len(sent[n].records), j \in 1..Len(sent[m].records) :
      record_store_key(sent[n].ip, sent[n].records[i])
          = record_store_key(sent[m].ip, sent[m].records[j])
        => n = m /\ i = j
SentWasHeard == \A a \in Ip : SentTo(a) \subseteq HeardOf(a)

\* The hosts a record gives its device.
HostsOf(rec) ==
  IF rec.type = SRV THEN Nonempty({host_label(rec)})
  ELSE IF rec.type = A THEN {rec.owner} ELSE {}

IsOneOf(host, hosts) == IF hosts = {} THEN host = Empty ELSE host \in hosts

HostsIn(told) == UNION {HostsOf(rec) : rec \in told}
TypesIn(told) == UNION {ServiceTypesOf(rec) : rec \in told}
InstancesIn(told) == UNION {InstancesOf(rec) : rec \in told}

\* What a snapshot holds of a device that was told some records.
IsTold(snap, told) ==
  /\ snap.service_types = TypesIn(told) /\ snap.instances = InstancesIn(told)
  /\ IsOneOf(snap.mdns_host, HostsIn(told))

\* The console registry has been told what was let through.
RegistryIsTold == \A a \in Ip : IsTold(devices[a], SentTo(a))

IInv == /\ TypeOK /\ HeardIsSeen /\ SeenIsSent /\ NeverTwice /\ SentWasHeard
        /\ RegistryIsTold

--------------------------------------------------------------------------------
(* What the filter lets through                                            *)

\* ev holds what is new in response p, one record of each key, when the filter
\* has seen the keys `seen'.
IsFresh(ev, p, seen) ==
  /\ ev \in Event /\ ev.ip = p.ip
  /\ ToSet(ev.records) \subseteq Displayable(p)
  /\ \A i \in 1..Len(ev.records) : record_store_key(p.ip, ev.records[i]) \notin seen
  /\ \A i, j \in 1..Len(ev.records) :
       record_store_key(p.ip, ev.records[i]) = record_store_key(p.ip, ev.records[j]) => i = j
  /\ \A rec \in Displayable(p) : record_store_key(p.ip, rec) \in seen \cup StoreKeys(ev)

\* What packets are made of.
LEMMA PacketType ==
  ASSUME NEW p \in Packets
  PROVE  /\ p.ip \in Ip /\ p.ip \in Token /\ p.records \in Seq(ResourceRecordView)
         /\ Displayable(p) \subseteq ResourceRecordView
<1>1. p \in [ip : Token, records : Seq(ResourceRecordView)]
  BY PacketsAssumption
<1>2. p.ip \in Token /\ p.records \in Seq(ResourceRecordView)
  BY <1>1
<1>3. ToSet(p.records) \subseteq ResourceRecordView
  BY <1>2, ElementOfSeq, LenProperties DEF ToSet
<1>. QED BY <1>2, <1>3 DEF Ip, Displayable

\* The event of a response has one record of each key it shows.
LEMMA EventIs ==
  ASSUME NEW p \in Packets,
         NEW K, K = [rec \in ResourceRecordView |-> record_content_key(rec)]
  PROVE  /\ create_discovery_event(p).ip = p.ip
         /\ OnePerKey(create_discovery_event(p).records, Displayable(p), K, {})
<1> DEFINE records == p.records
           shown == {i \in DOMAIN records : is_displayable_record(records[i])}
           keys == [i \in DOMAIN records |-> record_content_key(records[i])]
<1>1. create_discovery_event(p) = [ip |-> p.ip, records |-> FirstOfKey(records, shown, keys, {})]
  BY DEF create_discovery_event
<1>2. records \in Seq(ResourceRecordView)
  BY PacketType
<1>3. \A i \in DOMAIN records : keys[i] = K[records[i]]
  <2>1. \A i \in DOMAIN records : records[i] \in ResourceRecordView
    BY <1>2, ElementOfSeq, LenProperties
  <2>. QED BY <2>1
<1>4. shown \in SUBSET (DOMAIN records)
  OBVIOUS
<1>5. {records[i] : i \in shown} = Displayable(p)
  BY DEF Displayable, ToSet
<1> HIDE DEF records, shown, keys
<1>6. OnePerKey(FirstOfKey(records, shown, keys, {}), {records[i] : i \in shown}, K, {})
  BY <1>2, <1>3, <1>4, FirstOfKeyIs, Zenon
<1>. QED BY <1>1, <1>5, <1>6

\* What the filter lets through of it is what is new.
LEMMA FilterIs ==
  ASSUME NEW p \in Packets
  PROVE  LET ev == create_discovery_event(p) IN
         /\ IsFresh(filter_unseen(ev), p, seen_keys)
         /\ seen_keys \cup StoreKeys(ev) = seen_keys \cup StoreKeys(filter_unseen(ev))
<1> DEFINE ev == create_discovery_event(p)
           out == filter_unseen(ev)
           records == ev.records
           shown == DOMAIN records
           keys == [i \in DOMAIN records |-> record_store_key(ev.ip, records[i])]
<1>1. PICK C : C = [rec \in ResourceRecordView |-> record_content_key(rec)]
  OBVIOUS
<1>2. PICK K : K = [rec \in ResourceRecordView |-> record_store_key(p.ip, rec)]
  OBVIOUS
<1>3. ev.ip = p.ip /\ OnePerKey(records, Displayable(p), C, {})
  BY <1>1, EventIs, Zenon
<1>4. /\ records \in Seq(ResourceRecordView)
      /\ \A i \in DOMAIN records : records[i] \in ResourceRecordView /\ records[i] \in Displayable(p)
  BY <1>3, ElementOfSeq, LenProperties DEF OnePerKey
<1>5. \A i \in DOMAIN records : keys[i] = K[records[i]]
  BY <1>2, <1>3, <1>4
<1>6. out = [ip |-> p.ip, records |-> FirstOfKey(records, shown, keys, seen_keys)]
  <2>1. ev = [ip |-> p.ip, records |-> ev.records]
    BY DEF create_discovery_event
  <2> HIDE DEF ev
  <2>2. records = ev.records /\ ev.ip = p.ip
    BY <1>3
  <2>3. filter_unseen(ev)
          = [ip |-> p.ip, records |-> FirstOfKey(ev.records, DOMAIN ev.records, keys, seen_keys)]
    BY <2>1, <2>2 DEF filter_unseen
  <2>. QED BY <2>3
<1>7. OnePerKey(out.records, {records[i] : i \in shown}, K, seen_keys)
  <2> HIDE DEF records, keys
  <2>1. OnePerKey(FirstOfKey(records, shown, keys, seen_keys), {records[i] : i \in shown}, K, seen_keys)
    BY <1>4, <1>5, FirstOfKeyIs
  <2>2. out.records = FirstOfKey(records, shown, keys, seen_keys)
    BY <1>6
  <2>. QED BY <2>1, <2>2, Zenon
<1> HIDE DEF out, ev
<1>8. out \in Event /\ out.ip = p.ip /\ out.records \in Seq(ResourceRecordView)
  <2>1. out.records \in Seq(ResourceRecordView)
    BY <1>7, Zenon DEF OnePerKey
  <2>2. p.ip \in Ip
    BY PacketType
  <2>. QED BY <1>6, <2>1, <2>2 DEF Event
<1>9. /\ DOMAIN out.records = 1..Len(out.records) /\ DOMAIN records = 1..Len(records)
      /\ \A i \in 1..Len(out.records) : out.records[i] \in ResourceRecordView
  BY <1>4, <1>8, ElementOfSeq, LenProperties
<1>10. Displayable(p) \subseteq ResourceRecordView
  BY PacketType
<1>11. \A i \in 1..Len(out.records) : out.records[i] \in ToSet(records)
  BY <1>7, Zenon DEF OnePerKey, ToSet
<1>12. ToSet(records) \subseteq Displayable(p)
  BY <1>4 DEF ToSet
<1>13. ToSet(out.records) \subseteq ToSet(records)
  BY <1>9, <1>11, Zenon DEF ToSet
<1>14. \A rec \in ResourceRecordView : K[rec] = record_store_key(p.ip, rec)
  BY <1>2
<1>15. /\ \A i \in 1..Len(out.records) : record_store_key(p.ip, out.records[i]) \notin seen_keys
       /\ \A i, j \in 1..Len(out.records) :
            record_store_key(p.ip, out.records[i]) = record_store_key(p.ip, out.records[j]) => i = j
  <2>1. \A i \in 1..Len(out.records) : K[out.records[i]] = record_store_key(p.ip, out.records[i])
    BY <1>9, <1>14, Zenon
  <2>2. /\ \A i \in 1..Len(out.records) : K[out.records[i]] \notin seen_keys
        /\ \A i, j \in 1..Len(out.records) : K[out.records[i]] = K[out.records[j]] => i = j
    BY <1>7, Zenon DEF OnePerKey
  <2>3. ASSUME NEW i \in 1..Len(out.records), NEW j \in 1..Len(out.records),
               record_store_key(p.ip, out.records[i]) = record_store_key(p.ip, out.records[j])
        PROVE  i = j
    BY <2>1, <2>2, <2>3, Zenon
  <2>. QED BY <2>1, <2>2, <2>3, Zenon
<1>16. \A rec \in ToSet(records) :
         record_store_key(p.ip, rec) \in seen_keys \cup StoreKeys(out)
  <2>1. SUFFICES ASSUME NEW rec \in ToSet(records), record_store_key(p.ip, rec) \notin seen_keys
                 PROVE  record_store_key(p.ip, rec) \in StoreKeys(out)
    BY Zenon
  <2>2. rec \in ResourceRecordView /\ rec \in {records[i] : i \in shown}
    BY <1>10, <1>12 DEF ToSet
  <2>3. PICK i \in 1..Len(out.records) : K[out.records[i]] = K[rec]
    BY <1>7, <1>14, <2>1, <2>2, Zenon DEF OnePerKey
  <2>4. record_store_key(p.ip, out.records[i]) = record_store_key(p.ip, rec)
    BY <1>9, <1>14, <2>2, <2>3, Zenon
  <2>5. out.records[i] \in ToSet(out.records)
    BY <1>9, Zenon DEF ToSet
  <2>. QED BY <1>8, <2>4, <2>5 DEF StoreKeys
<1>17. \A rec \in Displayable(p) : \E r \in ToSet(records) :
         record_store_key(p.ip, rec) = record_store_key(p.ip, r)
  <2>. SUFFICES ASSUME NEW rec \in Displayable(p)
                PROVE  \E r \in ToSet(records) :
                         record_store_key(p.ip, rec) = record_store_key(p.ip, r)
    OBVIOUS
  <2>1. PICK i \in 1..Len(records) : C[records[i]] = C[rec]
    <3>1. C[rec] \notin {}
      OBVIOUS
    <3>. QED BY <1>3, <3>1, Zenon DEF OnePerKey
  <2>2. records[i] \in ToSet(records) /\ records[i] \in ResourceRecordView
    BY <1>4, <1>9 DEF ToSet
  <2>3. record_content_key(records[i]) = record_content_key(rec)
    BY <1>1, <1>10, <2>1, <2>2
  <2>4. record_store_key(p.ip, rec) = record_store_key(p.ip, records[i])
    BY <2>3, Zenon DEF record_store_key
  <2>. QED BY <2>2, <2>4
<1>18. StoreKeys(ev) = {record_store_key(p.ip, rec) : rec \in ToSet(records)}
  BY <1>3 DEF StoreKeys
<1>19. StoreKeys(out) = {record_store_key(p.ip, rec) : rec \in ToSet(out.records)}
  BY <1>8 DEF StoreKeys
<1> HIDE DEF records
<1>20. seen_keys \cup StoreKeys(ev) = seen_keys \cup StoreKeys(out)
  BY <1>13, <1>16, <1>18, <1>19
<1>21. IsFresh(out, p, seen_keys)
  <2>1. \A rec \in Displayable(p) : record_store_key(p.ip, rec) \in seen_keys \cup StoreKeys(out)
    BY <1>16, <1>17, Zenon
  <2>2. ToSet(out.records) \subseteq Displayable(p)
    BY <1>12, <1>13
  <2>. QED BY <1>8, <1>15, <2>1, <2>2, Zenon DEF IsFresh
<1>. QED BY <1>20, <1>21, Zenon DEF ev, out

--------------------------------------------------------------------------------
(* What the console registry is told                                       *)

\* One record gives a device its host.
LEMMA OneHost ==
  ASSUME NEW host, NEW hosts, IsOneOf(host, hosts),
         NEW rec, is_displayable_record(rec)
  PROVE  IsOneOf(HostAfterRecord(host, rec), hosts \cup HostsOf(rec))
<1>1. rec.type = A => ends_with(rec.owner, DotLocal)
  BY DEF is_displayable_record, is_audit_relevant_record, A, AAAA, PTR, SRV, TXT
<1>2. CASE rec.type = SRV
  BY <1>2 DEF HostAfterRecord, HostsOf, IsOneOf, Nonempty, A, SRV
<1>3. CASE rec.type = A
  BY <1>1, <1>3 DEF HostAfterRecord, HostsOf, IsOneOf, A, SRV
<1>4. CASE rec.type # SRV /\ rec.type # A
  BY <1>4 DEF HostAfterRecord, HostsOf, IsOneOf
<1>. QED BY <1>2, <1>3, <1>4

\* What is in two sets of records.
LEMMA InBoth ==
  ASSUME NEW told, NEW more
  PROVE  /\ HostsIn(told \cup more) = HostsIn(told) \cup HostsIn(more)
         /\ TypesIn(told \cup more) = TypesIn(told) \cup TypesIn(more)
         /\ InstancesIn(told \cup more) = InstancesIn(told) \cup InstancesIn(more)
<1>1. \A x : x \in HostsIn(told \cup more) <=> x \in HostsIn(told) \cup HostsIn(more)
  BY Zenon DEF HostsIn
<1>2. \A x : x \in TypesIn(told \cup more) <=> x \in TypesIn(told) \cup TypesIn(more)
  BY Zenon DEF TypesIn
<1>3. \A x : x \in InstancesIn(told \cup more) <=> x \in InstancesIn(told) \cup InstancesIn(more)
  BY Zenon DEF InstancesIn
<1>. QED BY <1>1, <1>2, <1>3

\* What is in one record, and in none.
LEMMA InOne ==
  /\ \A rec : HostsIn({rec}) = HostsOf(rec)
  /\ HostsIn({}) = {} /\ TypesIn({}) = {} /\ InstancesIn({}) = {}
<1>1. \A rec, x : x \in HostsIn({rec}) <=> x \in HostsOf(rec)
  BY Zenon DEF HostsIn
<1>2. \A rec : HostsIn({rec}) = HostsOf(rec)
  BY <1>1
<1>3. HostsIn({}) = {} /\ TypesIn({}) = {} /\ InstancesIn({}) = {}
  BY DEF HostsIn, TypesIn, InstancesIn
<1>. QED BY <1>2, <1>3

\* An event tells a snapshot of all of its records.
LEMMA MergeTells ==
  ASSUME NEW snap, NEW told, IsTold(snap, told),
         NEW ev, ev.records \in Seq(ResourceRecordView),
         \A rec \in ToSet(ev.records) : is_displayable_record(rec)
  PROVE  IsTold(merge_records(snap, ev), told \cup ToSet(ev.records))
<1> DEFINE m == Len(ev.records)
           value(host, n) == IF n = 0 THEN snap.mdns_host ELSE HostAfterRecord(host[n - 1], ev.records[n])
           c == CHOOSE host : host = [n \in 0..m |-> value(host, n)]
           X == {snap.mdns_host} \cup {host_label(rec) : rec \in ToSet(ev.records)}
                  \cup {rec.owner : rec \in ToSet(ev.records)}
           step == [n \in 1..m |-> [host \in X |-> HostAfterRecord(host, ev.records[n])]]
           before(n) == told \cup {ev.records[i] : i \in 1..n}
           S == {n \in 0..m : IsOneOf(c[n], HostsIn(before(n)))}
<1>1. /\ m \in Nat /\ DOMAIN ev.records = 1..m
      /\ \A n \in 1..m : ev.records[n] \in ToSet(ev.records)
  BY LenProperties DEF ToSet
<1>2. c = [n \in 0..m |-> value(c, n)]
  <2>1. step \in [1..m -> [X -> X]]
    <3>1. \A n \in 1..m : \A host \in X : HostAfterRecord(host, ev.records[n]) \in X
      BY <1>1 DEF HostAfterRecord
    <3> HIDE DEF m, X
    <3>. QED BY <3>1
  <2>2. snap.mdns_host \in X
    OBVIOUS
  <2> HIDE DEF m, X, step
  <2>3. PICK f : IsIteration(f, X, snap.mdns_host, m, step)
    BY <1>1, <2>1, <2>2, Recursion, Zenon
  <2>4. /\ f \in [0..m -> X] /\ f[0] = snap.mdns_host
        /\ \A n \in 1..m : f[n] = step[n][f[n - 1]]
    BY <2>3, Zenon DEF IsIteration
  <2>5. \A n \in 1..m : f[n] = HostAfterRecord(f[n - 1], ev.records[n])
    <3>1. \A n \in 1..m : f[n - 1] \in X
      BY <1>1, <2>4
    <3>. QED BY <2>4, <3>1 DEF step
  <2>6. \A n \in 0..m : f[n] = value(f, n)
    BY <1>1, <2>4, <2>5
  <2> HIDE DEF value
  <2>7. f = [n \in 0..m |-> value(f, n)]
    BY <2>4, <2>6
  <2>. QED BY <2>7, Zenon
<1> HIDE DEF c
<1>3. c[0] = snap.mdns_host /\ \A n \in 1..m : c[n] = HostAfterRecord(c[n - 1], ev.records[n])
  <2>1. 0 \in 0..m /\ \A n \in 1..m : n \in 0..m /\ n # 0
    BY <1>1
  <2> HIDE DEF m
  <2>. QED BY <1>2, <2>1
<1>4. merge_records(snap, ev)
        = [mdns_host |-> c[m],
           service_types |-> snap.service_types \cup TypesIn(ToSet(ev.records)),
           instances |-> snap.instances \cup InstancesIn(ToSet(ev.records))]
  BY Zenon DEF merge_records, c, TypesIn, InstancesIn
<1>5. 0 \in S
  <2>1. before(0) = told
    OBVIOUS
  <2> HIDE DEF before
  <2>2. IsOneOf(c[0], HostsIn(before(0)))
    BY <1>3, <2>1, Zenon DEF IsTold
  <2>3. 0 \in 0..m
    BY <1>1
  <2>. QED BY <2>2, <2>3
<1>6. ASSUME NEW n \in 1..m, n - 1 \in S
      PROVE  n \in S
  <2>1. before(n) = before(n - 1) \cup {ev.records[n]}
    <3>1. \A i \in 1..n : i \in 1..(n - 1) \/ i = n
      BY <1>1
    <3>2. n \in 1..n /\ \A i \in 1..(n - 1) : i \in 1..n
      BY <1>1
    <3>. QED BY <3>1, <3>2
  <2>2. IsOneOf(c[n - 1], HostsIn(before(n - 1))) /\ n \in 0..m
    BY <1>1, <1>6
  <2> HIDE DEF before
  <2>3. is_displayable_record(ev.records[n])
    BY <1>1
  <2>4. IsOneOf(HostAfterRecord(c[n - 1], ev.records[n]),
                HostsIn(before(n - 1)) \cup HostsOf(ev.records[n]))
    BY <2>2, <2>3, OneHost, Zenon
  <2>5. HostsIn(before(n)) = HostsIn(before(n - 1)) \cup HostsOf(ev.records[n])
    <3>1. HostsIn(before(n - 1) \cup {ev.records[n]})
            = HostsIn(before(n - 1)) \cup HostsIn({ev.records[n]})
      BY InBoth, Zenon
    <3>2. HostsIn({ev.records[n]}) = HostsOf(ev.records[n])
      BY InOne, Zenon
    <3>. QED BY <2>1, <3>1, <3>2, Zenon
  <2>6. IsOneOf(c[n], HostsIn(before(n)))
    BY <1>3, <2>4, <2>5, Zenon
  <2>. QED BY <2>2, <2>6
<1>7. IsOneOf(c[m], HostsIn(before(m)))
  <2> HIDE DEF S
  <2>1. \A n \in 1..m : n - 1 \in S => n \in S
    BY <1>6, Zenon
  <2>2. \A n \in 0..m : n \in S
    BY <1>1, <1>5, <2>1, UpTo
  <2>3. m \in 0..m
    BY <1>1
  <2>. QED BY <2>2, <2>3, Zenon DEF S
<1>8. before(m) = told \cup ToSet(ev.records)
  BY <1>1 DEF ToSet
<1> HIDE DEF before, m
<1>9. merge_records(snap, ev).mdns_host = c[m]
  BY <1>4
<1>10. merge_records(snap, ev).service_types = TypesIn(told \cup ToSet(ev.records))
  <2>1. merge_records(snap, ev).service_types = snap.service_types \cup TypesIn(ToSet(ev.records))
    BY <1>4
  <2>2. TypesIn(told \cup ToSet(ev.records)) = TypesIn(told) \cup TypesIn(ToSet(ev.records))
    BY InBoth, Zenon
  <2>. QED BY <2>1, <2>2, Zenon DEF IsTold
<1>11. merge_records(snap, ev).instances = InstancesIn(told \cup ToSet(ev.records))
  <2>1. merge_records(snap, ev).instances = snap.instances \cup InstancesIn(ToSet(ev.records))
    BY <1>4
  <2>2. InstancesIn(told \cup ToSet(ev.records)) = InstancesIn(told) \cup InstancesIn(ToSet(ev.records))
    BY InBoth, Zenon
  <2>. QED BY <2>1, <2>2, Zenon DEF IsTold
<1>. QED BY <1>7, <1>8, <1>9, <1>10, <1>11, Zenon DEF IsTold

--------------------------------------------------------------------------------
(* The invariant holds                                                     *)

\* Nothing heard, nothing seen, and nothing sent since.
JustStarted ==
  /\ heard = <<>> /\ seen_keys = {} /\ devices = [a \in Ip |-> NoSnapshot]
  /\ sent \in Seq(Event) /\ offered \in Nat /\ Len(sent) = offered /\ first = offered + 1

\* So it is at the start, and after a restart.
LEMMA NothingHeard == JustStarted => IInv
<1>. SUFFICES ASSUME JustStarted
              PROVE  IInv
  OBVIOUS
<1>0. /\ heard = <<>> /\ seen_keys = {} /\ devices = [a \in Ip |-> NoSnapshot]
      /\ sent \in Seq(Event) /\ offered \in Nat /\ Len(sent) = offered /\ first = offered + 1
  BY DEF JustStarted
<1>1. first..offered = {} /\ first \in 1..(offered + 1)
  BY <1>0
<1>2. ToSet(heard) = {} /\ heard \in Seq(Packets)
  BY <1>0 DEF ToSet
<1>3. TypeOK
  BY <1>0, <1>1, <1>2 DEF TypeOK
<1>4. HeardIsSeen
  BY <1>2 DEF HeardIsSeen
<1>5. SeenIsSent /\ NeverTwice
  BY <1>0, <1>1, Zenon DEF SeenIsSent, NeverTwice
<1>6. \A a : SentTo(a) = {}
  BY <1>1 DEF SentTo, SentOf
<1>9. SentWasHeard
  BY <1>6 DEF SentWasHeard
<1>7. IsTold(NoSnapshot, {})
  <2>1. NoSnapshot.mdns_host = Empty /\ NoSnapshot.service_types = {} /\ NoSnapshot.instances = {}
    BY DEF NoSnapshot
  <2>. QED BY <2>1, InOne, Zenon DEF IsTold, IsOneOf
<1>8. RegistryIsTold
  <2>1. \A a \in Ip : devices[a] = NoSnapshot
    BY <1>0
  <2>. QED BY <1>6, <1>7, <2>1, Zenon DEF RegistryIsTold
<1>. QED BY <1>3, <1>4, <1>5, <1>8, <1>9 DEF IInv

\* What a step that appends to heard makes of it.
LEMMA HeardMore ==
  ASSUME heard \in Seq(Packets), NEW p \in Packets, heard' = Append(heard, p)
  PROVE  /\ heard' \in Seq(Packets) /\ ToSet(heard') = ToSet(heard) \cup {p}
         /\ \A a : HeardOf(a) \subseteq HeardOf(a)'
         /\ Displayable(p) \subseteq HeardOf(p.ip)'
<1>1. /\ heard' \in Seq(Packets) /\ Len(heard') = Len(heard) + 1 /\ Len(heard) \in Nat
      /\ heard'[Len(heard) + 1] = p /\ \A i \in 1..Len(heard) : heard'[i] = heard[i]
      /\ DOMAIN heard = 1..Len(heard) /\ DOMAIN heard' = 1..Len(heard')
  BY AppendProperties, LenProperties
<1>2. ToSet(heard') = ToSet(heard) \cup {p}
  <2>1. \A i \in 1..(Len(heard) + 1) : i \in 1..Len(heard) \/ i = Len(heard) + 1
    BY <1>1
  <2>2. Len(heard) + 1 \in 1..(Len(heard) + 1) /\ \A i \in 1..Len(heard) : i \in 1..(Len(heard) + 1)
    BY <1>1
  <2>3. \A q : q \in ToSet(heard') <=> q \in ToSet(heard) \cup {p}
    BY <1>1, <2>1, <2>2, Zenon DEF ToSet
  <2>. QED BY <2>3
<1>3. \A a, rec : rec \in HeardOf(a) => rec \in HeardOf(a)'
  BY <1>2, Zenon DEF HeardOf
<1>4. \A rec : rec \in Displayable(p) => rec \in HeardOf(p.ip)'
  BY <1>2, Zenon DEF HeardOf
<1>. QED BY <1>1, <1>2, <1>3, <1>4

\* What a step that appends to sent makes of it.
LEMMA SentMore ==
  ASSUME TypeOK, NEW ev \in Event, sent' = Append(sent, ev), offered' = offered + 1, first' = first
  PROVE  /\ sent' \in Seq(Event) /\ Len(sent') = offered' /\ first' \in 1..(offered' + 1)
         /\ sent'[offered'] = ev /\ offered' \notin first..offered
         /\ \A n \in first..offered : sent'[n] = sent[n]
         /\ \A n : n \in first'..offered' <=> n \in first..offered \/ n = offered'
         /\ SentTo(ev.ip)' = SentTo(ev.ip) \cup ToSet(ev.records)
         /\ \A a : a # ev.ip => SentTo(a)' = SentTo(a)
<1>1. /\ sent \in Seq(Event) /\ offered \in Nat /\ Len(sent) = offered
      /\ first \in 1..(offered + 1)
  BY DEF TypeOK
<1>2. /\ sent' \in Seq(Event) /\ Len(sent') = offered + 1 /\ sent'[offered + 1] = ev
      /\ \A i \in 1..offered : sent'[i] = sent[i]
  BY <1>1, AppendProperties
<1>3. \A n \in first..offered : sent'[n] = sent[n]
  BY <1>1, <1>2
<1>4. /\ \A n : n \in first'..offered' <=> n \in first..offered \/ n = offered'
      /\ offered' \notin first..offered /\ first' \in 1..(offered' + 1)
  BY <1>1
<1>5. /\ \A rec : rec \in SentTo(ev.ip)' <=> rec \in SentTo(ev.ip) \/ rec \in ToSet(ev.records)
      /\ \A a, rec : a # ev.ip => (rec \in SentTo(a)' <=> rec \in SentTo(a))
  <2>1. sent'[offered'] = ev
    BY <1>2
  <2>2. \A a, n : n \in SentOf(a)' <=> n \in SentOf(a) \/ (n = offered' /\ a = ev.ip)
    BY <1>3, <1>4, <2>1, Zenon DEF SentOf
  <2>3. \A a : \A n \in SentOf(a) : sent'[n] = sent[n]
    BY <1>3, Zenon DEF SentOf
  <2>4. ASSUME NEW a, NEW rec
        PROVE  rec \in SentTo(a)' <=> rec \in SentTo(a) \/ (a = ev.ip /\ rec \in ToSet(ev.records))
    <3>1. rec \in SentTo(a)' <=> \E n \in SentOf(a)' : rec \in ToSet(sent'[n].records)
      BY Zenon DEF SentTo
    <3>2. rec \in SentTo(a) <=> \E n \in SentOf(a) : rec \in ToSet(sent[n].records)
      BY Zenon DEF SentTo
    <3>3. rec \in SentTo(a) => rec \in SentTo(a)'
      BY <2>2, <2>3, <3>1, <3>2, Zenon
    <3>4. a = ev.ip /\ rec \in ToSet(ev.records) => rec \in SentTo(a)'
      BY <2>1, <2>2, <3>1, Zenon
    <3>5. rec \in SentTo(a)' => rec \in SentTo(a) \/ (a = ev.ip /\ rec \in ToSet(ev.records))
      BY <2>1, <2>2, <2>3, <3>1, <3>2, Zenon
    <3>. QED BY <3>3, <3>4, <3>5
  <2>. QED BY <2>4, Zenon
<1>6. SentTo(ev.ip)' = SentTo(ev.ip) \cup ToSet(ev.records)
  BY <1>5
<1>7. ASSUME NEW a, a # ev.ip
      PROVE  SentTo(a)' = SentTo(a)
  <2>1. \A rec : rec \in SentTo(a)' <=> rec \in SentTo(a)
    BY <1>5, <1>7, Zenon
  <2>. QED BY <2>1
<1>. QED BY <1>2, <1>3, <1>4, <1>6, <1>7

\* What the worker hears, and what new it lets through.
LEMMA HearKeeps ==
  ASSUME IInv, NEW p \in Packets, Hear(p)
  PROVE  IInv'
<1>1. PICK ev : ev = filter_unseen(create_discovery_event(p))
  OBVIOUS
<1>2. /\ IsFresh(ev, p, seen_keys)
      /\ seen_keys' = seen_keys \cup StoreKeys(ev)
  <2>1. seen_keys' = seen_keys \cup StoreKeys(create_discovery_event(p))
    BY DEF Hear
  <2>. QED BY <1>1, <2>1, FilterIs, Zenon
<1>3. /\ heard' = Append(heard, p) /\ first' = first
      /\ IF ev.records = <<>> THEN UNCHANGED <<devices, sent, offered>>
         ELSE /\ devices' = [devices EXCEPT ![ev.ip] = merge_records(@, ev)]
              /\ sent' = Append(sent, ev) /\ offered' = offered + 1
  BY <1>1, Zenon DEF Hear, OnEvent, Output, Console, apply, Enqueue, Queue!Offer, queue
<1>4. TypeOK /\ HeardIsSeen /\ SeenIsSent /\ NeverTwice /\ SentWasHeard /\ RegistryIsTold
  BY DEF IInv
<1>5. /\ heard' \in Seq(Packets) /\ ToSet(heard') = ToSet(heard) \cup {p}
      /\ \A a : HeardOf(a) \subseteq HeardOf(a)'
      /\ Displayable(p) \subseteq HeardOf(p.ip)'
  <2>1. heard \in Seq(Packets)
    BY <1>4 DEF TypeOK
  <2>. QED BY <1>3, <2>1, HeardMore, Zenon
<1>6. /\ ev \in Event /\ ev.ip = p.ip /\ ev.ip \in Ip /\ ev.records \in Seq(ResourceRecordView)
      /\ ToSet(ev.records) \subseteq Displayable(p)
  BY <1>2, PacketType DEF IsFresh, Event
<1>7. HeardIsSeen'
  <2>1. \A rec \in Displayable(p) : record_store_key(p.ip, rec) \in seen_keys'
    BY <1>2, Zenon DEF IsFresh
  <2>2. \A q \in ToSet(heard) : \A rec \in Displayable(q) : record_store_key(q.ip, rec) \in seen_keys'
    BY <1>2, <1>4 DEF HeardIsSeen
  <2>3. \A q \in ToSet(heard') : \A rec \in Displayable(q) : record_store_key(q.ip, rec) \in seen_keys'
    BY <1>5, <2>1, <2>2
  <2>. QED BY <2>3 DEF HeardIsSeen
<1>8. CASE ev.records = <<>>
  <2>1. devices' = devices /\ sent' = sent /\ offered' = offered /\ first' = first
    BY <1>3, <1>8
  <2>2. seen_keys' = seen_keys
    <3>1. StoreKeys(ev) = {}
      BY <1>8 DEF StoreKeys, ToSet
    <3>. QED BY <1>2, <3>1
  <2>3. TypeOK'
    BY <1>4, <1>5, <2>1 DEF TypeOK
  <2>4. SeenIsSent' /\ NeverTwice'
    BY <1>4, <2>1, <2>2 DEF SeenIsSent, NeverTwice
  <2>7. \A a : SentTo(a)' = SentTo(a)
    BY <2>1, Zenon DEF SentTo, SentOf
  <2>5. SentWasHeard'
    BY <1>4, <1>5, <2>7 DEF SentWasHeard
  <2>6. RegistryIsTold'
    BY <1>4, <2>1, <2>7, Zenon DEF RegistryIsTold
  <2>. QED BY <1>7, <2>3, <2>4, <2>5, <2>6 DEF IInv
<1>9. CASE ev.records # <<>>
  <2>1. /\ devices' = [devices EXCEPT ![ev.ip] = merge_records(@, ev)]
        /\ sent' = Append(sent, ev) /\ offered' = offered + 1 /\ first' = first
    BY <1>3, <1>9
  <2>2. /\ sent' \in Seq(Event) /\ Len(sent') = offered' /\ first' \in 1..(offered' + 1)
        /\ sent'[offered'] = ev /\ offered' \notin first..offered
        /\ \A n \in first..offered : sent'[n] = sent[n]
        /\ \A n : n \in first'..offered' <=> n \in first..offered \/ n = offered'
        /\ SentTo(ev.ip)' = SentTo(ev.ip) \cup ToSet(ev.records)
        /\ \A a : a # ev.ip => SentTo(a)' = SentTo(a)
    BY <1>4, <1>6, <2>1, SentMore, Zenon
  <2>3. devices' = [a \in Ip |-> IF a = ev.ip THEN merge_records(devices[a], ev) ELSE devices[a]]
    BY <1>4, <2>1 DEF TypeOK
  <2>4. TypeOK'
    <3>1. offered' \in Nat
      BY <1>4, <2>1 DEF TypeOK
    <3>2. devices' = [a \in Ip |-> devices'[a]]
      BY <2>3
    <3>. QED BY <1>5, <2>2, <3>1, <3>2 DEF TypeOK
  <2>5. SeenIsSent'
    <3>1. ASSUME NEW key
          PROVE  key \in seen_keys' <=> \E n \in (first..offered)' : key \in StoreKeys(sent'[n])
      <4>1. key \in seen_keys' <=> key \in seen_keys \/ key \in StoreKeys(ev)
        BY <1>2
      <4>2. key \in seen_keys <=> \E n \in first..offered : key \in StoreKeys(sent[n])
        BY <1>4, Zenon DEF SeenIsSent
      <4>. QED BY <2>2, <4>1, <4>2, Zenon
    <3>. QED BY <3>1, Zenon DEF SeenIsSent
  <2>6. NeverTwice'
    <3>1. \A n \in first..offered : \A i \in 1..Len(sent[n].records) :
            record_store_key(sent[n].ip, sent[n].records[i]) \in seen_keys
      <4>. SUFFICES ASSUME NEW n \in first..offered, NEW i \in 1..Len(sent[n].records)
                    PROVE  record_store_key(sent[n].ip, sent[n].records[i]) \in seen_keys
        OBVIOUS
      <4>1. sent[n].records \in Seq(ResourceRecordView)
        <5>1. n \in 1..Len(sent) /\ sent \in Seq(Event)
          BY <1>4 DEF TypeOK
        <5>2. sent[n] \in Event
          BY <5>1, ElementOfSeq
        <5>. QED BY <5>2 DEF Event
      <4>2. sent[n].records[i] \in ToSet(sent[n].records)
        BY <4>1, LenProperties DEF ToSet
      <4>3. record_store_key(sent[n].ip, sent[n].records[i]) \in StoreKeys(sent[n])
        BY <4>2, Zenon DEF StoreKeys
      <4>. QED BY <1>4, <4>3, Zenon DEF SeenIsSent
    <3>2. \A i \in 1..Len(ev.records) : record_store_key(ev.ip, ev.records[i]) \notin seen_keys
      BY <1>2, <1>6, Zenon DEF IsFresh
    <3>3. SUFFICES ASSUME NEW n \in first'..offered', NEW k \in first'..offered',
                          NEW i \in 1..Len(sent'[n].records), NEW j \in 1..Len(sent'[k].records),
                          record_store_key(sent'[n].ip, sent'[n].records[i])
                            = record_store_key(sent'[k].ip, sent'[k].records[j])
                   PROVE  n = k /\ i = j
      BY Zenon DEF NeverTwice
    <3>4. CASE n \in first..offered /\ k \in first..offered
      <4>1. sent'[n] = sent[n] /\ sent'[k] = sent[k]
        BY <2>2, <3>4, Zenon
      <4>2. /\ i \in 1..Len(sent[n].records) /\ j \in 1..Len(sent[k].records)
            /\ record_store_key(sent[n].ip, sent[n].records[i])
                 = record_store_key(sent[k].ip, sent[k].records[j])
        BY <3>3, <4>1
      <4>. QED BY <1>4, <3>4, <4>2 DEF NeverTwice
    <3>5. CASE n = offered' /\ k \in first..offered
      <4>1. sent'[n] = ev /\ sent'[k] = sent[k]
        BY <2>2, <3>5, Zenon
      <4>2. /\ i \in 1..Len(ev.records) /\ j \in 1..Len(sent[k].records)
            /\ record_store_key(ev.ip, ev.records[i])
                 = record_store_key(sent[k].ip, sent[k].records[j])
        BY <3>3, <4>1
      <4>3. record_store_key(sent[k].ip, sent[k].records[j]) \in seen_keys
        BY <3>1, <3>5, <4>2, Zenon
      <4>. QED BY <1>6, <3>2, <4>2, <4>3, Zenon
    <3>6. CASE n \in first..offered /\ k = offered'
      <4>1. sent'[n] = sent[n] /\ sent'[k] = ev
        BY <2>2, <3>6, Zenon
      <4>2. /\ i \in 1..Len(sent[n].records) /\ j \in 1..Len(ev.records)
            /\ record_store_key(sent[n].ip, sent[n].records[i])
                 = record_store_key(ev.ip, ev.records[j])
        BY <3>3, <4>1
      <4>3. record_store_key(sent[n].ip, sent[n].records[i]) \in seen_keys
        BY <3>1, <3>6, <4>2, Zenon
      <4>. QED BY <1>6, <3>2, <4>2, <4>3, Zenon
    <3>7. CASE n = offered' /\ k = offered'
      <4>1. record_store_key(p.ip, ev.records[i]) = record_store_key(p.ip, ev.records[j])
        BY <1>6, <2>2, <3>3, <3>7, Zenon
      <4>2. i \in 1..Len(ev.records) /\ j \in 1..Len(ev.records)
        BY <2>2, <3>7, Zenon
      <4>. QED BY <1>2, <3>7, <4>1, <4>2, Zenon DEF IsFresh
    <3>. QED BY <2>2, <3>4, <3>5, <3>6, <3>7, Zenon
  <2>7. SentWasHeard'
    <3>1. SUFFICES ASSUME NEW a \in Ip
                   PROVE  SentTo(a)' \subseteq HeardOf(a)'
      BY Zenon DEF SentWasHeard
    <3>2. SentTo(a) \subseteq HeardOf(a)'
      BY <1>4, <1>5 DEF SentWasHeard
    <3>3. CASE a = ev.ip
      BY <1>5, <1>6, <2>2, <3>2, <3>3
    <3>4. CASE a # ev.ip
      BY <2>2, <3>2, <3>4
    <3>. QED BY <3>3, <3>4
  <2>8. RegistryIsTold'
    <3>1. SUFFICES ASSUME NEW a \in Ip
                   PROVE  IsTold(devices'[a], SentTo(a)')
      BY Zenon DEF RegistryIsTold
    <3>2. IsTold(devices[a], SentTo(a))
      BY <1>4, Zenon DEF RegistryIsTold
    <3>3. CASE a = ev.ip
      <4>1. \A rec \in ToSet(ev.records) : is_displayable_record(rec)
        BY <1>6 DEF Displayable
      <4>2. IsTold(merge_records(devices[a], ev), SentTo(a) \cup ToSet(ev.records))
        BY <1>6, <3>2, <4>1, MergeTells, Zenon
      <4>3. devices'[a] = merge_records(devices[a], ev)
        BY <2>3, <3>3, Zenon
      <4>. QED BY <2>2, <3>3, <4>2, <4>3, Zenon
    <3>4. CASE a # ev.ip
      <4>1. devices'[a] = devices[a] /\ SentTo(a)' = SentTo(a)
        BY <2>2, <2>3, <3>4, Zenon
      <4>. QED BY <3>2, <4>1, Zenon
    <3>. QED BY <3>3, <3>4
  <2>. QED BY <1>7, <2>4, <2>5, <2>6, <2>7, <2>8 DEF IInv
<1>. QED BY <1>8, <1>9

\* Nothing else touches the filter, the registry and what was sent.
LEMMA SameWorker ==
  ASSUME IInv, UNCHANGED <<heard, seen_keys, devices, sent, offered, first>>
  PROVE  IInv'
<1>1. TypeOK' /\ HeardIsSeen' /\ SeenIsSent' /\ NeverTwice'
  BY DEF IInv, TypeOK, HeardIsSeen, SeenIsSent, NeverTwice
<1>2. \A a : SentTo(a)' = SentTo(a) /\ HeardOf(a)' = HeardOf(a)
  BY Zenon DEF SentTo, SentOf, HeardOf
<1>3. SentWasHeard'
  BY <1>2 DEF IInv, SentWasHeard
<1>4. RegistryIsTold'
  BY <1>2 DEF IInv, RegistryIsTold
<1>. QED BY <1>1, <1>3, <1>4 DEF IInv

\* The invariant holds at the start, and every step keeps it.
LEMMA Inductive ==
  /\ Init => IInv
  /\ IInv /\ [Next]_vars => IInv'
<1>1. ASSUME Init
      PROVE  IInv
  <2>1. /\ heard = <<>> /\ seen_keys = {} /\ devices = [a \in Ip |-> NoSnapshot]
        /\ sent = <<>> /\ offered = 0 /\ first = 1
    BY <1>1 DEF Init, Queue!Init
  <2>2. JustStarted
    BY <2>1 DEF JustStarted
  <2>. QED BY <2>2, NothingHeard
<1>2. ASSUME IInv, Restart
      PROVE  IInv'
  <2>1. /\ heard' = <<>> /\ seen_keys' = {} /\ devices' = [a \in Ip |-> NoSnapshot]
        /\ sent' = sent /\ offered' = offered /\ first' = offered + 1
    BY <1>2 DEF Restart
  <2>2. JustStarted'
    BY <1>2, <2>1 DEF IInv, TypeOK, JustStarted
  <2>. QED BY <2>2, NothingHeard, PTL
<1>3. ASSUME IInv, NEW p \in Packets, Hear(p)
      PROVE  IInv'
  BY <1>3, HearKeeps
<1>4. ASSUME IInv, Take \/ PostAnswered \/ PostUnanswered \/ PostDelayed \/ DelayedArrives
      PROVE  IInv'
  <2>1. UNCHANGED <<heard, seen_keys, devices, sent, offered, first>>
    BY <1>4 DEF Take, PostAnswered, PostUnanswered, PostDelayed, DelayedArrives, worker, queue, Queue!Take
  <2>. QED BY <1>4, <2>1, SameWorker
<1>5. ASSUME IInv, UNCHANGED vars
      PROVE  IInv'
  <2>1. UNCHANGED <<heard, seen_keys, devices, sent, offered, first>>
    BY <1>5 DEF vars, worker, queue
  <2>. QED BY <1>5, <2>1, SameWorker
<1>. QED BY <1>1, <1>2, <1>3, <1>4, <1>5 DEF Next

\* The invariant of the worker: the filter has seen what was heard and sent what
\* it saw first, and the registry was told what was sent.
THEOREM Invariance == Spec => []IInv
<1>1. Init => IInv
  BY Inductive
<1>2. IInv /\ [Next]_vars => IInv'
  BY Inductive
<1>. QED BY <1>1, <1>2, PTL DEF Spec

--------------------------------------------------------------------------------
(* Every record goes through once                                          *)

\* A sequence without repetitions has as many elements as places.
LEMMA Distinct ==
  ASSUME NEW X, NEW s \in Seq(X), \A i, j \in 1..Len(s) : s[i] = s[j] => i = j
  PROVE  Cardinality(ToSet(s)) = Len(s)
<1>1. Len(s) \in Nat /\ DOMAIN s = 1..Len(s) /\ s \in [1..Len(s) -> X]
  BY LenProperties
<1>2. s \in [1..Len(s) -> ToSet(s)]
  BY <1>1 DEF ToSet
<1>3. s \in Bijection(1..Len(s), ToSet(s))
  BY <1>1, <1>2 DEF Bijection, Injection, IsInjective, Surjection, ToSet
<1>4. ExistsBijection(1..Len(s), ToSet(s))
  BY <1>3 DEF ExistsBijection
<1>5. IsFiniteSet(1..Len(s)) /\ Cardinality(1..Len(s)) = Len(s)
  BY <1>1, FS_Interval
<1>. QED BY <1>4, <1>5, FS_Bijection

\* The types of what was sent and heard.
LEMMA WorkerTypes ==
  ASSUME TypeOK
  PROVE  /\ \A a \in Ip : a \in Token
         /\ \A p \in ToSet(heard) : p \in Packets
         /\ \A a : HeardOf(a) \subseteq ResourceRecordView
         /\ \A n \in first..offered : sent[n].ip \in Ip /\ sent[n].records \in Seq(ResourceRecordView)
         /\ \A n \in first..offered : ToSet(sent[n].records) \subseteq ResourceRecordView
<1>1. \A a \in Ip : a \in Token
  BY PacketType DEF Ip
<1>2. \A p \in ToSet(heard) : p \in Packets
  BY ElementOfSeq, LenProperties DEF TypeOK, ToSet
<1>3. \A a, rec : rec \in HeardOf(a) => rec \in ResourceRecordView
  <2>1. \A a, rec : rec \in HeardOf(a) => \E p \in ToSet(heard) : rec \in Displayable(p)
    BY Zenon DEF HeardOf
  <2>. QED BY <1>2, <2>1, PacketType
<1>4. \A n \in first..offered : sent[n].ip \in Ip /\ sent[n].records \in Seq(ResourceRecordView)
  <2>1. \A n \in first..offered : n \in 1..Len(sent)
    BY DEF TypeOK
  <2>2. \A n \in 1..Len(sent) : sent[n] \in Event
    BY ElementOfSeq DEF TypeOK
  <2>. QED BY <2>1, <2>2 DEF Event
<1>5. \A n \in first..offered : ToSet(sent[n].records) \subseteq ResourceRecordView
  BY <1>4, ElementOfSeq, LenProperties DEF ToSet
<1>. QED BY <1>1, <1>2, <1>3, <1>4, <1>5

\* What was heard of a device was sent, it or a record with the same key.
LEMMA HeardIsSent ==
  ASSUME IInv, NEW a \in Ip, NEW rec \in HeardOf(a)
  PROVE  \E n \in SentOf(a) : \E r \in ToSet(sent[n].records) :
           r = rec \/ (Collide(r, rec) /\ Bar \in ToSet(r.owner \o rec.owner))
<1>1. TypeOK /\ HeardIsSeen /\ SeenIsSent
  BY DEF IInv
<1>2. PICK p \in ToSet(heard) : p.ip = a /\ rec \in Displayable(p)
  BY Zenon DEF HeardOf
<1>3. record_store_key(a, rec) \in seen_keys
  BY <1>1, <1>2, Zenon DEF HeardIsSeen
<1>4. PICK n \in first..offered : record_store_key(a, rec) \in StoreKeys(sent[n])
  BY <1>1, <1>3, Zenon DEF SeenIsSent
<1>5. PICK r \in ToSet(sent[n].records) : record_store_key(a, rec) = record_store_key(sent[n].ip, r)
  BY <1>4, Zenon DEF StoreKeys
<1>6. /\ a \in Token /\ sent[n].ip \in Token
      /\ rec \in ResourceRecordView /\ r \in ResourceRecordView
  BY <1>1, WorkerTypes
<1>7. a = sent[n].ip /\ record_content_key(r) = record_content_key(rec)
  BY <1>5, <1>6, StoreKeysTellApart
<1>8. r = rec \/ (Collide(r, rec) /\ Bar \in ToSet(r.owner \o rec.owner))
  BY <1>6, <1>7, RecordKeys, Zenon
<1>9. n \in SentOf(a)
  BY <1>7, Zenon DEF SentOf
<1>. QED BY <1>8, <1>9

\* No record is in two events for one device, or twice in one.
LEMMA SentApart ==
  ASSUME IInv, NEW a \in Ip, NEW n \in SentOf(a), NEW m \in SentOf(a)
  PROVE  /\ n # m => ToSet(sent[n].records) \cap ToSet(sent[m].records) = {}
         /\ Cardinality(ToSet(sent[n].records)) = Len(sent[n].records)
<1>1. TypeOK /\ NeverTwice
  BY DEF IInv
<1>2. /\ n \in first..offered /\ m \in first..offered /\ sent[n].ip = a /\ sent[m].ip = a
      /\ sent[n].records \in Seq(ResourceRecordView) /\ sent[m].records \in Seq(ResourceRecordView)
  BY <1>1, WorkerTypes DEF SentOf
<1>3. /\ DOMAIN sent[n].records = 1..Len(sent[n].records)
      /\ DOMAIN sent[m].records = 1..Len(sent[m].records)
  BY <1>2, LenProperties
<1>4. ASSUME NEW i \in 1..Len(sent[n].records), NEW j \in 1..Len(sent[m].records),
             sent[n].records[i] = sent[m].records[j]
      PROVE  n = m /\ i = j
  <2>1. record_store_key(sent[n].ip, sent[n].records[i]) = record_store_key(sent[m].ip, sent[m].records[j])
    BY <1>2, <1>4, Zenon
  <2>. QED BY <1>1, <1>2, <2>1 DEF NeverTwice
<1>5. ASSUME NEW i \in 1..Len(sent[n].records), NEW j \in 1..Len(sent[n].records),
             sent[n].records[i] = sent[n].records[j]
      PROVE  i = j
  BY <1>1, <1>2, <1>5 DEF NeverTwice
<1>6. Cardinality(ToSet(sent[n].records)) = Len(sent[n].records)
  BY <1>2, <1>5, Distinct
<1>7. ASSUME n # m, NEW rec \in ToSet(sent[n].records), rec \in ToSet(sent[m].records)
      PROVE  FALSE
  <2>1. PICK i \in 1..Len(sent[n].records) : rec = sent[n].records[i]
    BY <1>3, <1>7, Zenon DEF ToSet
  <2>2. PICK j \in 1..Len(sent[m].records) : rec = sent[m].records[j]
    BY <1>3, <1>7, Zenon DEF ToSet
  <2>. QED BY <1>4, <1>7, <2>1, <2>2
<1>. QED BY <1>6, <1>7

\* A record is printed and posted the first time it is heard of its device and
\* never again, unless its key is that of another, which takes a bar in a name.
THEOREM SentOnceAlways == Spec => []SentOnce
<1>1. IInv => SentOnce
  BY HeardIsSent, SentApart, Zenon DEF SentOnce
<1>. QED BY <1>1, Invariance, PTL

--------------------------------------------------------------------------------
(* Names (MdnsNames.cpp)                                                   *)

\* What one text has, token for token, where another is a part of it.
HasAt(s, i, part) ==
  /\ i >= 1 /\ i + Len(part) - 1 <= Len(s)
  /\ \A j \in 1..Len(part) : s[i + j - 1] = part[j]

\* Where std::string::find may stop.
LEMMA PlacesAre ==
  ASSUME NEW S, NEW s \in Seq(S), NEW part \in Seq(S), Len(part) > 0
  PROVE  \A i : i \in Places(s, part) <=> i \in Int /\ HasAt(s, i, part)
<1>1. Len(s) \in Nat /\ Len(part) \in Nat
  BY LenProperties
<1>2. ASSUME NEW i \in 1..(Len(s) - Len(part) + 1)
      PROVE  SubSeq(s, i, i + Len(part) - 1) = part
               <=> \A j \in 1..Len(part) : s[i + j - 1] = part[j]
  <2>1. PICK n : n = i + Len(part) - 1
    OBVIOUS
  <2>2. i \in Int /\ n \in Int /\ \A k \in i..n : s[k] \in S
    <3>1. \A k \in i..n : k \in 1..Len(s)
      BY <1>1, <2>1
    <3>. QED BY <1>1, <2>1, <3>1, ElementOfSeq
  <2>3. i <= n /\ n - i + 1 = Len(part) /\ \A j \in 1..Len(part) : i + j - 1 = i + j - 1
    BY <1>1, <2>1
  <2>4. PICK t \in Seq(S) : /\ t = SubSeq(s, i, n) /\ Len(t) = Len(part)
                            /\ \A j \in 1..Len(part) : t[j] = s[i + j - 1]
    <3>1. /\ SubSeq(s, i, n) \in Seq(S)
          /\ Len(SubSeq(s, i, n)) = IF i <= n THEN n - i + 1 ELSE 0
          /\ \A j \in 1..n - i + 1 : SubSeq(s, i, n)[j] = s[i + j - 1]
      BY <2>2, SubSeqProperties
    <3>. QED BY <2>3, <3>1, Zenon
  <2>5. t = part <=> \A j \in 1..Len(part) : t[j] = part[j]
    <3>1. (\A j \in 1..Len(t) : t[j] = part[j]) => t = part
      BY <2>4, SeqEqual
    <3>. QED BY <2>4, <3>1
  <2>. QED BY <2>1, <2>4, <2>5
<1>3. ASSUME NEW i
      PROVE  i \in 1..(Len(s) - Len(part) + 1)
               <=> i \in Int /\ i >= 1 /\ i + Len(part) - 1 <= Len(s)
  BY <1>1
<1>. QED BY <1>2, <1>3, Zenon DEF Places, HasAt

\* ends_with is what stands at the end.
LEMMA EndsWithIs ==
  ASSUME NEW S, NEW s \in Seq(S), NEW suffix \in Seq(S)
  PROVE  ends_with(s, suffix) <=> HasAt(s, Len(s) - Len(suffix) + 1, suffix)
<1>1. Len(s) \in Nat /\ Len(suffix) \in Nat
  BY LenProperties
<1> DEFINE l == Len(s)
           k == Len(suffix)
           a == Reverse(suffix)
           b == Reverse(s)
<1>2. /\ a \in Seq(S) /\ Len(a) = k /\ \A i \in 1..k : a[i] = suffix[(k - i) + 1]
      /\ b \in Seq(S) /\ Len(b) = l /\ \A i \in 1..l : b[i] = s[(l - i) + 1]
  <2>1. /\ \A i \in 1..k : suffix[(k - i) + 1] \in S
        /\ \A i \in 1..l : s[(l - i) + 1] \in S
    BY <1>1, ElementOfSeq
  <2>. QED BY <1>1, <2>1 DEF Reverse
<1> HIDE DEF a, b, k, l
<1>3. ends_with(s, suffix) <=> k <= l /\ SubSeq(a, 1, k) = SubSeq(b, 1, k)
  BY <1>2, Zenon DEF ends_with, IsSuffix, IsPrefix, a, b
<1>4. ASSUME k <= l
      PROVE  SubSeq(a, 1, k) = SubSeq(b, 1, k) <=> \A i \in 1..k : a[i] = b[i]
  <2>1. /\ k \in Int /\ k \in Nat /\ \A i \in 1..k : i \in 1..l /\ a[i] \in S /\ b[i] \in S
    BY <1>1, <1>2, <1>4, ElementOfSeq DEF k, l
  <2>2. PICK u \in Seq(S) : u = SubSeq(a, 1, k) /\ Len(u) = k /\ \A i \in 1..k : u[i] = a[i]
    <3>1. /\ SubSeq(a, 1, k) \in Seq(S)
          /\ Len(SubSeq(a, 1, k)) = IF 1 <= k THEN k - 1 + 1 ELSE 0
          /\ \A i \in 1..k - 1 + 1 : SubSeq(a, 1, k)[i] = a[1 + i - 1]
      BY <2>1, SubSeqProperties
    <3>2. k - 1 + 1 = k /\ (IF 1 <= k THEN k - 1 + 1 ELSE 0) = k /\ \A i \in 1..k : 1 + i - 1 = i
      BY <2>1
    <3>. QED BY <3>1, <3>2
  <2>3. PICK v \in Seq(S) : v = SubSeq(b, 1, k) /\ Len(v) = k /\ \A i \in 1..k : v[i] = b[i]
    <3>1. /\ SubSeq(b, 1, k) \in Seq(S)
          /\ Len(SubSeq(b, 1, k)) = IF 1 <= k THEN k - 1 + 1 ELSE 0
          /\ \A i \in 1..k - 1 + 1 : SubSeq(b, 1, k)[i] = b[1 + i - 1]
      BY <2>1, SubSeqProperties
    <3>2. k - 1 + 1 = k /\ (IF 1 <= k THEN k - 1 + 1 ELSE 0) = k /\ \A i \in 1..k : 1 + i - 1 = i
      BY <2>1
    <3>. QED BY <3>1, <3>2
  <2>4. (\A i \in 1..k : u[i] = v[i]) => u = v
    BY <2>2, <2>3, SeqEqual
  <2>. QED BY <2>2, <2>3, <2>4
<1>5. ASSUME k <= l
      PROVE  (\A i \in 1..k : a[i] = b[i]) <=> \A j \in 1..k : s[l - k + j] = suffix[j]
  <2>1. k \in Nat /\ l \in Nat
    BY <1>1 DEF k, l
  <2>2. ASSUME NEW j \in 1..k
        PROVE  /\ (k - j) + 1 \in 1..k /\ (k - j) + 1 \in 1..l /\ j \in 1..l
               /\ (k - ((k - j) + 1)) + 1 = j /\ (l - ((k - j) + 1)) + 1 = l - k + j
               /\ (l - j) + 1 = l - k + ((k - j) + 1)
    BY <1>5, <2>1
  <2>3. ASSUME \A i \in 1..k : a[i] = b[i], NEW j \in 1..k
        PROVE  s[l - k + j] = suffix[j]
    <3>1. a[(k - j) + 1] = b[(k - j) + 1]
      BY <2>2, <2>3
    <3>2. a[(k - j) + 1] = suffix[(k - ((k - j) + 1)) + 1]
      BY <1>2, <2>2
    <3>3. b[(k - j) + 1] = s[(l - ((k - j) + 1)) + 1]
      BY <1>2, <2>2
    <3>. QED BY <2>2, <3>1, <3>2, <3>3
  <2>4. ASSUME \A j \in 1..k : s[l - k + j] = suffix[j], NEW i \in 1..k
        PROVE  a[i] = b[i]
    <3>1. a[i] = suffix[(k - i) + 1] /\ b[i] = s[(l - i) + 1]
      BY <1>2, <2>2
    <3>2. s[l - k + ((k - i) + 1)] = suffix[(k - i) + 1]
      BY <2>2, <2>4
    <3>. QED BY <2>2, <3>1, <3>2
  <2>. QED BY <2>3, <2>4
<1>6. ASSUME NEW j \in 1..k
      PROVE  (l - k + 1) + j - 1 = l - k + j
  BY <1>1 DEF k, l
<1>7. k <= l <=> l - k + 1 >= 1 /\ (l - k + 1) + k - 1 <= l
  BY <1>1 DEF k, l
<1>. QED BY <1>3, <1>4, <1>5, <1>6, <1>7 DEF HasAt, k, l

\* The tokens of names and of what the code searches them for.
NameToken == Token \cup {Dot, "_tcp", "_udp", "local"}

\* w names a transport at place i of a name: TcpLocal and UdpLocal.
LocalAt(name, i, w) ==
  name[i] = Dot /\ name[i + 1] = w /\ name[i + 2] = Dot /\ name[i + 3] = "local"

\* Where the two suffixes are in a name, and when it ends with them.
LEMMA SuffixesAre ==
  ASSUME NEW name \in Seq(Token), NEW w \in {"_tcp", "_udp"},
         NEW part, part = <<Dot, w, Dot, "local">>
  PROVE  /\ \A i : i \in Places(name, part)
                <=> i \in 1..(Len(name) - 3) /\ LocalAt(name, i, w)
         /\ ends_with(name, part) <=> Len(name) >= 4 /\ LocalAt(name, Len(name) - 3, w)
<1>1. /\ part \in Seq(NameToken) /\ Len(part) = 4
      /\ part[1] = Dot /\ part[2] = w /\ part[3] = Dot /\ part[4] = "local"
  <2>1. Dot \in NameToken /\ w \in NameToken /\ "local" \in NameToken
    BY DEF NameToken
  <2>. QED BY <2>1
<1>2. name \in Seq(NameToken) /\ Len(name) \in Nat
  <2>1. name \in [1..Len(name) -> Token] /\ Len(name) \in Nat
    BY LenProperties
  <2>2. \A i \in 1..Len(name) : name[i] \in NameToken
    BY <2>1 DEF NameToken
  <2>. QED BY <2>1, <2>2
<1>3. ASSUME NEW i \in Int
      PROVE  HasAt(name, i, part) <=> i \in 1..(Len(name) - 3) /\ LocalAt(name, i, w)
  <2>1. i >= 1 /\ i + Len(part) - 1 <= Len(name) <=> i \in 1..(Len(name) - 3)
    BY <1>1, <1>2
  <2>2. \A j : j \in 1..Len(part) <=> j = 1 \/ j = 2 \/ j = 3 \/ j = 4
    BY <1>1
  <2>3. i + 1 - 1 = i /\ i + 2 - 1 = i + 1 /\ i + 3 - 1 = i + 2 /\ i + 4 - 1 = i + 3
    OBVIOUS
  <2>4. (\A j \in 1..Len(part) : name[i + j - 1] = part[j]) <=> LocalAt(name, i, w)
    BY <1>1, <2>2, <2>3, ZenonT(60) DEF LocalAt
  <2>. QED BY <2>1, <2>4, Zenon DEF HasAt
<1>4. \A i : i \in Places(name, part) <=> i \in Int /\ HasAt(name, i, part)
  <2>1. Len(part) > 0
    BY <1>1
  <2>. QED BY <1>1, <1>2, <2>1, PlacesAre
<1>5. ends_with(name, part) <=> HasAt(name, Len(name) - Len(part) + 1, part)
  BY <1>1, <1>2, EndsWithIs
<1>6. /\ Len(name) - Len(part) + 1 = Len(name) - 3 /\ Len(name) - 3 \in Int
      /\ Len(name) - 3 \in 1..(Len(name) - 3) <=> Len(name) >= 4
      /\ \A i \in 1..(Len(name) - 3) : i \in Int
  BY <1>1, <1>2
<1>7. \A i : i \in Places(name, part) <=> i \in 1..(Len(name) - 3) /\ LocalAt(name, i, w)
  BY <1>3, <1>4, <1>6, Zenon
<1>8. ends_with(name, part) <=> Len(name) >= 4 /\ LocalAt(name, Len(name) - 3, w)
  BY <1>3, <1>5, <1>6, Zenon
<1>. QED BY <1>7, <1>8

\* A set of numbers that is not empty and stays below one has a greatest element.
LEMMA Greatest ==
  ASSUME NEW n \in Nat, NEW T, T \subseteq 1..n, T # {}
  PROVE  \E i \in T : \A j \in T : j <= i
<1>1. PICK D : D = {n - i : i \in T}
  OBVIOUS
<1>2. D \subseteq Nat /\ D # {}
  <2>1. \A i \in T : n - i \in Nat
    OBVIOUS
  <2>2. PICK i \in T : TRUE
    OBVIOUS
  <2>3. n - i \in D
    BY <1>1
  <2>. QED BY <1>1, <2>1, <2>3
<1>3. PICK d \in D : \A e \in D : d <= e
  BY <1>2, LeastNatural
<1>4. PICK i \in T : d = n - i
  BY <1>1
<1>5. ASSUME NEW j \in T
      PROVE  j <= i
  <2>1. n - j \in D
    BY <1>1
  <2>2. n - i <= n - j
    BY <1>3, <1>4, <2>1
  <2>3. i \in 1..n /\ j \in 1..n
    OBVIOUS
  <2>. QED BY <2>2, <2>3
<1>. QED BY <1>5

\* rfind is the last place.
LEMMA LastPlace ==
  ASSUME NEW s, NEW part, NEW i \in Places(s, part), Places(s, part) \subseteq Int,
         \A j \in Places(s, part) : j <= i
  PROVE  rfind(s, part) = i
<1>1. \A k \in Places(s, part) : (\A j \in Places(s, part) : j <= k) => k = i
  OBVIOUS
<1>. QED BY <1>1, Zenon DEF rfind

\* A set of two.
LEMMA Two ==
  ASSUME NEW x, NEW y, x # y
  PROVE  IsFiniteSet({x, y}) /\ Cardinality({x, y}) = 2
<1>1. IsFiniteSet({x}) /\ Cardinality({x}) = 1
  BY FS_Singleton
<1>2. {x, y} = {x} \cup {y} /\ y \notin {x}
  OBVIOUS
<1>. QED BY <1>1, <1>2, FS_AddElement

\* The names of both kinds end with a transport and the domain.
LEMMA ServiceSuffix ==
  ASSUME NEW name \in Seq(Token), has_mdns_service_suffix(name)
  PROVE  \E w \in {"_tcp", "_udp"} :
           /\ Len(name) >= 4 /\ LocalAt(name, Len(name) - 3, w)
           /\ w = "_udp" => ends_with(name, UdpLocal)
<1>1. TcpLocal = <<Dot, "_tcp", Dot, "local">> /\ UdpLocal = <<Dot, "_udp", Dot, "local">>
  BY DEF TcpLocal, UdpLocal
<1>2. CASE ends_with(name, TcpLocal)
  <2>1. Len(name) >= 4 /\ LocalAt(name, Len(name) - 3, "_tcp")
    BY <1>1, <1>2, SuffixesAre
  <2>. QED BY <2>1
<1>3. CASE ends_with(name, UdpLocal)
  <2>1. Len(name) >= 4 /\ LocalAt(name, Len(name) - 3, "_udp")
    BY <1>1, <1>3, SuffixesAre
  <2>. QED BY <1>3, <2>1
<1>. QED BY <1>2, <1>3 DEF has_mdns_service_suffix

\* The dots of a name, and its labels.
Dots(name) == {i \in 1..Len(name) : name[i] = Dot}
After(name, i) == {j \in Dots(name) : j > i}

\* The dots can be counted, and there is one label more.
LEMMA DotsAre ==
  ASSUME NEW name \in Seq(Token)
  PROVE  /\ IsFiniteSet(Dots(name)) /\ Cardinality(Dots(name)) \in Nat
         /\ \A i : IsFiniteSet(After(name, i)) /\ Cardinality(After(name, i)) \in Nat
         /\ label_count(name) = IF name = Empty THEN 0 ELSE 1 + Cardinality(Dots(name))
<1>1. Len(name) \in Nat /\ DOMAIN name = 1..Len(name)
  BY LenProperties
<1>2. IsFiniteSet(1..Len(name))
  BY <1>1, FS_Interval
<1>3. IsFiniteSet(Dots(name))
  <2>1. Dots(name) \in SUBSET (1..Len(name))
    BY DEF Dots
  <2>. QED BY <1>2, <2>1, FS_Subset
<1>4. \A i : IsFiniteSet(After(name, i))
  <2>1. \A i : After(name, i) \in SUBSET Dots(name)
    BY DEF After
  <2>. QED BY <1>3, <2>1, FS_Subset
<1>5. label_count(name) = IF name = Empty THEN 0 ELSE 1 + Cardinality(Dots(name))
  BY <1>1, Zenon DEF label_count, Dots
<1>. QED BY <1>3, <1>4, <1>5, FS_CardinalityType

\* The last two dots of a name with a transport at its end.
LEMMA LastDots ==
  ASSUME NEW name \in Seq(Token), NEW w \in {"_tcp", "_udp"},
         Len(name) >= 4, LocalAt(name, Len(name) - 3, w)
  PROVE  \A j : j \in Dots(name) /\ j >= Len(name) - 3
                 <=> j = Len(name) - 3 \/ j = Len(name) - 1
<1>1. PICK l \in Nat : l = Len(name) /\ l >= 4
  BY LenProperties
<1>2. name[l - 3] = Dot /\ name[l - 2] = w /\ name[l - 1] = Dot /\ name[l] = "local"
  <2>1. (l - 3) + 1 = l - 2 /\ (l - 3) + 2 = l - 1 /\ (l - 3) + 3 = l
    OBVIOUS
  <2>. QED BY <1>1, <2>1 DEF LocalAt
<1>3. w # Dot /\ "local" # Dot
  BY DEF Dot
<1>4. ASSUME NEW j
      PROVE  j \in 1..l /\ j >= l - 3 <=> j = l - 3 \/ j = l - 2 \/ j = l - 1 \/ j = l
  BY <1>1
<1>. QED BY <1>1, <1>2, <1>3, <1>4, Zenon DEF Dots

\* A service type and a transport have two dots; an instance has one more.
LEMMA OneMoreDot ==
  ASSUME NEW name \in Seq(Token), NEW w \in {"_tcp", "_udp"},
         Len(name) >= 4, LocalAt(name, Len(name) - 3, w), label_count(name) >= 4
  PROVE  \E b \in Dots(name) :
           /\ b < Len(name) - 3 /\ \A j \in Dots(name) : j < Len(name) - 3 => j <= b
           /\ \A i \in Dots(name) : Cardinality(After(name, i)) = 2 <=> i = b
<1>1. PICK l \in Nat : l = Len(name) /\ l >= 4
  BY LenProperties
<1>2. /\ \A j : j \in Dots(name) /\ j >= l - 3 <=> j = l - 3 \/ j = l - 1
      /\ Dots(name) \subseteq 1..l
  BY <1>1, LastDots DEF Dots
<1>3. PICK P : P = {l - 3, l - 1} /\ Cardinality(P) = 2 /\ IsFiniteSet(P)
  <2>1. l - 3 # l - 1
    OBVIOUS
  <2>. QED BY <2>1, Two, Zenon
<1>4. Cardinality(Dots(name)) >= 3
  BY <1>1, DotsAre
<1>5. PICK T : T = {j \in Dots(name) : j < l - 3}
  OBVIOUS
<1>6. T # {}
  <2>1. SUFFICES ASSUME T = {}
                 PROVE  FALSE
    OBVIOUS
  <2>2. \A j : j \in Dots(name) <=> j = l - 3 \/ j = l - 1
    BY <1>2, <1>5, <2>1
  <2>3. Dots(name) = P
    BY <1>3, <2>2
  <2>. QED BY <1>3, <1>4, <2>3
<1>7. PICK b \in T : \A j \in T : j <= b
  <2>1. T \subseteq 1..l
    BY <1>2, <1>5
  <2>. QED BY <1>6, <2>1, Greatest
<1>8. b \in Dots(name) /\ b < l - 3 /\ \A j \in Dots(name) : j < l - 3 => j <= b
  BY <1>5, <1>7
<1>9. After(name, b) = P
  <2>1. \A j \in Dots(name) : j > b <=> j >= l - 3
    BY <1>2, <1>8
  <2>2. \A j : j \in After(name, b) <=> j = l - 3 \/ j = l - 1
    BY <1>2, <2>1 DEF After
  <2>. QED BY <1>3, <2>2
<1>10. ASSUME NEW i \in Dots(name), i # b
       PROVE  Cardinality(After(name, i)) # 2
  <2>1. CASE i < b
    <3>1. P \cup {b} \in SUBSET After(name, i)
      BY <1>1, <1>2, <1>3, <1>8, <2>1 DEF After
    <3>2. Cardinality(P \cup {b}) = 3
      <4>1. b \notin P
        BY <1>1, <1>2, <1>3, <1>8
      <4>2. Cardinality(P \cup {b}) = IF b \in P THEN Cardinality(P) ELSE Cardinality(P) + 1
        BY <1>3, FS_AddElement, Zenon
      <4>3. Cardinality(P \cup {b}) = Cardinality(P) + 1
        BY <4>1, <4>2, Zenon
      <4>4. Cardinality(P) = 2 /\ 2 + 1 = 3
        BY <1>3
      <4>. QED BY <4>3, <4>4, Zenon
    <3>3. Cardinality(P \cup {b}) <= Cardinality(After(name, i))
      BY <3>1, DotsAre, FS_Subset
    <3>4. Cardinality(After(name, i)) \in Nat
      BY DotsAre
    <3>. QED BY <3>2, <3>3, <3>4
  <2>2. CASE i > b
    <3>1. i = l - 3 \/ i = l - 1
      BY <1>2, <1>8, <2>2
    <3>2. After(name, i) \in SUBSET {l - 1}
      <4>1. \A j \in After(name, i) : j = l - 1
        BY <1>1, <1>2, <3>1 DEF After
      <4>. QED BY <4>1
    <3>3. Cardinality(After(name, i)) <= Cardinality({l - 1})
      BY <3>2, FS_Subset, FS_Singleton
    <3>4. Cardinality({l - 1}) = 1 /\ Cardinality(After(name, i)) \in Nat
      BY FS_Singleton, DotsAre
    <3>. QED BY <3>3, <3>4
  <2>. QED BY <1>2, <1>8, <1>10, <2>1, <2>2
<1>11. \A i \in Dots(name) : Cardinality(After(name, i)) = 2 <=> i = b
  BY <1>3, <1>9, <1>10
<1>. QED BY <1>1, <1>8, <1>11

\* service_type_from_name of an instance is the name's last three labels.
LEMMA InstanceNames ==
  ASSUME NEW name \in Seq(Token), is_instance_name(name), ~Nested(name)
  PROVE  service_type_from_name(name) = LastThree(name) /\ LastThree(name) # Empty
<1>1. PICK l \in Nat : l = Len(name) /\ DOMAIN name = 1..l
  BY LenProperties
<1>2. PICK w \in {"_tcp", "_udp"} :
        /\ l >= 4 /\ LocalAt(name, l - 3, w)
        /\ w = "_udp" => ends_with(name, UdpLocal)
  BY <1>1, ServiceSuffix DEF is_instance_name
<1>3. label_count(name) >= 4 /\ name # Empty /\ Cardinality(Dots(name)) >= 3
  <2>1. label_count(name) >= 4
    BY DEF is_instance_name
  <2>. QED BY <2>1, DotsAre
<1>4. PICK b \in Dots(name) :
        /\ b < l - 3 /\ \A j \in Dots(name) : j < l - 3 => j <= b
        /\ \A i \in Dots(name) : Cardinality(After(name, i)) = 2 <=> i = b
  BY <1>1, <1>2, <1>3, OneMoreDot
<1>5. b \in 1..l
  BY <1>1 DEF Dots
<1>6. LastThree(name) = From(name, b + 1)
  <2>1. LastThree(name)
          = IF Cardinality(Dots(name)) < 3 THEN name
            ELSE From(name, 1 + CHOOSE i \in Dots(name) : Cardinality(After(name, i)) = 2)
    BY Zenon DEF LastThree, Dots, After
  <2>2. (CHOOSE i \in Dots(name) : Cardinality(After(name, i)) = 2) = b
    BY <1>4, Zenon
  <2>3. ~(Cardinality(Dots(name)) < 3)
    BY <1>3, DotsAre
  <2>4. 1 + b = b + 1
    BY <1>5
  <2>. QED BY <2>1, <2>2, <2>3, <2>4, Zenon
<1> DEFINE transport == IF rfind(name, TcpLocal) # 0 THEN rfind(name, TcpLocal)
                        ELSE rfind(name, UdpLocal)
<1>7. transport = l - 3
  <2>1. \A i \in 1..(l - 3) : i <= l - 3 /\ i # 0
    BY <1>1
  <2>2. l - 3 \in 1..(l - 3)
    BY <1>1, <1>2
  <2>3. /\ \A i : i \in Places(name, TcpLocal) <=> i \in 1..(l - 3) /\ LocalAt(name, i, "_tcp")
        /\ \A i : i \in Places(name, UdpLocal) <=> i \in 1..(l - 3) /\ LocalAt(name, i, "_udp")
    BY <1>1, SuffixesAre DEF TcpLocal, UdpLocal
  <2>4. Places(name, TcpLocal) \subseteq Int /\ Places(name, UdpLocal) \subseteq Int
    BY <2>3
  <2>5. CASE w = "_tcp"
    <3>1. l - 3 \in Places(name, TcpLocal) /\ \A j \in Places(name, TcpLocal) : j <= l - 3
      BY <1>2, <2>1, <2>2, <2>3, <2>5
    <3>2. rfind(name, TcpLocal) = l - 3
      BY <2>4, <3>1, LastPlace
    <3>. QED BY <2>1, <2>2, <3>2
  <2>6. CASE w = "_udp"
    <3>1. l - 3 \in Places(name, UdpLocal) /\ \A j \in Places(name, UdpLocal) : j <= l - 3
      BY <1>2, <2>1, <2>2, <2>3, <2>6
    <3>2. rfind(name, UdpLocal) = l - 3
      BY <2>4, <3>1, LastPlace
    <3>3. find(name, TcpLocal) = 0
      BY <1>2, <2>6 DEF Nested
    <3>4. Places(name, TcpLocal) = {}
      <4>1. SUFFICES ASSUME NEW i \in Places(name, TcpLocal)
                     PROVE  FALSE
        OBVIOUS
      <4>2. \E least \in Places(name, TcpLocal) : \A j \in Places(name, TcpLocal) : least <= j
        <5>1. Places(name, TcpLocal) \subseteq Nat /\ Places(name, TcpLocal) # {}
          BY <2>3
        <5>. QED BY <5>1, LeastNatural
      <4>3. find(name, TcpLocal) \in Places(name, TcpLocal)
        BY <4>1, <4>2, Zenon DEF find
      <4>. QED BY <2>1, <2>3, <3>3, <4>3
    <3>5. rfind(name, TcpLocal) = 0
      BY <3>4 DEF rfind
    <3>. QED BY <3>2, <3>5
  <2>. QED BY <2>5, <2>6
<1> HIDE DEF transport
<1>8. rfind(SubSeq(name, 1, transport - 1), <<Dot>>) = b
  <2>1. (l - 3) - 1 = l - 4 /\ l - 4 \in Nat
    BY <1>2
  <2>2. /\ SubSeq(name, 1, l - 4) \in Seq(NameToken)
        /\ Len(SubSeq(name, 1, l - 4)) = IF 1 <= l - 4 THEN (l - 4) - 1 + 1 ELSE 0
        /\ \A i \in 1..(l - 4) - 1 + 1 : SubSeq(name, 1, l - 4)[i] = name[1 + i - 1]
    <3>1. \A i \in 1..(l - 4) : name[i] \in NameToken
      <4>1. \A i \in 1..(l - 4) : i \in 1..Len(name)
        BY <1>1
      <4>2. \A i \in 1..Len(name) : name[i] \in Token
        BY ElementOfSeq
      <4>. QED BY <4>1, <4>2 DEF NameToken
    <3>2. 1 \in Int /\ l - 4 \in Int
      OBVIOUS
    <3>. QED BY <3>1, <3>2, SubSeqProperties
  <2>3. PICK t \in Seq(NameToken) : t = SubSeq(name, 1, l - 4)
    BY <2>2
  <2>4. Len(t) = l - 4 /\ \A i \in 1..(l - 4) : t[i] = name[i]
    <3>1. /\ (IF 1 <= l - 4 THEN (l - 4) - 1 + 1 ELSE 0) = l - 4
          /\ (l - 4) - 1 + 1 = l - 4 /\ \A i \in 1..(l - 4) : 1 + i - 1 = i
      BY <2>1
    <3>. QED BY <2>2, <2>3, <3>1
  <2>5. <<Dot>> \in Seq(NameToken) /\ Len(<<Dot>>) = 1 /\ <<Dot>>[1] = Dot
    BY DEF NameToken
  <2>6. \A i : i \in Places(t, <<Dot>>) <=> i \in 1..(l - 4) /\ name[i] = Dot
    <3>1. PICK d \in Seq(NameToken) : d = <<Dot>> /\ Len(d) = 1 /\ d[1] = Dot
      BY <2>5
    <3>2. \A i : i \in Places(t, d) <=> i \in Int /\ HasAt(t, i, d)
      <4>1. Len(d) > 0
        BY <3>1
      <4>. QED BY <4>1, PlacesAre
    <3>3. ASSUME NEW i \in Int
          PROVE  HasAt(t, i, d) <=> i \in 1..(l - 4) /\ name[i] = Dot
      <4>1. i >= 1 /\ i + Len(d) - 1 <= Len(t) <=> i \in 1..(l - 4)
        BY <2>4, <3>1
      <4>2. (\A j \in 1..Len(d) : t[i + j - 1] = d[j]) <=> t[i] = Dot
        <5>1. \A j : j \in 1..Len(d) <=> j = 1
          BY <3>1
        <5>2. i + 1 - 1 = i
          OBVIOUS
        <5>. QED BY <3>1, <5>1, <5>2, Zenon
      <4>. QED BY <2>4, <4>1, <4>2, Zenon DEF HasAt
    <3>4. \A i \in 1..(l - 4) : i \in Int
      OBVIOUS
    <3>. QED BY <3>1, <3>2, <3>3, <3>4, Zenon
  <2>7. b \in Places(t, <<Dot>>)
    <3>1. b \in 1..(l - 4)
      BY <1>4, <1>5
    <3>. QED BY <2>6, <3>1 DEF Dots
  <2>8. \A j \in Places(t, <<Dot>>) : j <= b
    <3>1. \A j \in 1..(l - 4) : j \in 1..l /\ j < l - 3
      OBVIOUS
    <3>. QED BY <1>1, <1>4, <2>6, <3>1 DEF Dots
  <2>9. Places(t, <<Dot>>) \subseteq Int
    BY <2>6
  <2>10. rfind(t, <<Dot>>) = b
    BY <2>7, <2>8, <2>9, LastPlace, Zenon
  <2>. QED BY <1>7, <2>1, <2>3, <2>10, Zenon
<1>9. /\ ~is_service_type_name(name) /\ transport > 1 /\ b # 0
  BY <1>3, <1>4, <1>5, <1>7 DEF is_service_type_name
<1>10. service_type_from_name(name) = From(name, b + 1)
  <2>1. service_type_from_name(name)
          = CASE is_service_type_name(name) -> name
              [] ~is_service_type_name(name) /\ is_instance_name(name)
                   /\ transport > 1 /\ rfind(SubSeq(name, 1, transport - 1), <<Dot>>) # 0
                   -> From(name, rfind(SubSeq(name, 1, transport - 1), <<Dot>>) + 1)
              [] OTHER -> Empty
    BY Zenon DEF service_type_from_name, transport
  <2>2. service_type_from_name(name)
          = From(name, rfind(SubSeq(name, 1, transport - 1), <<Dot>>) + 1)
    BY <1>8, <1>9, <2>1
  <2>. QED BY <1>8, <2>2
<1>11. From(name, b + 1) # Empty
  <2>1. \A i \in (b + 1)..l : name[i] \in Token
    <3>1. \A i \in (b + 1)..l : i \in 1..Len(name)
      BY <1>1, <1>5
    <3>. QED BY <3>1, ElementOfSeq
  <2>2. Len(SubSeq(name, b + 1, l)) = IF b + 1 <= l THEN l - (b + 1) + 1 ELSE 0
    <3>1. b + 1 \in Int /\ l \in Int
      BY <1>5
    <3>. QED BY <2>1, <3>1, SubSeqProperties
  <2>3. Len(SubSeq(name, b + 1, l)) # 0
    BY <1>4, <1>5, <2>2
  <2>4. From(name, b + 1) = SubSeq(name, b + 1, l)
    BY <1>1 DEF From
  <2>5. Len(Empty) = 0
    BY DEF Empty
  <2>6. From(name, b + 1) = Empty => Len(SubSeq(name, b + 1, l)) = 0
    BY <2>4, <2>5, Zenon
  <2>. QED BY <2>3, <2>6, Zenon
<1>. QED BY <1>6, <1>10, <1>11

\* The same of every name a service is announced under.
LEMMA ServiceNames ==
  ASSUME NEW name \in Seq(Token), is_service_type_name(name) \/ is_instance_name(name),
         ~Nested(name)
  PROVE  /\ service_type_from_name(name) = LastThree(name) /\ LastThree(name) # Empty
         /\ is_service_type_name(name) => LastThree(name) = name
<1>1. CASE is_service_type_name(name)
  <2>1. label_count(name) = 3
    BY <1>1 DEF is_service_type_name
  <2>2. name # Empty /\ Cardinality(Dots(name)) < 3
    BY <2>1, DotsAre
  <2>3. LastThree(name) = name
    BY <2>2, Zenon DEF LastThree, Dots
  <2>4. service_type_from_name(name) = name
    BY <1>1, Zenon DEF service_type_from_name
  <2>. QED BY <2>2, <2>3, <2>4
<1>2. CASE is_instance_name(name) /\ ~is_service_type_name(name)
  BY <1>2, InstanceNames
<1>. QED BY <1>1, <1>2

\* What a displayable record tells the registry.
LEMMA RecordTells ==
  ASSUME NEW rec \in ResourceRecordView, is_displayable_record(rec), ~Nested(Subject(rec))
  PROVE  /\ ServiceTypesOf(rec) = IF rec.type = A THEN {} ELSE {LastThree(Subject(rec))}
         /\ InstancesOf(rec)
              = IF rec.type = PTR /\ rec.owner # kDnsSdMetaService THEN {rec.rdata} ELSE {}
<1>1. rec.owner \in Seq(Token) /\ rec.rdata \in Seq(Token)
  BY DEF ResourceRecordView
<1>2. rec.type = A \/ rec.type = PTR \/ rec.type = SRV \/ rec.type = TXT
  BY DEF is_displayable_record
<1>3. A # PTR /\ A # SRV /\ A # TXT /\ PTR # SRV /\ PTR # TXT
  BY DEF A, PTR, SRV, TXT
<1>4. \A name : is_service_type_name(name) => name # kDnsSdMetaService
  BY Zenon DEF is_service_type_name
<1>5. CASE rec.type = A
  <2>1. InstancesOf(rec) = {}
    BY <1>3, <1>5 DEF InstancesOf
  <2>. QED BY <1>3, <1>5, <2>1 DEF ServiceTypesOf, Nonempty
<1>6. CASE rec.type = PTR
  <2>1. \/ rec.owner = kDnsSdMetaService /\ is_service_type_name(rec.rdata)
        \/ is_service_type_name(rec.owner) /\ is_instance_name(rec.rdata)
    BY <1>6 DEF is_displayable_record, is_audit_relevant_record, A, AAAA, PTR, SRV, TXT
  <2>2. Subject(rec) = rec.rdata
    BY <1>6 DEF Subject
  <2>3. /\ service_type_from_name(rec.rdata) = LastThree(rec.rdata) /\ LastThree(rec.rdata) # Empty
        /\ is_service_type_name(rec.rdata) => LastThree(rec.rdata) = rec.rdata
    BY <1>1, <2>1, <2>2, ServiceNames, Zenon
  <2>4. CASE rec.owner = kDnsSdMetaService
    <3>1. is_service_type_name(rec.rdata) /\ ~is_service_type_name(rec.owner)
      BY <1>4, <2>1, <2>4, Zenon
    <3>2. InstancesOf(rec) = {}
      BY <3>1 DEF InstancesOf
    <3>3. ServiceTypesOf(rec) = {rec.rdata}
      BY <1>3, <1>6, <2>4, <3>1, <3>2 DEF ServiceTypesOf, Nonempty
    <3>. QED BY <1>3, <1>6, <2>2, <2>3, <2>4, <3>1, <3>2, <3>3
  <2>5. CASE rec.owner # kDnsSdMetaService
    <3>1. is_service_type_name(rec.owner) /\ is_instance_name(rec.rdata)
      BY <2>1, <2>5, Zenon
    <3>2. InstancesOf(rec) = {rec.rdata}
      BY <1>6, <3>1 DEF InstancesOf
    <3>3. Nonempty({service_type_from_name(name) : name \in InstancesOf(rec)})
            = {LastThree(rec.rdata)}
      BY <2>3, <3>2 DEF Nonempty
    <3>4. ServiceTypesOf(rec) = {LastThree(rec.rdata)}
      BY <1>3, <1>6, <2>5, <3>3 DEF ServiceTypesOf
    <3>. QED BY <1>3, <1>6, <2>2, <2>5, <3>2, <3>4
  <2>. QED BY <2>4, <2>5
<1>7. CASE rec.type = SRV \/ rec.type = TXT
  <2>1. is_instance_name(rec.owner) \/ is_service_type_name(rec.owner)
    BY <1>7 DEF is_displayable_record, is_audit_relevant_record, A, AAAA, PTR, SRV, TXT
  <2>2. Subject(rec) = rec.owner
    BY <1>3, <1>7 DEF Subject
  <2>3. service_type_from_name(rec.owner) = LastThree(rec.owner) /\ LastThree(rec.owner) # Empty
    BY <1>1, <2>1, <2>2, ServiceNames, Zenon
  <2>4. InstancesOf(rec) = {}
    BY <1>3, <1>7 DEF InstancesOf
  <2>5. Nonempty({service_type_from_name(rec.owner)}) = {LastThree(rec.owner)}
    BY <2>3 DEF Nonempty
  <2>6. Nonempty({service_type_from_name(name) : name \in InstancesOf(rec)}) = {}
    BY <2>4 DEF Nonempty
  <2>7. ServiceTypesOf(rec) = {LastThree(rec.owner)}
    BY <1>3, <1>7, <2>5, <2>6 DEF ServiceTypesOf
  <2>. QED BY <1>3, <1>7, <2>2, <2>4, <2>7
<1>. QED BY <1>2, <1>5, <1>6, <1>7

--------------------------------------------------------------------------------
(* The registry knows what was heard                                       *)

\* Where no two records heard of a device have one key, the filter has let
\* through all of them.
LEMMA AllSent ==
  ASSUME IInv, NEW a \in Ip, ~HeardCollision(a)
  PROVE  SentTo(a) = HeardOf(a)
<1>1. SentTo(a) \subseteq HeardOf(a)
  BY DEF IInv, SentWasHeard
<1>2. ASSUME NEW rec \in HeardOf(a)
      PROVE  rec \in SentTo(a)
  <2>1. PICK r : (\E n \in SentOf(a) : r \in ToSet(sent[n].records)) /\ (r = rec \/ Collide(r, rec))
    BY HeardIsSent, Zenon
  <2>2. r \in SentTo(a)
    BY <2>1, Zenon DEF SentTo
  <2>3. ~Collide(r, rec)
    BY <1>1, <2>2, Zenon DEF HeardCollision
  <2>. QED BY <2>1, <2>2, <2>3
<1>. QED BY <1>1, <1>2

\* The hosts of a set of records are those RegistryKnowsHeard names.
LEMMA HostsAre == \A a : HostsIn(HeardOf(a)) = HostsHeard(a)
<1>1. ASSUME NEW rec, rec.type = SRV
      PROVE  host_label(rec) = extract_after_prefix(rec.rdata, <<TargetIs>>)
  BY <1>1 DEF host_label, A, AAAA, SRV, TXT
<1>2. ASSUME NEW rec
      PROVE  HostsOf(rec) = IF rec.type = SRV THEN Nonempty({extract_after_prefix(rec.rdata, <<TargetIs>>)})
                            ELSE IF rec.type = A THEN {rec.owner} ELSE {}
  BY <1>1 DEF HostsOf
<1>3. A # SRV
  BY DEF A, SRV
<1>4. ASSUME NEW a, NEW host
      PROVE  host \in HostsIn(HeardOf(a)) <=> host \in HostsHeard(a)
  <2>1. host \in HostsIn(HeardOf(a)) <=> \E rec \in HeardOf(a) : host \in HostsOf(rec)
    BY Zenon DEF HostsIn
  <2>2. ASSUME NEW rec \in HeardOf(a)
        PROVE  host \in HostsOf(rec)
                 <=> \/ rec.type = SRV /\ host # Empty
                         /\ host = extract_after_prefix(rec.rdata, <<TargetIs>>)
                     \/ rec.type = A /\ host = rec.owner
    BY <1>2, <1>3 DEF Nonempty
  <2>3. host \in HostsHeard(a)
          <=> \E rec \in HeardOf(a) :
                \/ rec.type = SRV /\ host # Empty
                     /\ host = extract_after_prefix(rec.rdata, <<TargetIs>>)
                \/ rec.type = A /\ host = rec.owner
    BY DEF HostsHeard, Nonempty
  <2>. QED BY <2>1, <2>2, <2>3
<1>. QED BY <1>4

\* The console registry knows exactly the service types and instances heard of
\* a device, and a host as soon as one was named: what the filter holds back it
\* has been told before.
THEOREM RegistryKnowsHeardAlways == Spec => []RegistryKnowsHeard
<1>1. ASSUME IInv, NEW a \in Ip, ~HeardCollision(a),
             \A rec \in HeardOf(a) : ~Nested(Subject(rec))
      PROVE  LET told == {rec \in HeardOf(a) : rec.type # A}
             IN  /\ devices[a].service_types = {LastThree(Subject(rec)) : rec \in told}
                 /\ devices[a].instances
                      = {rec.rdata : rec \in {r \in told : r.type = PTR /\ r.owner # kDnsSdMetaService}}
                 /\ IF HostsHeard(a) = {} THEN devices[a].mdns_host = Empty
                    ELSE devices[a].mdns_host \in HostsHeard(a)
  <2> DEFINE told == {rec \in HeardOf(a) : rec.type # A}
  <2>1. IsTold(devices[a], HeardOf(a))
    <3>1. IsTold(devices[a], SentTo(a))
      BY <1>1, Zenon DEF IInv, RegistryIsTold
    <3>. QED BY <1>1, <3>1, AllSent, Zenon
  <2>2. ASSUME NEW rec \in HeardOf(a)
        PROVE  /\ ServiceTypesOf(rec) = IF rec.type = A THEN {} ELSE {LastThree(Subject(rec))}
               /\ InstancesOf(rec)
                    = IF rec.type = PTR /\ rec.owner # kDnsSdMetaService THEN {rec.rdata} ELSE {}
    <3>1. is_displayable_record(rec)
      BY Zenon DEF HeardOf, Displayable
    <3>2. rec \in ResourceRecordView
      BY <1>1, WorkerTypes DEF IInv
    <3>. QED BY <1>1, <3>1, <3>2, RecordTells, Zenon
  <2>3. TypesIn(HeardOf(a)) = {LastThree(Subject(rec)) : rec \in told}
    <3>1. ASSUME NEW type
          PROVE  type \in TypesIn(HeardOf(a)) <=> \E rec \in told : type = LastThree(Subject(rec))
      <4>1. type \in TypesIn(HeardOf(a)) <=> \E rec \in HeardOf(a) : type \in ServiceTypesOf(rec)
        BY Zenon DEF TypesIn
      <4>. QED BY <2>2, <4>1
    <3>. QED BY <3>1
  <2>4. InstancesIn(HeardOf(a))
          = {rec.rdata : rec \in {r \in told : r.type = PTR /\ r.owner # kDnsSdMetaService}}
    <3>1. ASSUME NEW name
          PROVE  name \in InstancesIn(HeardOf(a))
                   <=> \E rec \in {r \in told : r.type = PTR /\ r.owner # kDnsSdMetaService} :
                         name = rec.rdata
      <4>1. name \in InstancesIn(HeardOf(a)) <=> \E rec \in HeardOf(a) : name \in InstancesOf(rec)
        BY Zenon DEF InstancesIn
      <4>2. PTR # A
        BY DEF PTR, A
      <4>. QED BY <2>2, <4>1, <4>2
    <3>. QED BY <3>1
  <2>. QED BY <2>1, <2>3, <2>4, HostsAre DEF IsTold, IsOneOf
<1>2. IInv => RegistryKnowsHeard
  BY <1>1, Zenon DEF RegistryKnowsHeard
<1>. QED BY <1>2, Invariance, PTL

--------------------------------------------------------------------------------
(* The order of the records                                                *)

\* What is in `out' is among the first n elements of `records', in the same order.
InOrderUpTo(out, records, n) ==
  /\ \A i \in 1..Len(out) : \E k \in 1..n : out[i] = records[k]
  /\ \A i, j \in 1..Len(out) : i < j =>
       \E k, l \in 1..n : k < l /\ out[i] = records[k] /\ out[j] = records[l]
InOrder(out, records) == InOrderUpTo(out, records, Len(records))

\* Order is kept when it is kept twice.
LEMMA OrderOfOrder ==
  ASSUME NEW s, NEW t, NEW u, InOrder(s, t), InOrder(t, u)
  PROVE  InOrder(s, u)
<1>1. ASSUME NEW i \in 1..Len(s)
      PROVE  \E k \in 1..Len(u) : s[i] = u[k]
  <2>1. PICK j \in 1..Len(t) : s[i] = t[j]
    BY Zenon DEF InOrder, InOrderUpTo
  <2>2. PICK k \in 1..Len(u) : t[j] = u[k]
    BY Zenon DEF InOrder, InOrderUpTo
  <2>. QED BY <2>1, <2>2
<1>2. ASSUME NEW i \in 1..Len(s), NEW j \in 1..Len(s), i < j
      PROVE  \E k, l \in 1..Len(u) : k < l /\ s[i] = u[k] /\ s[j] = u[l]
  <2>1. PICK k \in 1..Len(t), l \in 1..Len(t) : k < l /\ s[i] = t[k] /\ s[j] = t[l]
    BY <1>2, Zenon DEF InOrder, InOrderUpTo
  <2>2. PICK m \in 1..Len(u), n \in 1..Len(u) : m < n /\ t[k] = u[m] /\ t[l] = u[n]
    BY <2>1, Zenon DEF InOrder, InOrderUpTo
  <2>. QED BY <2>1, <2>2, Zenon
<1>. QED BY <1>1, <1>2, Zenon DEF InOrder, InOrderUpTo

\* FirstOfKey keeps the order of the records.
LEMMA FirstOfKeyInOrder ==
  ASSUME NEW records \in Seq(ResourceRecordView), NEW shown, NEW known, NEW keys
  PROVE  InOrder(FirstOfKey(records, shown, keys, known), records)
<1> DEFINE m == Len(records)
<1>1. m \in Nat /\ \A n \in 1..m : records[n] \in ResourceRecordView
  BY LenProperties, ElementOfSeq
<1>2. PICK c : /\ c[0] = <<>>
               /\ \A n \in 1..m : c[n] = IF IsFirst(n, shown, keys, known)
                                         THEN Append(c[n - 1], records[n]) ELSE c[n - 1]
               /\ FirstOfKey(records, shown, keys, known) = c[m]
  BY FirstOfKeySteps
<1> DEFINE S == {n \in 0..m : c[n] \in Seq(ResourceRecordView) /\ InOrderUpTo(c[n], records, n)}
<1> HIDE DEF m
<1>3. 0 \in S
  <2>1. <<>> \in Seq(ResourceRecordView) /\ InOrderUpTo(<<>>, records, 0)
    BY DEF InOrderUpTo
  <2>2. 0 \in 0..m
    BY <1>1
  <2>. QED BY <1>2, <2>1, <2>2
<1>4. ASSUME NEW n \in 1..m, n - 1 \in S
      PROVE  n \in S
  <2>1. c[n - 1] \in Seq(ResourceRecordView) /\ InOrderUpTo(c[n - 1], records, n - 1) /\ n \in 0..m
    BY <1>1, <1>4
  <2>2. PICK out : out = c[n - 1]
    OBVIOUS
  <2>3. out \in Seq(ResourceRecordView) /\ InOrderUpTo(out, records, n - 1)
    BY <2>1, <2>2
  <2>4. /\ n \in 1..n /\ \A k \in 1..(n - 1) : k \in 1..n /\ k < n
    BY <1>1
  <2>5. CASE c[n] = out
    <3>1. InOrderUpTo(out, records, n)
      <4>1. \A i \in 1..Len(out) : \E k \in 1..n : out[i] = records[k]
        BY <2>3, <2>4, Zenon DEF InOrderUpTo
      <4>2. \A i, j \in 1..Len(out) : i < j =>
              \E k, l \in 1..n : k < l /\ out[i] = records[k] /\ out[j] = records[l]
        <5>1. ASSUME NEW i \in 1..Len(out), NEW j \in 1..Len(out), i < j
              PROVE  \E k, l \in 1..n : k < l /\ out[i] = records[k] /\ out[j] = records[l]
          <6>1. PICK k \in 1..(n - 1), l \in 1..(n - 1) :
                  k < l /\ out[i] = records[k] /\ out[j] = records[l]
            BY <2>3, <5>1, Zenon DEF InOrderUpTo
          <6>2. k \in 1..n /\ l \in 1..n
            BY <2>4, Zenon
          <6>. QED BY <6>1, <6>2, Zenon
        <5>. QED BY <5>1, Zenon
      <4>. QED BY <4>1, <4>2, Zenon DEF InOrderUpTo
    <3>. QED BY <2>1, <2>3, <2>5, <3>1, Zenon
  <2>6. CASE c[n] = Append(out, records[n])
    <3>1. PICK more : more = Append(out, records[n])
      OBVIOUS
    <3>2. PICK d \in Nat : d = Len(out)
      BY <2>3, LenProperties
    <3>3. /\ more \in Seq(ResourceRecordView) /\ Len(more) = d + 1 /\ more[d + 1] = records[n]
          /\ \A i \in 1..d : more[i] = out[i]
      BY <1>1, <2>3, <3>1, <3>2, AppendProperties
    <3>4. /\ \A i \in 1..(d + 1) : i \in 1..d \/ i = d + 1
          /\ \A i, j \in 1..(d + 1) : i < j => i \in 1..d
      OBVIOUS
    <3>5. /\ \A i \in 1..d : \E k \in 1..(n - 1) : out[i] = records[k]
          /\ \A i, j \in 1..d : i < j =>
                 \E k, l \in 1..(n - 1) : k < l /\ out[i] = records[k] /\ out[j] = records[l]
      BY <2>3, <3>2, Zenon DEF InOrderUpTo
    <3>6. ASSUME NEW i \in 1..(d + 1)
          PROVE  \E k \in 1..n : more[i] = records[k]
      <4>1. CASE i \in 1..d
        <5>1. PICK k \in 1..(n - 1) : out[i] = records[k]
          BY <3>5, <4>1, Zenon
        <5>. QED BY <2>4, <3>3, <4>1, <5>1, Zenon
      <4>2. CASE i = d + 1
        BY <2>4, <3>3, <4>2, Zenon
      <4>. QED BY <3>4, <4>1, <4>2, Zenon
    <3>7. ASSUME NEW i \in 1..(d + 1), NEW j \in 1..(d + 1), i < j
          PROVE  \E k, l \in 1..n : k < l /\ more[i] = records[k] /\ more[j] = records[l]
      <4>1. i \in 1..d /\ more[i] = out[i]
        BY <3>3, <3>4, <3>7, Zenon
      <4>2. CASE j \in 1..d
        <5>1. more[j] = out[j]
          BY <3>3, <4>2, Zenon
        <5>2. PICK k \in 1..(n - 1), l \in 1..(n - 1) :
                k < l /\ out[i] = records[k] /\ out[j] = records[l]
          BY <3>5, <3>7, <4>1, <4>2, Zenon
        <5>. QED BY <2>4, <4>1, <5>1, <5>2, Zenon
      <4>3. CASE j = d + 1
        <5>1. PICK k \in 1..(n - 1) : out[i] = records[k]
          BY <3>5, <4>1, Zenon
        <5>. QED BY <2>4, <3>3, <4>1, <4>3, <5>1, Zenon
      <4>. QED BY <3>4, <4>2, <4>3, Zenon
    <3>8. InOrderUpTo(more, records, n)
      <4>1. Len(more) = d + 1
        BY <3>3
      <4>2. \A i \in 1..Len(more) : \E k \in 1..n : more[i] = records[k]
        BY <3>6, <4>1
      <4>3. \A i, j \in 1..Len(more) : i < j =>
              \E k, l \in 1..n : k < l /\ more[i] = records[k] /\ more[j] = records[l]
        BY <3>7, <4>1
      <4>. QED BY <4>2, <4>3, Zenon DEF InOrderUpTo
    <3>. QED BY <2>1, <2>6, <3>1, <3>3, <3>8, Zenon
  <2>7. c[n] = out \/ c[n] = Append(out, records[n])
    BY <1>2, <2>2, Zenon
  <2>. QED BY <2>5, <2>6, <2>7
<1>5. m \in S
  <2> HIDE DEF S
  <2>1. \A n \in 1..m : n - 1 \in S => n \in S
    BY <1>4, Zenon
  <2>2. \A n \in 0..m : n \in S
    BY <1>1, <1>3, <2>1, UpTo
  <2>3. m \in 0..m
    BY <1>1
  <2>. QED BY <2>2, <2>3, Zenon
<1>6. InOrderUpTo(c[m], records, m)
  BY <1>5
<1>7. InOrder(c[m], records)
  BY <1>6, Zenon DEF InOrder, m
<1>. QED BY <1>2, <1>7, Zenon DEF m

\* The filter keeps the order of the records in the response.
LEMMA FilterInOrder ==
  ASSUME NEW p \in Packets
  PROVE  InOrder(filter_unseen(create_discovery_event(p)).records, p.records)
<1>1. PICK ev : ev = create_discovery_event(p)
  OBVIOUS
<1>2. PICK C : C = [rec \in ResourceRecordView |-> record_content_key(rec)]
  OBVIOUS
<1>3. ev.records \in Seq(ResourceRecordView)
  BY <1>1, <1>2, EventIs, Zenon DEF OnePerKey
<1>4. InOrder(ev.records, p.records)
  <2>1. p.records \in Seq(ResourceRecordView)
    BY PacketType
  <2>2. \E shown, keys : ev.records = FirstOfKey(p.records, shown, keys, {})
    BY <1>1 DEF create_discovery_event
  <2>. QED BY <2>1, <2>2, FirstOfKeyInOrder, Zenon
<1>5. InOrder(filter_unseen(ev).records, ev.records)
  <2>1. ev = [ip |-> p.ip, records |-> ev.records]
    BY <1>1 DEF create_discovery_event
  <2>2. \E keys : filter_unseen(ev).records = FirstOfKey(ev.records, DOMAIN ev.records, keys, seen_keys)
    BY <2>1 DEF filter_unseen
  <2>. QED BY <1>3, <2>2, FirstOfKeyInOrder, Zenon
<1>. QED BY <1>1, <1>4, <1>5, OrderOfOrder, Zenon

--------------------------------------------------------------------------------
(* The host after an event                                                 *)

\* What the text after a prefix is made of.
LEMMA AfterPrefix ==
  ASSUME NEW text \in Seq(Token), NEW word
  PROVE  extract_after_prefix(text, <<word>>) \in Seq(Token)
<1>1. CASE find(text, <<word>>) = 0
  <2>1. Empty \in Seq(Token)
    BY DEF Empty
  <2>. QED BY <1>1, <2>1 DEF extract_after_prefix
<1>2. CASE find(text, <<word>>) # 0
  <2>1. PICK S : S = Token \cup {word}
    OBVIOUS
  <2>2. PICK l \in Nat : l = Len(text)
    BY LenProperties
  <2>3. PICK part \in Seq(S) : part = <<word>> /\ Len(part) = 1
    <3>1. <<word>> \in Seq(S) /\ Len(<<word>>) = 1
      BY <2>1
    <3>. QED BY <3>1, Zenon
  <2>4. text \in Seq(S)
    <3>1. \A i \in 1..l : text[i] \in S
      BY <2>1, <2>2, ElementOfSeq
    <3>2. text = [i \in 1..l |-> text[i]]
      BY <2>2, LenProperties
    <3>. QED BY <3>1, <3>2
  <2>5. \A i : i \in Places(text, part) <=> i \in Int /\ HasAt(text, i, part)
    <3>1. Len(part) > 0
      BY <2>3
    <3>. QED BY <2>4, <3>1, PlacesAre
  <2>6. Places(text, part) \subseteq Nat
    BY <2>5 DEF HasAt
  <2>7. Places(text, part) # {}
    BY <1>2, <2>3, Zenon DEF find
  <2>8. find(text, part) \in Places(text, part)
    <3>1. \E i \in Places(text, part) : \A j \in Places(text, part) : i <= j
      BY <2>6, <2>7, LeastNatural
    <3>. QED BY <2>7, <3>1, Zenon DEF find
  <2>9. PICK i \in Nat : i = find(text, part) /\ i >= 1
    BY <2>5, <2>8 DEF HasAt
  <2>10. extract_after_prefix(text, <<word>>) = SubSeq(text, i + 1, l)
    BY <1>2, <2>2, <2>3, <2>9, Zenon DEF extract_after_prefix, From
  <2>11. \A j \in (i + 1)..l : text[j] \in Token
    <3>1. \A j \in (i + 1)..l : j \in 1..l
      BY <2>9
    <3>. QED BY <2>2, <3>1, ElementOfSeq
  <2>12. i + 1 \in Int /\ l \in Int
    BY <2>2, <2>9
  <2>13. SubSeq(text, i + 1, l) \in Seq(Token)
    BY <2>11, <2>12, SubSeqProperties
  <2>. QED BY <2>10, <2>13
<1>. QED BY <1>1, <1>2

\* A name that ends with the domain is not empty.
LEMMA LocalNames ==
  ASSUME NEW name \in Seq(Token), ends_with(name, DotLocal)
  PROVE  name # Empty
<1>1. PICK S : S = Token \cup {Dot, "local"}
  OBVIOUS
<1>2. PICK part \in Seq(S) : part = DotLocal /\ Len(part) = 2
  <2>1. <<Dot, "local">> \in Seq(S) /\ Len(<<Dot, "local">>) = 2
    BY <1>1
  <2>. QED BY <2>1, Zenon DEF DotLocal
<1>3. name \in Seq(S) /\ Len(name) \in Nat
  BY <1>1, LenProperties
<1>4. HasAt(name, Len(name) - 2 + 1, part)
  BY <1>2, <1>3, EndsWithIs
<1>5. Len(name) - 2 + 1 >= 1
  BY <1>4 DEF HasAt
<1>6. Len(name) # 0
  BY <1>3, <1>5
<1>. QED BY <1>6 DEF Empty

\* The label is what the registry goes by: that of an SRV record is taken, any
\* other where there is no host.
LEMMA LabelIsHost ==
  ASSUME NEW rec \in ResourceRecordView, is_displayable_record(rec)
  PROVE  /\ host_label(rec) \in Seq(Token)
         /\ \A host : HostAfterRecord(host, rec)
                        = IF host_label(rec) # Empty /\ (rec.type = SRV \/ host = Empty)
                          THEN host_label(rec) ELSE host
<1>1. rec.owner \in Seq(Token) /\ rec.rdata \in Seq(Token)
  BY DEF ResourceRecordView
<1>2. rec.type = A \/ rec.type = PTR \/ rec.type = SRV \/ rec.type = TXT
  BY DEF is_displayable_record
<1>3. A # PTR /\ A # SRV /\ A # TXT /\ PTR # SRV /\ PTR # TXT /\ SRV # TXT
        /\ AAAA # PTR /\ AAAA # SRV /\ AAAA # TXT
  BY DEF A, AAAA, PTR, SRV, TXT
<1>4. CASE rec.type = SRV
  <2>1. host_label(rec) = extract_after_prefix(rec.rdata, <<TargetIs>>)
    BY <1>3, <1>4 DEF host_label
  <2>2. host_label(rec) \in Seq(Token)
    BY <1>1, <2>1, AfterPrefix
  <2>. QED BY <1>3, <1>4, <2>2 DEF HostAfterRecord
<1>5. CASE rec.type = A
  <2>1. ends_with(rec.owner, DotLocal)
    BY <1>5 DEF is_displayable_record, is_audit_relevant_record, A, AAAA, PTR, SRV, TXT
  <2>2. host_label(rec) = rec.owner
    BY <1>3, <1>5, <2>1 DEF host_label
  <2>3. rec.owner # Empty
    BY <1>1, <2>1, LocalNames
  <2>. QED BY <1>1, <1>3, <1>5, <2>1, <2>2, <2>3 DEF HostAfterRecord
<1>6. CASE rec.type = PTR \/ rec.type = TXT
  <2>1. rec.type = TXT => has_mdns_service_suffix(rec.owner)
    BY DEF is_displayable_record, is_audit_relevant_record, is_instance_name, is_service_type_name,
           A, AAAA, PTR, SRV, TXT
  <2>2. host_label(rec) = Empty
    BY <1>3, <1>6, <2>1 DEF host_label
  <2>3. Empty \in Seq(Token)
    BY DEF Empty
  <2>4. \A host : HostAfterRecord(host, rec) = host
    BY <1>3, <1>6 DEF HostAfterRecord
  <2>. QED BY <2>2, <2>3, <2>4
<1>. QED BY <1>2, <1>4, <1>5, <1>6

\* The host of a device after an event, when it was `host' before.
HostAfterEvent(host, ev) ==
  LET after[n \in 0..Len(ev.records)] ==
        IF n = 0 THEN host ELSE HostAfterRecord(after[n - 1], ev.records[n])
  IN  after[Len(ev.records)]

\* The host of a snapshot after an event, on its own.
LEMMA MergedHost ==
  \A snap, ev : merge_records(snap, ev).mdns_host = HostAfterEvent(snap.mdns_host, ev)
BY DEF merge_records, HostAfterEvent

\* An event with records that may be shown.
ShownEvent(ev) ==
  ev.records \in Seq(ResourceRecordView) /\ \A rec \in ToSet(ev.records) : is_displayable_record(rec)

\* The hosts after each of the records.
HostsAfter(c, host, records) ==
  /\ c[0] = host
  /\ \A n \in 1..Len(records) : c[n] = HostAfterRecord(c[n - 1], records[n])

\* HostAfterEvent takes the records one after the other.
LEMMA HostSteps ==
  ASSUME NEW ev, ShownEvent(ev), NEW host \in Seq(Token)
  PROVE  \E c \in [0..Len(ev.records) -> Seq(Token)] :
           HostsAfter(c, host, ev.records) /\ HostAfterEvent(host, ev) = c[Len(ev.records)]
<1> DEFINE m == Len(ev.records)
           value(after, n) == IF n = 0 THEN host ELSE HostAfterRecord(after[n - 1], ev.records[n])
           c == CHOOSE after : after = [n \in 0..m |-> value(after, n)]
           X == Seq(Token)
           step == [n \in 1..m |-> [h \in X |-> HostAfterRecord(h, ev.records[n])]]
<1>1. /\ m \in Nat
      /\ \A n \in 1..m : ev.records[n] \in ResourceRecordView /\ is_displayable_record(ev.records[n])
  BY LenProperties, ElementOfSeq DEF ShownEvent, ToSet
<1>2. step \in [1..m -> [X -> X]]
  <2>1. ASSUME NEW n \in 1..m, NEW h \in X
        PROVE  HostAfterRecord(h, ev.records[n]) \in X
    <3>1. PICK rec \in ResourceRecordView : rec = ev.records[n] /\ is_displayable_record(rec)
      BY <1>1
    <3>2. /\ host_label(rec) \in Seq(Token)
          /\ HostAfterRecord(h, rec)
               = IF host_label(rec) # Empty /\ (rec.type = SRV \/ h = Empty) THEN host_label(rec) ELSE h
      BY <3>1, LabelIsHost
    <3>. QED BY <3>1, <3>2
  <2> HIDE DEF m, X
  <2>. QED BY <2>1
<1> HIDE DEF m, X, step
<1>3. PICK f : IsIteration(f, X, host, m, step)
  <2>1. host \in X
    BY DEF X
  <2>. QED BY <1>1, <1>2, <2>1, Recursion, Zenon
<1>4. /\ f \in [0..m -> X] /\ f[0] = host
      /\ \A n \in 1..m : f[n] = step[n][f[n - 1]]
  BY <1>3, Zenon DEF IsIteration
<1>5. \A n \in 1..m : f[n] = HostAfterRecord(f[n - 1], ev.records[n])
  <2>1. \A n \in 1..m : f[n - 1] \in X
    BY <1>1, <1>4
  <2>. QED BY <1>4, <2>1 DEF step
<1>6. \A n \in 0..m : f[n] = value(f, n)
  <2>1. \A n \in 0..m : n # 0 => n \in 1..m
    BY <1>1
  <2>. QED BY <1>4, <1>5, <2>1, Zenon
<1> HIDE DEF value
<1>7. f = [n \in 0..m |-> value(f, n)]
  BY <1>4, <1>6
<1>8. c = [n \in 0..m |-> value(c, n)]
  BY <1>7, Zenon
<1>9. HostAfterEvent(host, ev) = c[m]
  BY Zenon DEF HostAfterEvent, c, value, m
<1> HIDE DEF c
<1>10. c[0] = host /\ \A n \in 1..m : c[n] = HostAfterRecord(c[n - 1], ev.records[n])
  <2>1. 0 \in 0..m /\ \A n \in 1..m : n \in 0..m /\ n # 0
    BY <1>1
  <2>. QED BY <1>8, <2>1 DEF value
<1>11. \A n \in 0..m : c[n] \in X
  <2> DEFINE S == {n \in 0..m : c[n] \in X}
  <2>1. 0 \in S
    BY <1>1, <1>10 DEF X
  <2>2. ASSUME NEW n \in 1..m, n - 1 \in S
        PROVE  n \in S
    <3>1. PICK h \in X : h = c[n - 1]
      BY <2>2
    <3>2. step[n][h] \in X
      BY <1>2
    <3>3. step[n][h] = HostAfterRecord(h, ev.records[n])
      BY DEF step
    <3>4. n \in 0..m
      BY <1>1
    <3>. QED BY <1>10, <3>1, <3>2, <3>3, <3>4
  <2> HIDE DEF S
  <2>3. \A n \in 0..m : n \in S
    BY <1>1, <2>1, <2>2, UpTo
  <2>. QED BY <2>3 DEF S
<1>12. PICK d : d = [n \in 0..m |-> c[n]]
  OBVIOUS
<1>13. d \in [0..m -> X] /\ \A n \in 0..m : d[n] = c[n]
  BY <1>11, <1>12
<1>14. d[0] = host /\ \A n \in 1..m : d[n] = HostAfterRecord(d[n - 1], ev.records[n])
  <2>1. 0 \in 0..m /\ m \in 0..m /\ \A n \in 1..m : n \in 0..m /\ n - 1 \in 0..m
    BY <1>1
  <2>. QED BY <1>10, <1>13, <2>1, Zenon
<1>15. HostAfterEvent(host, ev) = d[m]
  <2>1. m \in 0..m
    BY <1>1
  <2>. QED BY <1>9, <1>13, <2>1, Zenon
<1>16. HostsAfter(d, host, ev.records)
  BY <1>14, Zenon DEF HostsAfter, m
<1>. QED BY <1>13, <1>15, <1>16 DEF X, m

\* What the records of an event do to a host, one after the other.
LEMMA OneRecord ==
  ASSUME NEW ev, ShownEvent(ev), NEW n \in 1..Len(ev.records)
  PROVE  LET rec == ev.records[n] IN
         /\ rec \in ResourceRecordView /\ is_displayable_record(rec) /\ rec \in ToSet(ev.records)
         /\ host_label(rec) \in Seq(Token)
         /\ NamesHost(rec) <=> rec.type = SRV /\ host_label(rec) # Empty
         /\ \A host : HostAfterRecord(host, rec)
                        = IF NamesHost(rec) \/ (host_label(rec) # Empty /\ host = Empty)
                          THEN host_label(rec) ELSE host
<1>1. PICK rec \in ResourceRecordView :
        rec = ev.records[n] /\ is_displayable_record(rec) /\ rec \in ToSet(ev.records)
  BY LenProperties, ElementOfSeq DEF ShownEvent, ToSet
<1>2. /\ host_label(rec) \in Seq(Token)
      /\ \A host : HostAfterRecord(host, rec)
                     = IF host_label(rec) # Empty /\ (rec.type = SRV \/ host = Empty)
                       THEN host_label(rec) ELSE host
  BY <1>1, LabelIsHost
<1>3. NamesHost(rec) <=> rec.type = SRV /\ host_label(rec) # Empty
  BY <1>1 DEF NamesHost
<1>. QED BY <1>1, <1>2, <1>3

\* Behind a record after which no other host is named, the host stays.
LEMMA HostFromThere ==
  ASSUME NEW ev, ShownEvent(ev), NEW host, NEW c, HostsAfter(c, host, ev.records),
         NEW i \in 0..Len(ev.records), c[i] # Empty,
         \A n \in 1..Len(ev.records) :
           i < n /\ NamesHost(ev.records[n]) => host_label(ev.records[n]) = c[i]
  PROVE  c[Len(ev.records)] = c[i]
<1>1. PICK m \in Nat : m = Len(ev.records)
  BY LenProperties DEF ShownEvent
<1>2. c[0] = host /\ \A n \in 1..m : c[n] = HostAfterRecord(c[n - 1], ev.records[n])
  BY <1>1, Zenon DEF HostsAfter
<1> DEFINE S == {n \in 0..m : i <= n => c[n] = c[i]}
<1>3. 0 \in S
  <2>1. 0 \in 0..m /\ (i <= 0 => i = 0)
    BY <1>1
  <2>. QED BY <2>1
<1>4. ASSUME NEW n \in 1..m, n - 1 \in S
      PROVE  n \in S
  <2>1. n \in 0..m /\ (i <= n => i = n \/ (i <= n - 1 /\ i < n))
    BY <1>1
  <2>2. ASSUME i <= n - 1, i < n
        PROVE  c[n] = c[i]
    <3>1. c[n - 1] = c[i] /\ c[n] = HostAfterRecord(c[n - 1], ev.records[n])
      BY <1>2, <1>4, <2>2
    <3>2. NamesHost(ev.records[n]) => host_label(ev.records[n]) = c[i]
      BY <1>1, <2>2
    <3>3. PICK h, rec : h = c[i] /\ rec = ev.records[n]
      OBVIOUS
    <3>4. HostAfterRecord(h, rec)
            = IF NamesHost(rec) \/ (host_label(rec) # Empty /\ h = Empty)
              THEN host_label(rec) ELSE h
      BY <1>1, <3>3, OneRecord
    <3>. QED BY <3>1, <3>2, <3>3, <3>4
  <2>. QED BY <2>1, <2>2
<1>5. m \in S
  <2> HIDE DEF S
  <2>1. \A n \in 0..m : n \in S
    BY <1>3, <1>4, UpTo
  <2>. QED BY <2>1
<1>. QED BY <1>1, <1>5

\* An event that names no other host leaves a host as it is.
LEMMA HostStays ==
  ASSUME NEW ev, ShownEvent(ev), NEW host \in Seq(Token), host # Empty,
         \A rec \in ToSet(ev.records) : NamesHost(rec) => host_label(rec) = host
  PROVE  HostAfterEvent(host, ev) = host
<1>1. PICK c : HostsAfter(c, host, ev.records) /\ HostAfterEvent(host, ev) = c[Len(ev.records)]
  BY HostSteps
<1>2. c[0] = host
  BY <1>1 DEF HostsAfter
<1>3. \A n \in 1..Len(ev.records) :
        0 < n /\ NamesHost(ev.records[n]) => host_label(ev.records[n]) = c[0]
  BY <1>2, OneRecord
<1>4. 0 \in 0..Len(ev.records)
  BY LenProperties DEF ShownEvent
<1>5. c[Len(ev.records)] = c[0]
  BY <1>1, <1>2, <1>3, <1>4, HostFromThere, Zenon
<1>. QED BY <1>1, <1>2, <1>5

\* A record of an event that names a host decides, if none behind it names another.
LEMMA LastHost ==
  ASSUME NEW ev, ShownEvent(ev), NEW host \in Seq(Token),
         NEW i \in 1..Len(ev.records), NamesHost(ev.records[i]),
         \A n \in 1..Len(ev.records) :
           i < n /\ NamesHost(ev.records[n]) => host_label(ev.records[n]) = host_label(ev.records[i])
  PROVE  HostAfterEvent(host, ev) = host_label(ev.records[i])
<1>1. PICK c : HostsAfter(c, host, ev.records) /\ HostAfterEvent(host, ev) = c[Len(ev.records)]
  BY HostSteps
<1>2. c[i] = HostAfterRecord(c[i - 1], ev.records[i])
  BY <1>1 DEF HostsAfter
<1>3. c[i] = host_label(ev.records[i]) /\ host_label(ev.records[i]) # Empty
  <2>1. PICK h, rec : h = c[i - 1] /\ rec = ev.records[i]
    OBVIOUS
  <2>2. /\ NamesHost(rec) <=> rec.type = SRV /\ host_label(rec) # Empty
        /\ HostAfterRecord(h, rec)
             = IF NamesHost(rec) \/ (host_label(rec) # Empty /\ h = Empty)
               THEN host_label(rec) ELSE h
    BY <2>1, OneRecord
  <2>. QED BY <1>2, <2>1, <2>2
<1>4. i \in 0..Len(ev.records)
  BY LenProperties DEF ShownEvent
<1>5. c[Len(ev.records)] = c[i]
  <2>1. HostsAfter(c, host, ev.records) /\ c[i] # Empty
    BY <1>1, <1>3
  <2>2. \A n \in 1..Len(ev.records) :
          i < n /\ NamesHost(ev.records[n]) => host_label(ev.records[n]) = c[i]
    BY <1>3
  <2>. QED BY <1>4, <2>1, <2>2, HostFromThere, ZenonT(90)
<1>. QED BY <1>1, <1>3, <1>5

\* Two hosts are one after an event that names a host.
LEMMA HostsMeet ==
  ASSUME NEW ev, ShownEvent(ev), NEW h1 \in Seq(Token), NEW h2 \in Seq(Token),
         h1 = h2 \/ \E rec \in ToSet(ev.records) : NamesHost(rec)
  PROVE  HostAfterEvent(h1, ev) = HostAfterEvent(h2, ev)
<1>1. PICK c : HostsAfter(c, h1, ev.records) /\ HostAfterEvent(h1, ev) = c[Len(ev.records)]
  BY HostSteps
<1>2. PICK d : HostsAfter(d, h2, ev.records) /\ HostAfterEvent(h2, ev) = d[Len(ev.records)]
  BY HostSteps
<1>3. PICK m \in Nat : m = Len(ev.records)
  BY LenProperties DEF ShownEvent
<1>4. /\ c[0] = h1 /\ \A n \in 1..m : c[n] = HostAfterRecord(c[n - 1], ev.records[n])
      /\ d[0] = h2 /\ \A n \in 1..m : d[n] = HostAfterRecord(d[n - 1], ev.records[n])
  BY <1>1, <1>2, <1>3, Zenon DEF HostsAfter
<1> DEFINE named(n) == \E k \in 1..n : NamesHost(ev.records[k])
           S == {n \in 0..m : h1 = h2 \/ named(n) => c[n] = d[n]}
<1>5. 0 \in S
  <2>1. ~named(0) /\ 0 \in 0..m
    BY <1>3
  <2>. QED BY <1>4, <2>1
<1>6. ASSUME NEW n \in 1..m, n - 1 \in S
      PROVE  n \in S
  <2>1. n \in 0..m
    BY <1>3
  <2>2. CASE NamesHost(ev.records[n])
    <3>1. \A h : HostAfterRecord(h, ev.records[n]) = host_label(ev.records[n])
      BY <1>3, <2>2, OneRecord
    <3>. QED BY <1>4, <2>1, <3>1
  <2>3. CASE ~NamesHost(ev.records[n])
    <3>1. named(n) => named(n - 1)
      <4>1. \A k \in 1..n : k = n \/ k \in 1..(n - 1)
        BY <1>3
      <4>. QED BY <2>3, <4>1
    <3> HIDE DEF named
    <3>. QED BY <1>4, <1>6, <2>1, <3>1
  <2>. QED BY <2>2, <2>3
<1>7. m \in S
  <2> HIDE DEF S
  <2>1. \A n \in 0..m : n \in S
    BY <1>5, <1>6, UpTo
  <2>. QED BY <2>1
<1>8. h1 = h2 \/ named(m)
  <2>1. CASE \E rec \in ToSet(ev.records) : NamesHost(rec)
    <3>1. DOMAIN ev.records = 1..m
      BY <1>3, LenProperties DEF ShownEvent
    <3>. QED BY <2>1, <3>1 DEF ToSet
  <2>. QED BY <2>1
<1>9. c[m] = d[m]
  <2> HIDE DEF named
  <2>. QED BY <1>7, <1>8
<1>. QED BY <1>1, <1>2, <1>3, <1>9

--------------------------------------------------------------------------------
(* The same in the database                                                *)

\* A host in the database, where NULL stands for none.
Column(host) == IF host = Empty THEN None ELSE host

\* Records of events are in the table.
EventIsPosted(ev) == ShownEvent(ev) /\ ToSet(ev.records) \subseteq AllRecords

\* The table by its fields.
LEMMA PostedIs ==
  ASSUME NEW rec \in AllRecords
  PROVE  Posted[rec] = [srv |-> rec.type = SRV, host |-> Column(host_label(rec)),
                        services |-> service_types_from_record(rec), json |-> ValidJson(rec)]
BY DEF Posted, Column

\* merge_mdns_host does to the column what merge_records does to the host.
LEMMA MergeIs ==
  ASSUME NEW ev, EventIsPosted(ev), NEW n \in 1..Len(ev.records), NEW host \in Seq(Token)
  PROVE  Api!MergeHost(Column(host), Body(ev).records[n])
           = Column(HostAfterRecord(host, ev.records[n]))
<1>1. PICK rec \in AllRecords :
        /\ rec = ev.records[n] /\ host_label(rec) \in Seq(Token)
        /\ NamesHost(rec) <=> rec.type = SRV /\ host_label(rec) # Empty
        /\ HostAfterRecord(host, rec)
             = IF NamesHost(rec) \/ (host_label(rec) # Empty /\ host = Empty)
               THEN host_label(rec) ELSE host
  BY OneRecord DEF EventIsPosted
<1>2. n \in DOMAIN ev.records
  BY LenProperties DEF EventIsPosted, ShownEvent
<1>3. Body(ev).records[n] = [srv |-> rec.type = SRV, host |-> Column(host_label(rec))]
  <2>1. /\ Posted[rec].srv = (rec.type = SRV)
        /\ Posted[rec].host = Column(host_label(rec))
    <3>1. PICK b \in BOOLEAN : b = (rec.type = SRV)
      OBVIOUS
    <3>2. PICK t : t = Posted[rec]
      OBVIOUS
    <3>3. PICK host_of, types, json : /\ host_of = Column(host_label(rec))
                                     /\ types = service_types_from_record(rec)
                                     /\ json = ValidJson(rec)
      OBVIOUS
    <3>4. t = [srv |-> rec.type = SRV, host |-> host_of, services |-> types, json |-> json]
      BY <3>2, <3>3, PostedIs, Zenon
    <3>5. t = [srv |-> b, host |-> host_of, services |-> types, json |-> json]
      BY <3>1, <3>4
    <3>6. t.srv = b /\ t.host = host_of
      BY <3>5
    <3>. QED BY <3>1, <3>2, <3>3, <3>6
  <2>2. Body(ev).records[n] = [srv |-> Posted[rec].srv, host |-> Posted[rec].host]
    BY <1>1, <1>2 DEF Body
  <2>. QED BY <2>1, <2>2
<1>4. None \notin Seq(Token)
  BY NullAssumption
<1>5. PICK e : e = Body(ev).records[n]
  OBVIOUS
<1>6. e.srv = (rec.type = SRV) /\ e.host = Column(host_label(rec))
  BY <1>3, <1>5
<1>7. (e.host # None <=> host_label(rec) # Empty) /\ (Column(host) = None <=> host = Empty)
  BY <1>1, <1>4, <1>6 DEF Column
<1>8. Api!MergeHost(Column(host), e)
        = IF e.host # None /\ (e.srv \/ Column(host) = None) THEN e.host ELSE Column(host)
  BY DEF Api!MergeHost
<1>9. CASE host_label(rec) # Empty /\ (rec.type = SRV \/ host = Empty)
  BY <1>1, <1>5, <1>6, <1>7, <1>8, <1>9 DEF Column
<1>10. CASE ~(host_label(rec) # Empty /\ (rec.type = SRV \/ host = Empty))
  BY <1>1, <1>5, <1>6, <1>7, <1>8, <1>10 DEF Column
<1>. QED BY <1>9, <1>10

\* An event does to the column what it does to the host.
LEMMA ApiHostAfter ==
  ASSUME NEW ev, EventIsPosted(ev), NEW host \in Seq(Token)
  PROVE  Api!HostAfter(Column(host), Body(ev).records) = Column(HostAfterEvent(host, ev))
<1> DEFINE records == Body(ev).records
           m == Len(records)
           value(c, i) == IF i = 0 THEN Column(host) ELSE Api!MergeHost(c[i - 1], records[i])
           c == CHOOSE f : f = [i \in 0..m |-> value(f, i)]
<1>1. /\ records = [i \in DOMAIN ev.records |->
                      [srv |-> Posted[ev.records[i]].srv, host |-> Posted[ev.records[i]].host]]
      /\ DOMAIN ev.records = 1..Len(ev.records) /\ Len(ev.records) \in Nat
  BY LenProperties DEF Body, EventIsPosted, ShownEvent
<1>2. m = Len(ev.records) /\ m \in Nat
  BY <1>1
<1> HIDE DEF m
<1>3. PICK h \in [0..m -> Seq(Token)] :
        /\ h[0] = host /\ \A n \in 1..m : h[n] = HostAfterRecord(h[n - 1], ev.records[n])
        /\ HostAfterEvent(host, ev) = h[m]
  BY <1>2, HostSteps DEF EventIsPosted, HostsAfter
<1>4. PICK f : f = [n \in 0..m |-> Column(h[n])]
  OBVIOUS
<1>5. \A n \in 1..m : Api!MergeHost(Column(h[n - 1]), records[n]) = Column(h[n])
  <2>1. \A n \in 1..m : h[n - 1] \in Seq(Token)
    BY <1>2
  <2>. QED BY <1>2, <1>3, <2>1, MergeIs
<1>6. f = [i \in 0..m |-> value(f, i)]
  <2>1. \A n \in 0..m : n = 0 \/ (n \in 1..m /\ n # 0 /\ n - 1 \in 0..m)
    BY <1>2
  <2>2. \A n \in 0..m : f[n] = Column(h[n])
    BY <1>4
  <2> HIDE DEF records
  <2>3. \A n \in 0..m : Column(h[n]) = value(f, n)
    BY <1>3, <1>5, <2>1, <2>2
  <2> HIDE DEF value
  <2>. QED BY <1>4, <2>3
<1>7. c = [i \in 0..m |-> value(c, i)]
  <2> HIDE DEF value
  <2>. QED BY <1>6, Zenon
<1>8. Api!HostAfter(Column(host), records) = c[m]
  BY Zenon DEF Api!HostAfter, m
<1> HIDE DEF c, records
<1>9. c[0] = Column(host) /\ \A n \in 1..m : c[n] = Api!MergeHost(c[n - 1], records[n])
  <2>1. 0 \in 0..m /\ \A n \in 1..m : n \in 0..m /\ n # 0
    BY <1>2
  <2>. QED BY <1>7, <2>1
<1> DEFINE S == {n \in 0..m : c[n] = Column(h[n])}
<1>10. 0 \in S
  BY <1>2, <1>3, <1>9
<1>11. ASSUME NEW n \in 1..m, n - 1 \in S
       PROVE  n \in S
  <2>1. n \in 0..m
    BY <1>2
  <2>. QED BY <1>5, <1>9, <1>11, <2>1
<1>12. m \in S
  <2> HIDE DEF S
  <2>1. \A n \in 0..m : n \in S
    BY <1>2, <1>10, <1>11, UpTo
  <2>2. m \in 0..m
    BY <1>2
  <2>. QED BY <2>1, <2>2
<1>. QED BY <1>3, <1>8, <1>12 DEF records

--------------------------------------------------------------------------------
(* Blanks before a name                                                    *)

\* t is s without its first k tokens, none of which is a dot.
Trimmed(s, t, k) ==
  /\ k \in 0..Len(s) /\ t \in Seq(Token) /\ Len(t) = Len(s) - k
  /\ \A j \in 1..Len(t) : t[j] = s[j + k]
  /\ \A i \in 1..k : s[i] # Dot

\* What starts with a dot stands k places further in front.
LEMMA TrimmedPlaces ==
  ASSUME NEW s \in Seq(Token), NEW t, NEW k, Trimmed(s, t, k),
         NEW part \in Seq(NameToken), Len(part) > 0, part[1] = Dot
  PROVE  /\ \A i \in Places(t, part) : i \in 1..Len(t) /\ i + k \in Places(s, part)
         /\ \A i \in Places(s, part) : i - k \in Places(t, part)
<1>1. PICK l \in Nat, m \in Nat, n \in Nat :
        l = Len(s) /\ m = Len(part) /\ n = Len(t) /\ m >= 1 /\ n = l - k /\ k \in 0..l
  BY LenProperties DEF Trimmed
<1>2. /\ t \in Seq(Token) /\ \A j \in 1..n : t[j] = s[j + k]
      /\ \A i \in 1..k : s[i] # Dot
  BY <1>1, Zenon DEF Trimmed
<1>3. s \in Seq(NameToken) /\ t \in Seq(NameToken)
  <2>1. \A u \in Seq(Token) : u \in Seq(NameToken)
    BY DEF NameToken
  <2>. QED BY <1>2, <2>1
<1>4. /\ \A i : i \in Places(s, part) <=> i \in Int /\ HasAt(s, i, part)
      /\ \A i : i \in Places(t, part) <=> i \in Int /\ HasAt(t, i, part)
  <2>1. \A i : i \in Places(s, part) <=> i \in Int /\ HasAt(s, i, part)
    BY <1>3, PlacesAre
  <2>2. \A i : i \in Places(t, part) <=> i \in Int /\ HasAt(t, i, part)
    BY <1>3, PlacesAre
  <2>. QED BY <2>1, <2>2
<1>5. ASSUME NEW i \in Places(t, part)
      PROVE  i \in 1..n /\ i + k \in Places(s, part)
  <2>1. i \in Int /\ i >= 1 /\ i + m - 1 <= n /\ \A j \in 1..m : t[i + j - 1] = part[j]
    BY <1>1, <1>4 DEF HasAt
  <2>2. i + k \in Int /\ i + k >= 1 /\ (i + k) + m - 1 <= l /\ i \in 1..n
    BY <1>1, <2>1
  <2>3. ASSUME NEW j \in 1..m
        PROVE  s[(i + k) + j - 1] = part[j]
    <3>1. i + j - 1 \in 1..n /\ (i + j - 1) + k = (i + k) + j - 1
      BY <1>1, <2>1
    <3>2. t[i + j - 1] = s[(i + j - 1) + k]
      BY <1>2, <3>1
    <3>. QED BY <2>1, <3>1, <3>2
  <2>. QED BY <1>1, <1>4, <2>2, <2>3 DEF HasAt
<1>6. ASSUME NEW i \in Places(s, part)
      PROVE  i - k \in Places(t, part)
  <2>1. i \in Int /\ i >= 1 /\ i + m - 1 <= l /\ \A j \in 1..m : s[i + j - 1] = part[j]
    BY <1>1, <1>4 DEF HasAt
  <2>2. ~(i <= k)
    <3>1. 1 \in 1..m /\ i + 1 - 1 = i
      BY <1>1, <2>1
    <3>2. s[i] = Dot
      BY <2>1, <3>1
    <3>3. i <= k => i \in 1..k
      BY <1>1, <2>1
    <3>. QED BY <1>2, <3>2, <3>3
  <2>3. i - k \in Int /\ i - k >= 1 /\ (i - k) + m - 1 <= n
    BY <1>1, <2>1, <2>2
  <2>4. ASSUME NEW j \in 1..m
        PROVE  t[(i - k) + j - 1] = part[j]
    <3>1. (i - k) + j - 1 \in 1..n /\ ((i - k) + j - 1) + k = i + j - 1
      BY <1>1, <2>1, <2>3
    <3>2. t[(i - k) + j - 1] = s[((i - k) + j - 1) + k]
      BY <1>2, <3>1
    <3>. QED BY <2>1, <3>1, <3>2
  <2>. QED BY <1>1, <1>4, <2>3, <2>4 DEF HasAt
<1>. QED BY <1>1, <1>5, <1>6

\* And so does its last place.
LEMMA TrimmedLast ==
  ASSUME NEW s \in Seq(Token), NEW t, NEW k, Trimmed(s, t, k),
         NEW part \in Seq(NameToken), Len(part) > 0, part[1] = Dot
  PROVE  \/ rfind(t, part) = 0 /\ rfind(s, part) = 0
         \/ rfind(t, part) \in 1..Len(t) /\ rfind(s, part) = rfind(t, part) + k
<1>1. PICK P, Q : P = Places(t, part) /\ Q = Places(s, part)
  OBVIOUS
<1>2. PICK n \in Nat : n = Len(t) /\ k \in Nat
  <2>1. t \in Seq(Token) /\ k \in Nat
    BY LenProperties DEF Trimmed
  <2>. QED BY <2>1, LenProperties
<1>3. /\ \A i \in P : i \in 1..n /\ i + k \in Q
      /\ \A i \in Q : i - k \in P
  BY <1>1, <1>2, TrimmedPlaces, Zenon
<1>4. \A i \in Q : i \in Int
  <2>1. Q \subseteq Int
    <3>1. Q \subseteq 1..(Len(s) - Len(part) + 1)
      BY <1>1, Zenon DEF Places
    <3>. QED BY <3>1
  <2>. QED BY <2>1
<1>5. CASE P = {}
  <2>1. Q = {}
    BY <1>3, <1>5
  <2>. QED BY <1>1, <1>5, <2>1, Zenon DEF rfind
<1>6. CASE P # {}
  <2>1. P \subseteq 1..n
    BY <1>3
  <2>2. PICK i \in P : \A j \in P : j <= i
    BY <1>2, <1>6, <2>1, Greatest
  <2>3. P \subseteq Int /\ Q \subseteq Int
    BY <1>4, <2>1
  <2>4. rfind(t, part) = i
    BY <1>1, <2>2, <2>3, LastPlace
  <2>5. i + k \in Q /\ \A j \in Q : j <= i + k
    <3>1. ASSUME NEW j \in Q
          PROVE  j <= i + k
      <4>1. j - k \in P /\ j \in Int /\ i \in 1..n
        BY <1>3, <1>4
      <4>2. j - k <= i
        BY <2>2, <4>1
      <4>. QED BY <1>2, <4>1, <4>2
    <3>. QED BY <1>3, <3>1
  <2>6. rfind(s, part) = i + k
    BY <1>1, <2>3, <2>5, LastPlace
  <2>. QED BY <1>2, <1>3, <2>4, <2>6
<1>. QED BY <1>5, <1>6

\* The suffix and the number of labels stay.
LEMMA TrimmedKind ==
  ASSUME NEW s \in Seq(Token), NEW t, NEW k, Trimmed(s, t, k), k <= Len(s) - 4
  PROVE  /\ has_mdns_service_suffix(t) <=> has_mdns_service_suffix(s)
         /\ label_count(t) = label_count(s)
<1>1. PICK l \in Nat, n \in Nat : l = Len(s) /\ n = Len(t) /\ n = l - k /\ k \in 0..l /\ n >= 4
  BY LenProperties DEF Trimmed
<1>2. /\ t \in Seq(Token) /\ \A j \in 1..n : t[j] = s[j + k]
      /\ \A i \in 1..k : s[i] # Dot
  BY <1>1, Zenon DEF Trimmed
<1>3. \A w : LocalAt(t, n - 3, w) <=> LocalAt(s, l - 3, w)
  <2>1. /\ n - 3 \in 1..n /\ (n - 3) + 1 \in 1..n /\ (n - 3) + 2 \in 1..n /\ (n - 3) + 3 \in 1..n
        /\ (n - 3) + k = l - 3 /\ ((n - 3) + 1) + k = (l - 3) + 1
        /\ ((n - 3) + 2) + k = (l - 3) + 2 /\ ((n - 3) + 3) + k = (l - 3) + 3
    BY <1>1
  <2>2. /\ t[n - 3] = s[l - 3] /\ t[(n - 3) + 1] = s[(l - 3) + 1]
        /\ t[(n - 3) + 2] = s[(l - 3) + 2] /\ t[(n - 3) + 3] = s[(l - 3) + 3]
    BY <1>2, <2>1
  <2>. QED BY <2>2, Zenon DEF LocalAt
<1>4. has_mdns_service_suffix(t) <=> has_mdns_service_suffix(s)
  <2>1. n >= 4 /\ l >= 4
    BY <1>1
  <2>2. /\ ends_with(t, TcpLocal) <=> LocalAt(t, n - 3, "_tcp")
        /\ ends_with(t, UdpLocal) <=> LocalAt(t, n - 3, "_udp")
    BY <1>1, <1>2, <2>1, SuffixesAre DEF TcpLocal, UdpLocal
  <2>3. /\ ends_with(s, TcpLocal) <=> LocalAt(s, l - 3, "_tcp")
        /\ ends_with(s, UdpLocal) <=> LocalAt(s, l - 3, "_udp")
    BY <1>1, <2>1, SuffixesAre DEF TcpLocal, UdpLocal
  <2>. QED BY <1>3, <2>2, <2>3, Zenon DEF has_mdns_service_suffix
<1>5. Cardinality(Dots(s)) = Cardinality(Dots(t))
  <2>1. PICK f : f = [j \in Dots(t) |-> j + k]
    OBVIOUS
  <2>2. /\ \A j : j \in Dots(t) <=> j \in 1..n /\ t[j] = Dot
        /\ \A i : i \in Dots(s) <=> i \in 1..l /\ s[i] = Dot
    BY <1>1 DEF Dots
  <2>3. \A j \in Dots(t) : f[j] = j + k /\ f[j] \in Dots(s)
    <3>1. \A j \in 1..n : j + k \in 1..l
      BY <1>1
    <3>. QED BY <1>2, <2>1, <2>2, <3>1
  <2>4. \A i \in Dots(s) : \E j \in Dots(t) : f[j] = i
    <3>1. ASSUME NEW i \in Dots(s)
          PROVE  \E j \in Dots(t) : f[j] = i
      <4>1. i \in 1..l /\ s[i] = Dot /\ i \notin 1..k
        BY <1>2, <2>2
      <4>2. i - k \in 1..n /\ (i - k) + k = i
        BY <1>1, <4>1
      <4>3. i - k \in Dots(t)
        BY <1>2, <2>2, <4>1, <4>2
      <4>. QED BY <2>3, <4>2, <4>3
    <3>. QED BY <3>1
  <2>5. \A i, j \in Dots(t) : f[i] = f[j] => i = j
    <3>1. \A i, j \in 1..n : i + k = j + k => i = j
      BY <1>1
    <3>. QED BY <2>2, <2>3, <3>1
  <2>6. f \in Bijection(Dots(t), Dots(s))
    <3>1. f \in [Dots(t) -> Dots(s)]
      BY <2>1, <2>3
    <3>. QED BY <2>4, <2>5, <3>1 DEF Bijection, Injection, Surjection, IsInjective
  <2>7. ExistsBijection(Dots(t), Dots(s))
    BY <2>6, Zenon DEF ExistsBijection
  <2>8. IsFiniteSet(Dots(t))
    BY <1>2, DotsAre
  <2>. QED BY <2>7, <2>8, FS_Bijection
<1>6. s # Empty /\ t # Empty
  <2>1. Len(s) # 0 /\ Len(t) # 0 /\ Len(Empty) = 0
    BY <1>1 DEF Empty
  <2>. QED BY <2>1
<1>7. label_count(s) = 1 + Cardinality(Dots(s)) /\ label_count(t) = 1 + Cardinality(Dots(t))
  BY <1>2, <1>6, DotsAre
<1>. QED BY <1>4, <1>5, <1>7

\* The service type cut out of an instance name stays.
LEMMA TrimmedType ==
  ASSUME NEW s \in Seq(Token), NEW t, NEW k, Trimmed(s, t, k), k <= Len(s) - 4,
         is_instance_name(s), t # kDnsSdMetaService
  PROVE  service_type_from_name(t) = service_type_from_name(s)
<1>1. PICK l \in Nat, n \in Nat : l = Len(s) /\ n = Len(t) /\ n = l - k /\ k \in 0..l
  BY LenProperties DEF Trimmed
<1>2. /\ t \in Seq(Token) /\ \A j \in 1..n : t[j] = s[j + k]
      /\ \A i \in 1..k : s[i] # Dot
  BY <1>1, Zenon DEF Trimmed
<1>3. /\ is_instance_name(t)
      /\ ~is_service_type_name(s) /\ ~is_service_type_name(t)
  <2>1. label_count(s) >= 4 /\ has_mdns_service_suffix(s)
    BY DEF is_instance_name
  <2>2. has_mdns_service_suffix(t) /\ label_count(t) = label_count(s)
    BY <2>1, TrimmedKind
  <2>. QED BY <2>1, <2>2 DEF is_instance_name, is_service_type_name
<1> DEFINE transport(u) == IF rfind(u, TcpLocal) # 0 THEN rfind(u, TcpLocal)
                           ELSE rfind(u, UdpLocal)
           before(u) == rfind(SubSeq(u, 1, transport(u) - 1), <<Dot>>)
<1>4. \A u : is_instance_name(u) /\ ~is_service_type_name(u) =>
        service_type_from_name(u)
          = IF transport(u) > 1 /\ before(u) # 0 THEN From(u, before(u) + 1) ELSE Empty
  BY Zenon DEF service_type_from_name
<1>5. /\ TcpLocal \in Seq(NameToken) /\ Len(TcpLocal) > 0 /\ TcpLocal[1] = Dot
      /\ UdpLocal \in Seq(NameToken) /\ Len(UdpLocal) > 0 /\ UdpLocal[1] = Dot
      /\ <<Dot>> \in Seq(NameToken) /\ Len(<<Dot>>) > 0 /\ <<Dot>>[1] = Dot
  <2>1. Dot \in NameToken /\ "_tcp" \in NameToken /\ "_udp" \in NameToken /\ "local" \in NameToken
    BY DEF NameToken
  <2>. QED BY <2>1 DEF TcpLocal, UdpLocal
<1>10. \A u, v, part :
        u \in Seq(Token) /\ Trimmed(u, v, k) /\ part \in {TcpLocal, UdpLocal, <<Dot>>} =>
          \/ rfind(v, part) = 0 /\ rfind(u, part) = 0
          \/ rfind(v, part) \in 1..Len(v) /\ rfind(u, part) = rfind(v, part) + k
  <2>1. ASSUME NEW u \in Seq(Token), NEW v, Trimmed(u, v, k),
               NEW part \in {TcpLocal, UdpLocal, <<Dot>>}
        PROVE  \/ rfind(v, part) = 0 /\ rfind(u, part) = 0
               \/ rfind(v, part) \in 1..Len(v) /\ rfind(u, part) = rfind(v, part) + k
    <3>1. part \in Seq(NameToken) /\ Len(part) > 0 /\ part[1] = Dot
      BY <1>5
    <3>. QED BY <2>1, <3>1, TrimmedLast
  <2>. QED BY <2>1, Zenon
<1>6. \/ transport(t) = 0 /\ transport(s) = 0
      \/ transport(t) \in 1..n /\ transport(s) = transport(t) + k
  <2>1. \/ rfind(t, TcpLocal) = 0 /\ rfind(s, TcpLocal) = 0
        \/ rfind(t, TcpLocal) \in 1..n /\ rfind(s, TcpLocal) = rfind(t, TcpLocal) + k
    BY <1>1, <1>10, Zenon
  <2>2. \/ rfind(t, UdpLocal) = 0 /\ rfind(s, UdpLocal) = 0
        \/ rfind(t, UdpLocal) \in 1..n /\ rfind(s, UdpLocal) = rfind(t, UdpLocal) + k
    BY <1>1, <1>10, Zenon
  <2>. QED BY <1>1, <2>1, <2>2
<1>7. PICK ts, tt, bs, bt : /\ ts = transport(s) /\ tt = transport(t)
                            /\ bs = before(s) /\ bt = before(t)
  OBVIOUS
<1>8. CASE tt = 0 /\ ts = 0
  <2>1. ~(0 > 1)
    OBVIOUS
  <2>. QED BY <1>3, <1>4, <1>7, <1>8, <2>1, Zenon
<1>9. CASE tt \in 1..n /\ ts = tt + k
  <2>1. PICK hs, ht : hs = SubSeq(s, 1, ts - 1) /\ ht = SubSeq(t, 1, tt - 1)
    OBVIOUS
  <2>2. /\ hs \in Seq(Token) /\ Len(hs) = ts - 1 /\ \A i \in 1..(ts - 1) : hs[i] = s[i]
        /\ ht \in Seq(Token) /\ Len(ht) = tt - 1 /\ \A i \in 1..(tt - 1) : ht[i] = t[i]
    <3>1. /\ \A i \in 1..(ts - 1) : i \in 1..l
          /\ \A i \in 1..(tt - 1) : i \in 1..n
      BY <1>1, <1>9
    <3>2. /\ \A i \in 1..(ts - 1) : s[i] \in Token
          /\ \A i \in 1..(tt - 1) : t[i] \in Token
      BY <1>1, <1>2, <3>1, ElementOfSeq
    <3>3. 1 \in Int /\ ts - 1 \in Int /\ tt - 1 \in Int
      BY <1>1, <1>9
    <3>4. /\ SubSeq(s, 1, ts - 1) \in Seq(Token)
          /\ Len(SubSeq(s, 1, ts - 1)) = IF 1 <= ts - 1 THEN (ts - 1) - 1 + 1 ELSE 0
          /\ \A i \in 1..((ts - 1) - 1 + 1) : SubSeq(s, 1, ts - 1)[i] = s[1 + i - 1]
      BY <3>2, <3>3, SubSeqProperties
    <3>5. /\ SubSeq(t, 1, tt - 1) \in Seq(Token)
          /\ Len(SubSeq(t, 1, tt - 1)) = IF 1 <= tt - 1 THEN (tt - 1) - 1 + 1 ELSE 0
          /\ \A i \in 1..((tt - 1) - 1 + 1) : SubSeq(t, 1, tt - 1)[i] = t[1 + i - 1]
      BY <3>2, <3>3, SubSeqProperties
    <3>6. /\ (ts - 1) - 1 + 1 = ts - 1 /\ (tt - 1) - 1 + 1 = tt - 1
          /\ ~(1 <= ts - 1) => ts - 1 = 0
          /\ ~(1 <= tt - 1) => tt - 1 = 0
          /\ \A i \in 1..(ts - 1) : 1 + i - 1 = i
          /\ \A i \in 1..(tt - 1) : 1 + i - 1 = i
      BY <1>1, <1>9
    <3>7. /\ hs \in Seq(Token) /\ Len(hs) = ts - 1
          /\ ht \in Seq(Token) /\ Len(ht) = tt - 1
      BY <1>1, <1>9, <2>1, <3>4, <3>5
    <3>. QED BY <2>1, <3>4, <3>5, <3>6, <3>7
  <2>3. Trimmed(hs, ht, k)
    <3>1. /\ k \in 0..(ts - 1) /\ tt - 1 = (ts - 1) - k
          /\ \A j \in 1..(tt - 1) : j \in 1..n /\ j + k \in 1..(ts - 1)
          /\ \A i \in 1..k : i \in 1..(ts - 1)
      BY <1>1, <1>9
    <3>2. \A j \in 1..(tt - 1) : ht[j] = hs[j + k]
      BY <1>2, <2>2, <3>1
    <3>3. \A i \in 1..k : hs[i] # Dot
      BY <1>2, <2>2, <3>1
    <3>. QED BY <2>2, <3>1, <3>2, <3>3 DEF Trimmed
  <2>4. \/ bt = 0 /\ bs = 0
        \/ bt \in 1..(tt - 1) /\ bs = bt + k
    <3>1. bt = rfind(ht, <<Dot>>) /\ bs = rfind(hs, <<Dot>>)
      BY <1>7, <2>1, Zenon
    <3>2. \/ rfind(ht, <<Dot>>) = 0 /\ rfind(hs, <<Dot>>) = 0
          \/ rfind(ht, <<Dot>>) \in 1..Len(ht) /\ rfind(hs, <<Dot>>) = rfind(ht, <<Dot>>) + k
      BY <1>10, <2>2, <2>3, Zenon
    <3>3. Len(ht) = tt - 1
      BY <2>2
    <3>. QED BY <3>1, <3>2, <3>3, Zenon
  <2>5. CASE bt = 0 /\ bs = 0
    BY <1>3, <1>4, <1>7, <2>5, Zenon
  <2>6. CASE bt \in 1..(tt - 1) /\ bs = bt + k
    <3>1. tt > 1 /\ ts > 1 /\ bt # 0 /\ bs # 0
      BY <1>1, <1>9, <2>6
    <3>2. From(t, bt + 1) = SubSeq(t, bt + 1, n) /\ From(s, bs + 1) = SubSeq(s, bs + 1, l)
      BY <1>1 DEF From
    <3>3. /\ SubSeq(t, bt + 1, n) \in Seq(Token)
          /\ Len(SubSeq(t, bt + 1, n)) = IF bt + 1 <= n THEN n - (bt + 1) + 1 ELSE 0
          /\ \A i \in 1..(n - (bt + 1) + 1) : SubSeq(t, bt + 1, n)[i] = t[(bt + 1) + i - 1]
      <4>1. bt + 1 \in Int /\ n \in Int
        BY <1>1, <2>6
      <4>2. \A i \in (bt + 1)..n : i \in 1..n
        BY <1>1, <2>6
      <4>3. \A i \in (bt + 1)..n : t[i] \in Token
        BY <1>1, <1>2, <4>2, ElementOfSeq
      <4>. QED BY <4>1, <4>3, SubSeqProperties
    <3>4. /\ SubSeq(s, bs + 1, l) \in Seq(Token)
          /\ Len(SubSeq(s, bs + 1, l)) = IF bs + 1 <= l THEN l - (bs + 1) + 1 ELSE 0
          /\ \A i \in 1..(l - (bs + 1) + 1) : SubSeq(s, bs + 1, l)[i] = s[(bs + 1) + i - 1]
      <4>1. bs + 1 \in Int /\ l \in Int
        BY <1>1, <2>6
      <4>2. \A i \in (bs + 1)..l : i \in 1..l
        BY <1>1, <2>6
      <4>3. \A i \in (bs + 1)..l : s[i] \in Token
        BY <1>1, <4>2, ElementOfSeq
      <4>. QED BY <4>1, <4>3, SubSeqProperties
    <3>5. PICK x \in Seq(Token), y \in Seq(Token) :
            x = SubSeq(t, bt + 1, n) /\ y = SubSeq(s, bs + 1, l)
      BY <3>3, <3>4
    <3>6. PICK d \in Nat : /\ d = n - (bt + 1) + 1 /\ d = l - (bs + 1) + 1
                           /\ bt + 1 <= n /\ bs + 1 <= l
      <4>1. /\ n - (bt + 1) + 1 \in Nat /\ n - (bt + 1) + 1 = l - (bs + 1) + 1
            /\ bt + 1 <= n /\ bs + 1 <= l
        BY <1>1, <1>9, <2>6
      <4>. QED BY <4>1
    <3>7. Len(x) = d /\ Len(y) = d
      BY <3>3, <3>4, <3>5, <3>6
    <3>8. \A i \in 1..d : x[i] = y[i]
      <4>1. /\ \A i \in 1..d : x[i] = t[(bt + 1) + i - 1]
            /\ \A i \in 1..d : y[i] = s[(bs + 1) + i - 1]
        BY <3>3, <3>4, <3>5, <3>6, Zenon
      <4>2. \A i \in 1..d : /\ (bt + 1) + i - 1 \in 1..n
                            /\ ((bt + 1) + i - 1) + k = (bs + 1) + i - 1
        BY <1>1, <2>6, <3>6
      <4>3. \A i \in 1..d : t[(bt + 1) + i - 1] = s[((bt + 1) + i - 1) + k]
        BY <1>2, <4>2, Zenon
      <4>. QED BY <4>1, <4>2, <4>3
    <3>9. x = y
      BY <3>7, <3>8, TextsEqual
    <3>10. From(t, bt + 1) = From(s, bs + 1)
      BY <3>2, <3>5, <3>9
    <3>. QED BY <1>3, <1>4, <1>7, <3>1, <3>10, Zenon
  <2>. QED BY <2>4, <2>5, <2>6
<1>. QED BY <1>6, <1>7, <1>8, <1>9

\* str.strip where the last token is no blank.
LEMMA StripIs ==
  ASSUME NEW text \in Seq(Token), NEW i \in 1..Len(text), text[i] # Blank,
         \A j \in 1..Len(text) : text[j] # Blank => i <= j,
         text[Len(text)] # Blank
  PROVE  Strip(text) = SubSeq(text, i, Len(text))
<1>1. PICK l \in Nat : l = Len(text) /\ l \in 1..l
  <2>1. Len(text) \in Nat /\ Len(text) \in 1..Len(text)
    BY LenProperties
  <2>. QED BY <2>1
<1> DEFINE kept == {j \in 1..l : text[j] # Blank}
<1>2. i \in kept /\ l \in kept
  BY <1>1
<1>3. (CHOOSE m \in kept : \A j \in kept : m <= j) = i
  <2>1. \A j \in kept : i <= j
    BY <1>1
  <2>2. \A m \in kept : (\A j \in kept : m <= j) => m = i
    BY <1>1, <1>2, <2>1
  <2> HIDE DEF kept
  <2>. QED BY <1>2, <2>1, <2>2, Zenon
<1>4. (CHOOSE m \in kept : \A j \in kept : j <= m) = l
  <2>1. \A j \in kept : j <= l
    BY <1>1
  <2>2. \A m \in kept : (\A j \in kept : j <= m) => m = l
    BY <1>1, <1>2, <2>1
  <2> HIDE DEF kept
  <2>. QED BY <1>2, <2>1, <2>2, Zenon
<1>5. kept # {}
  BY <1>2
<1>. QED BY <1>1, <1>3, <1>4, <1>5, Zenon DEF Strip

\* str.strip of a name with a transport at its end: blanks before it go, and
\* nothing else; and there are none left.
LEMMA StripTrims ==
  ASSUME NEW name \in Seq(Token), has_mdns_service_suffix(name)
  PROVE  /\ \E k : Trimmed(name, Strip(name), k) /\ k <= Len(name) - 4
         /\ Strip(Strip(name)) = Strip(name)
<1>1. PICK l \in Nat : l = Len(name)
  BY LenProperties
<1>2. PICK w \in {"_tcp", "_udp"} : l >= 4 /\ LocalAt(name, l - 3, w)
  BY <1>1, ServiceSuffix
<1>3. name[l - 3] # Blank /\ name[l] # Blank
  <2>1. name[l - 3] = Dot /\ name[(l - 3) + 3] = "local" /\ (l - 3) + 3 = l
    BY <1>1, <1>2 DEF LocalAt
  <2>. QED BY <2>1 DEF Dot, Blank
<1>4. PICK kept : kept = {j \in 1..l : name[j] # Blank}
  OBVIOUS
<1>5. PICK i \in kept : \A j \in kept : i <= j
  <2>1. l - 3 \in kept
    BY <1>1, <1>2, <1>3, <1>4
  <2>2. kept \subseteq Nat /\ kept # {}
    BY <1>4, <2>1
  <2>. QED BY <2>2, LeastNatural
<1>6. /\ i \in 1..l /\ name[i] # Blank /\ i <= l - 3
      /\ \A j \in 1..l : name[j] # Blank => i <= j
  <2>1. l - 3 \in kept
    BY <1>1, <1>2, <1>3, <1>4
  <2>. QED BY <1>4, <1>5, <2>1
<1>7. Strip(name) = SubSeq(name, i, l)
  BY <1>1, <1>3, <1>6, StripIs
<1>8. PICK t : t = SubSeq(name, i, l)
  OBVIOUS
<1>9. PICK n \in Nat : n = l - i + 1 /\ n >= 4
  <2>1. l - i + 1 \in Nat /\ l - i + 1 >= 4
    BY <1>1, <1>6
  <2>. QED BY <2>1
<1>10. t \in Seq(Token) /\ Len(t) = n /\ \A j \in 1..n : t[j] = name[i + j - 1]
  <2>1. i \in Int /\ l \in Int
    BY <1>1, <1>6
  <2>2. \A j \in i..l : j \in 1..l
    BY <1>1, <1>6
  <2>3. \A j \in i..l : name[j] \in Token
    BY <1>1, <2>2, ElementOfSeq
  <2>4. /\ SubSeq(name, i, l) \in Seq(Token)
        /\ Len(SubSeq(name, i, l)) = IF i <= l THEN l - i + 1 ELSE 0
        /\ \A j \in 1..(l - i + 1) : SubSeq(name, i, l)[j] = name[i + j - 1]
    BY <2>1, <2>3, SubSeqProperties
  <2>5. i <= l
    BY <1>1, <1>6
  <2>. QED BY <1>8, <1>9, <2>4, <2>5, Zenon
<1>11. Trimmed(name, t, i - 1) /\ i - 1 <= l - 4
  <2>1. /\ i - 1 \in 0..l /\ n = l - (i - 1) /\ i - 1 <= l - 4
        /\ \A j \in 1..n : i + j - 1 = j + (i - 1)
        /\ \A j \in 1..(i - 1) : j \in 1..l /\ ~(i <= j)
    BY <1>1, <1>6, <1>9
  <2>2. \A j \in 1..n : t[j] = name[j + (i - 1)]
    BY <1>10, <2>1
  <2>3. \A j \in 1..(i - 1) : name[j] # Dot
    BY <1>6, <2>1 DEF Dot, Blank
  <2>. QED BY <1>1, <1>10, <2>1, <2>2, <2>3 DEF Trimmed
<1>12. Strip(t) = t
  <2>1. /\ 1 \in 1..n /\ n \in 1..n /\ i + 1 - 1 = i /\ i + n - 1 = l
        /\ \A j \in 1..n : 1 <= j
    BY <1>6, <1>9
  <2>2. t[1] # Blank /\ t[n] # Blank
    BY <1>3, <1>6, <1>10, <2>1
  <2>3. Strip(t) = SubSeq(t, 1, n)
    BY <1>10, <2>1, <2>2, StripIs
  <2>4. SubSeq(t, 1, Len(t)) = t
    BY <1>10, SubSeqFull
  <2>. QED BY <1>10, <2>3, <2>4
<1>. QED BY <1>1, <1>7, <1>8, <1>11, <1>12

\* The API strips names, and reads the same service types out of a record as
\* the registry, up to blanks at their ends.
LEMMA ApiReadsSame ==
  ASSUME NEW rec \in ResourceRecordView, is_displayable_record(rec), ~HidesMeta(rec)
  PROVE  Stripped(service_types_from_record(rec)) = Stripped(ServiceTypesOf(rec))
<1>1. rec.owner \in Seq(Token) /\ rec.rdata \in Seq(Token)
  BY DEF ResourceRecordView
<1>2. rec.type = A \/ rec.type = PTR \/ rec.type = SRV \/ rec.type = TXT
  BY DEF is_displayable_record
<1>3. A # PTR /\ A # SRV /\ A # TXT /\ PTR # SRV /\ PTR # TXT
  BY DEF A, PTR, SRV, TXT
<1>4. CASE rec.type = A
  <2>1. InstancesOf(rec) = {}
    BY <1>3, <1>4 DEF InstancesOf
  <2>2. ServiceTypesOf(rec) = {}
    BY <1>3, <1>4, <2>1 DEF ServiceTypesOf, Nonempty
  <2>3. service_types_from_record(rec) = {}
    BY <1>3, <1>4, Zenon DEF service_types_from_record
  <2>. QED BY <2>2, <2>3
<1>5. CASE rec.type = SRV \/ rec.type = TXT
  <2>1. InstancesOf(rec) = {}
    BY <1>3, <1>5 DEF InstancesOf
  <2>2. ServiceTypesOf(rec) = Nonempty({service_type_from_name(rec.owner)})
    BY <1>3, <1>5, <2>1 DEF ServiceTypesOf, Nonempty
  <2>3. service_types_from_record(rec) = Nonempty({service_type_from_name(rec.owner)})
    BY <1>3, <1>5, Zenon DEF service_types_from_record
  <2>. QED BY <2>2, <2>3
<1>6. CASE rec.type = PTR
  <2>1. \/ rec.owner = kDnsSdMetaService /\ is_service_type_name(rec.rdata)
        \/ is_service_type_name(rec.owner) /\ is_instance_name(rec.rdata)
    BY <1>6 DEF is_displayable_record, is_audit_relevant_record, A, AAAA, PTR, SRV, TXT
  <2>2. has_mdns_service_suffix(rec.rdata) /\ rec.rdata # kDnsSdMetaService
    BY <2>1, Zenon DEF is_service_type_name, is_instance_name
  <2>3. PICK t, k : /\ t = Strip(rec.rdata)
                    /\ Trimmed(rec.rdata, t, k) /\ k <= Len(rec.rdata) - 4 /\ Strip(t) = t
    BY <1>1, <2>2, StripTrims
  <2>4. t # kDnsSdMetaService
    BY <1>6, <2>2, <2>3, Zenon DEF HidesMeta
  <2>5. /\ has_mdns_service_suffix(t)
        /\ label_count(t) = label_count(rec.rdata)
    BY <1>1, <2>2, <2>3, TrimmedKind
  <2>6. /\ is_service_type_name(t) <=> is_service_type_name(rec.rdata)
        /\ is_instance_name(t) <=> is_instance_name(rec.rdata)
    BY <2>2, <2>4, <2>5, Zenon DEF is_service_type_name, is_instance_name
  <2>7. ptr_rdata(rec) = t
    <3>1. rec.rdata # Empty
      <4>1. PICK l \in Nat : l = Len(rec.rdata)
        BY <1>1, LenProperties
      <4>2. Len(rec.rdata) >= 4 /\ Len(Empty) = 0
        BY <1>1, <2>2, ServiceSuffix DEF Empty
      <4>. QED BY <4>1, <4>2
    <3>2. service_label(rec) = rec.rdata
      BY <1>6, <2>2 DEF service_label
    <3>. QED BY <2>3, <3>1, <3>2 DEF ptr_rdata
  <2>8. CASE rec.owner = kDnsSdMetaService
    <3>1. is_service_type_name(rec.rdata) /\ ~is_service_type_name(rec.owner)
      <4>1. ~is_service_type_name(rec.owner)
        BY <2>8, Zenon DEF is_service_type_name
      <4>. QED BY <2>1, <4>1
    <3>2. InstancesOf(rec) = {}
      BY <3>1 DEF InstancesOf
    <3>3. ServiceTypesOf(rec) = {rec.rdata}
      BY <1>3, <1>6, <2>8, <3>1, <3>2 DEF ServiceTypesOf, Nonempty
    <3>4. service_types_from_record(rec) = {t}
      BY <1>3, <1>6, <2>6, <2>7, <2>8, <3>1 DEF service_types_from_record
    <3>. QED BY <2>3, <3>3, <3>4 DEF Stripped
  <2>9. CASE rec.owner # kDnsSdMetaService
    <3>1. is_service_type_name(rec.owner) /\ is_instance_name(rec.rdata)
      BY <2>1, <2>9
    <3>2. InstancesOf(rec) = {rec.rdata}
      BY <1>6, <3>1 DEF InstancesOf
    <3>3. {service_type_from_name(name) : name \in InstancesOf(rec)}
            = {service_type_from_name(rec.rdata)}
      BY <3>2
    <3>4. ServiceTypesOf(rec) = Nonempty({service_type_from_name(rec.rdata)})
      BY <1>3, <1>6, <2>9, <3>3 DEF ServiceTypesOf
    <3>5. service_type_from_name(t) = service_type_from_name(rec.rdata)
      BY <1>1, <2>3, <2>4, <3>1, TrimmedType
    <3>6. service_types_from_record(rec) = Nonempty({service_type_from_name(t)})
      BY <1>3, <1>6, <2>6, <2>7, <2>9, <3>1 DEF service_types_from_record
    <3>. QED BY <3>4, <3>5, <3>6
  <2>. QED BY <2>8, <2>9
<1>. QED BY <1>2, <1>4, <1>5, <1>6

\* The host stays a text.
LEMMA HostAfterType ==
  ASSUME NEW ev, ShownEvent(ev), NEW host \in Seq(Token)
  PROVE  HostAfterEvent(host, ev) \in Seq(Token)
<1>1. PICK c \in [0..Len(ev.records) -> Seq(Token)] : HostAfterEvent(host, ev) = c[Len(ev.records)]
  BY HostSteps
<1>2. Len(ev.records) \in 0..Len(ev.records)
  BY LenProperties DEF ShownEvent
<1>. QED BY <1>1, <1>2

--------------------------------------------------------------------------------
(* What an event does to the database                                      *)

\* What a column for a host may hold, and all that the API reads as a service type.
Columns == {Column(host) : host \in Seq(Token)}
NamesRead == UNION {service_types_from_record(rec) : rec \in AllRecords}

\* The database while no MAC is known, nothing is approved and no time is kept.
Table ==
  [ip : [Requests -> Ip \cup {None}], mac : [Requests -> {None}],
   host : [Requests -> Columns], seen : [Requests -> {0}],
   approved : [Requests -> {FALSE}], services : [Requests -> SUBSET NamesRead],
   baseline : [Requests -> {None}],
   alerts : SUBSET [type : {"unknown"}, device : Requests], audit : SUBSET Requests]

\* An address has one row, a request without a row has left nothing, and a row
\* comes with a request.
OneRow(t) ==
  /\ \A d, e \in Requests : t.ip[d] = t.ip[e] /\ t.ip[d] # None => d = e
  /\ \A d \in Requests : t.ip[d] = None => t.host[d] = None /\ t.services[d] = {}
  /\ \A d \in Requests : t.ip[d] # None => d \in t.audit

\* What an event makes of the row that has its address, or of a new one.
IsIngested(old, new, ev, r, d) ==
  /\ r \in Requests \ old.audit /\ d \in Requests
  /\ old.ip[d] = ev.ip \/ (d = r /\ \A x \in Requests : old.ip[x] # ev.ip)
  /\ new.ip = [old.ip EXCEPT ![d] = ev.ip]
  /\ new.host = [old.host EXCEPT ![d] = Api!HostAfter(@, Body(ev).records)]
  /\ new.services = [old.services EXCEPT ![d] = @ \cup Body(ev).services]
  /\ new.audit = old.audit \cup {r}

\* The service types of an event are those of its records.
LEMMA ReadIs ==
  ASSUME NEW ev, EventIsPosted(ev)
  PROVE  /\ \A t : t \in Body(ev).services
                 <=> \E rec \in ToSet(ev.records) : t \in service_types_from_record(rec)
         /\ Body(ev).services \subseteq NamesRead
<1>1. \A rec \in ToSet(ev.records) :
        rec \in AllRecords /\ Posted[rec].services = service_types_from_record(rec)
  <2>1. ASSUME NEW rec \in ToSet(ev.records)
        PROVE  rec \in AllRecords /\ Posted[rec].services = service_types_from_record(rec)
    <3>1. rec \in AllRecords
      BY DEF EventIsPosted
    <3>2. PICK b \in BOOLEAN, c \in BOOLEAN : b = (rec.type = SRV) /\ c = ValidJson(rec)
      BY Zenon DEF ValidJson
    <3>3. Posted[rec] = [srv |-> b, host |-> Column(host_label(rec)),
                         services |-> service_types_from_record(rec), json |-> c]
      BY <3>1, <3>2, PostedIs
    <3>. QED BY <3>1, <3>3
  <2>. QED BY <2>1
<1>2. Body(ev).services = UNION {Posted[rec].services : rec \in ToSet(ev.records)}
  BY DEF Body
<1>3. \A t : t \in Body(ev).services
            <=> \E rec \in ToSet(ev.records) : t \in service_types_from_record(rec)
  BY <1>1, <1>2, Zenon
<1>4. \A t : t \in Body(ev).services => t \in NamesRead
  BY <1>1, <1>3, Zenon DEF NamesRead
<1>. QED BY <1>3, <1>4

\* The row an event is for.
LEMMA RowFound ==
  ASSUME NEW old \in Table, OneRow(old), NEW ev, ev.ip \in Ip, NEW r \in Requests, NEW e,
         e.ip = ev.ip, NEW d, d \in Api!Targets(old, r, e, None)
  PROVE  d \in Requests /\ (old.ip[d] = ev.ip \/ (d = r /\ \A x \in Requests : old.ip[x] # ev.ip))
<1>1. ev.ip # None
  <2>1. \A a \in Ip : a \in Token
    BY PacketType DEF Ip
  <2>. QED BY <2>1, NullAssumption
<1>3. Api!ByMac(old, None) = {}
  BY DEF Api!ByMac
<1>4. \A x : x \in Api!ByIp(old, ev.ip) <=> x \in Requests /\ old.ip[x] = ev.ip
  <2>1. \A x \in Requests : old.seen[x] = 0
    BY DEF Table
  <2>2. \A x, y \in Requests : old.seen[x] <= old.seen[y]
    BY <2>1
  <2>. QED BY <2>2, Zenon DEF Api!ByIp
<1>5. PICK rows : rows = Api!ByIp(old, ev.ip)
  OBVIOUS
<1>6. d \in (IF rows # {} THEN rows ELSE {r})
  BY <1>3, <1>5, Zenon DEF Api!Targets
<1>7. ASSUME rows # {}
      PROVE  d \in Requests /\ old.ip[d] = ev.ip
  BY <1>4, <1>5, <1>6, <1>7
<1>8. ASSUME rows = {}
      PROVE  d = r /\ \A x \in Requests : old.ip[x] # ev.ip
  <2>1. d = r
    BY <1>6, <1>8
  <2>2. \A x \in Requests : old.ip[x] # ev.ip
    BY <1>4, <1>5, <1>8, Zenon
  <2>. QED BY <2>1, <2>2
<1>. QED BY <1>7, <1>8, Zenon

\* What ingest.py makes of an event, when no lookup finds a MAC.
LEMMA IngestIs ==
  ASSUME NEW old \in Table, OneRow(old), NEW new, NEW ev, ev.ip \in Ip, EventIsPosted(ev),
         NEW r \in Requests \ old.audit, Api!IngestResult(old, new, r, Body(ev))
  PROVE  /\ new \in Table
         /\ \E d : IsIngested(old, new, ev, r, d)
<1>1. PICK e : e = Body(ev)
  OBVIOUS
<1>2. e.ip = ev.ip /\ e.mac = None /\ e.seen = 0 /\ e.services = Body(ev).services
  BY <1>1 DEF Body
<1>3. Api!Hints(e) = {None}
  <2>1. Api!Lookup = {None}
    BY DEF Api!Lookup
  <2>. QED BY <1>2, <2>1 DEF Api!Hints
<1>4. PICK d \in Api!Targets(old, r, e, None) :
        LET db1 == Api!Observed(old, d, e, None) IN
          \E late \in Api!SecondHints(db1, d, e) :
            new = Api!Alerted(Api!Logged(db1, r, d, late), d)
  BY <1>1, <1>3 DEF Api!IngestResult
<1>5. PICK db1 : db1 = Api!Observed(old, d, e, None)
  OBVIOUS
<1>6. new = Api!Alerted(Api!Logged(db1, r, d, None), d)
  <2>1. Api!SecondHints(db1, d, e) = {None}
    BY <1>3 DEF Api!SecondHints
  <2>. QED BY <1>4, <1>5, <2>1
<1>7. d \in Requests /\ (old.ip[d] = ev.ip \/ (d = r /\ \A x \in Requests : old.ip[x] # ev.ip))
  BY <1>2, <1>4, RowFound
<1>8. PICK host : host = Api!HostAfter(old.host[d], e.records)
  OBVIOUS
<1>9. host \in Columns
  <2>1. PICK h \in Seq(Token) : old.host[d] = Column(h)
    BY <1>7 DEF Table, Columns
  <2>2. HostAfterEvent(h, ev) \in Seq(Token)
    BY HostAfterType DEF EventIsPosted
  <2>3. host = Column(HostAfterEvent(h, ev))
    BY <1>1, <1>8, <2>1, ApiHostAfter
  <2>. QED BY <2>2, <2>3 DEF Columns
<1>10. e.services \subseteq NamesRead
  BY <1>2, ReadIs, Zenon
<1>11. /\ db1 \in Table
       /\ db1.ip = [old.ip EXCEPT ![d] = ev.ip]
       /\ db1.host = [old.host EXCEPT ![d] = host]
       /\ db1.services = [old.services EXCEPT ![d] = @ \cup e.services]
       /\ db1.audit = old.audit
  <2>1. Api!NewHost(old, d, e, None) = host
    <3>1. Api!ByMac(old, None) = {}
      BY DEF Api!ByMac
    <3>. QED BY <1>8, <3>1, Zenon DEF Api!NewHost
  <2>2. Api!NewMac(old, d, None) = None
    BY <1>7 DEF Api!NewMac, Table
  <2>3. db1 = [old EXCEPT !.ip[d] = ev.ip, !.seen[d] = 0, !.host[d] = host, !.mac[d] = None,
                          !.services[d] = @ \cup e.services]
    BY <1>2, <1>5, <2>1, <2>2 DEF Api!Observed
  <2>. QED BY <1>7, <1>9, <1>10, <2>3 DEF Table
<1>12. PICK db2 : db2 = Api!Logged(db1, r, d, None)
  OBVIOUS
<1>13. /\ db2 \in Table /\ db2.ip = db1.ip /\ db2.host = db1.host /\ db2.services = db1.services
       /\ db2.audit = db1.audit \cup {r}
  BY <1>7, <1>11, <1>12 DEF Api!Logged, Table
<1>14. PICK alerts : alerts = Api!Policy(db2, d)
  OBVIOUS
<1>15. alerts \subseteq [type : {"unknown"}, device : Requests]
  <2>1. ~db2.approved[d]
    BY <1>7, <1>13 DEF Table
  <2>. QED BY <1>7, <1>14, <2>1 DEF Api!Policy
<1>16. /\ new \in Table /\ new.ip = db2.ip /\ new.host = db2.host /\ new.services = db2.services
       /\ new.audit = db2.audit
  <2>1. new = [db2 EXCEPT !.alerts = @ \cup alerts]
    BY <1>6, <1>12, <1>14 DEF Api!Alerted
  <2>. QED BY <1>13, <1>15, <2>1 DEF Table
<1>17. IsIngested(old, new, ev, r, d)
  BY <1>1, <1>7, <1>8, <1>11, <1>13, <1>16 DEF IsIngested
<1>. QED BY <1>16, <1>17

\* A row has the address of an event and all its service types.
StoredIn(t, ev) == \E d \in Requests : t.ip[d] = ev.ip /\ Body(ev).services \subseteq t.services[d]

\* The host in the row of an address, and none where there is no row.
HasHost(t, a, host) ==
  /\ \A d \in Requests : t.ip[d] = a => t.host[d] = Column(host)
  /\ (\A d \in Requests : t.ip[d] # a) => host = Empty

\* What an event leaves of the rows, and what it adds.
LEMMA IngestKeeps ==
  ASSUME NEW old \in Table, OneRow(old), NEW new \in Table, NEW ev, ev.ip \in Ip, EventIsPosted(ev),
         NEW r, NEW d, IsIngested(old, new, ev, r, d)
  PROVE  /\ OneRow(new) /\ StoredIn(new, ev)
         /\ \A e : e.ip \in Ip /\ StoredIn(old, e) => StoredIn(new, e)
         /\ \A x \in Requests : \A t \in new.services[x] :
              \/ t \in old.services[x] /\ old.ip[x] = new.ip[x]
              \/ t \in Body(ev).services /\ new.ip[x] = ev.ip
<1>1. /\ r \in Requests /\ r \notin old.audit /\ d \in Requests
      /\ old.ip[d] = ev.ip \/ (d = r /\ \A x \in Requests : old.ip[x] # ev.ip)
      /\ new.ip = [old.ip EXCEPT ![d] = ev.ip]
      /\ new.host = [old.host EXCEPT ![d] = Api!HostAfter(@, Body(ev).records)]
      /\ new.services = [old.services EXCEPT ![d] = @ \cup Body(ev).services]
      /\ new.audit = old.audit \cup {r}
  BY DEF IsIngested
<1>2. /\ DOMAIN old.ip = Requests /\ DOMAIN old.host = Requests /\ DOMAIN old.services = Requests
  BY DEF Table
<1>3. /\ new.ip[d] = ev.ip /\ \A x \in Requests : x # d => new.ip[x] = old.ip[x]
      /\ \A x \in Requests : x # d => new.host[x] = old.host[x]
      /\ new.services[d] = old.services[d] \cup Body(ev).services
      /\ \A x \in Requests : x # d => new.services[x] = old.services[x]
  BY <1>1, <1>2
<1>4. \A a \in Ip : a # None
  <2>1. \A a \in Ip : a \in Token
    BY PacketType DEF Ip
  <2>. QED BY <2>1, NullAssumption
<1>5. /\ \A x, y \in Requests : old.ip[x] = old.ip[y] /\ old.ip[x] # None => x = y
      /\ \A x \in Requests : old.ip[x] = None => old.host[x] = None /\ old.services[x] = {}
      /\ \A x \in Requests : old.ip[x] # None => x \in old.audit
  BY DEF OneRow
<1>6. \A x \in Requests : x # d => old.ip[x] # ev.ip
  BY <1>1, <1>4, <1>5
<1>7. old.ip[d] = ev.ip \/ old.ip[d] = None
  BY <1>1, <1>5
<1>8. ev.ip # None
  BY <1>4
<1>9. OneRow(new)
  <2>1. \A x, y \in Requests : new.ip[x] = new.ip[y] /\ new.ip[x] # None => x = y
    <3>. SUFFICES ASSUME NEW x \in Requests, NEW y \in Requests,
                         new.ip[x] = new.ip[y], new.ip[x] # None
                  PROVE  x = y
      OBVIOUS
    <3>. QED BY <1>3, <1>5, <1>6
  <2>2. \A x \in Requests : new.ip[x] = None => new.host[x] = None /\ new.services[x] = {}
    BY <1>3, <1>5, <1>8
  <2>3. \A x \in Requests : new.ip[x] # None => x \in new.audit
    <3>1. d \in new.audit
      BY <1>1, <1>5, <1>8
    <3>. QED BY <1>1, <1>3, <1>5, <3>1
  <2>. QED BY <2>1, <2>2, <2>3 DEF OneRow
<1>10. StoredIn(new, ev)
  BY <1>1, <1>3 DEF StoredIn
<1>11. ASSUME NEW e, e.ip \in Ip, StoredIn(old, e)
       PROVE  StoredIn(new, e)
  <2>1. PICK x \in Requests : old.ip[x] = e.ip /\ Body(e).services \subseteq old.services[x]
    BY <1>11 DEF StoredIn
  <2>2. CASE x = d
    <3>1. new.ip[x] = e.ip
      BY <1>3, <1>4, <1>7, <1>11, <2>1, <2>2
    <3>2. Body(e).services \subseteq new.services[x]
      BY <1>3, <2>1, <2>2
    <3>. QED BY <3>1, <3>2 DEF StoredIn
  <2>3. CASE x # d
    BY <1>3, <2>1, <2>3 DEF StoredIn
  <2>. QED BY <2>2, <2>3
<1>12. ASSUME NEW x \in Requests, NEW t \in new.services[x]
       PROVE  \/ t \in old.services[x] /\ old.ip[x] = new.ip[x]
              \/ t \in Body(ev).services /\ new.ip[x] = ev.ip
  <2>1. CASE x = d
    <3>1. t \in old.services[d] => old.ip[d] # None
      BY <1>1, <1>5
    <3>. QED BY <1>3, <1>7, <1>12, <2>1, <3>1
  <2>2. CASE x # d
    BY <1>3, <1>12, <2>2
  <2>. QED BY <2>1, <2>2
<1>. QED BY <1>9, <1>10, <1>11, <1>12

\* The host in the row becomes the one after the event; other rows keep theirs.
LEMMA IngestHost ==
  ASSUME NEW old \in Table, OneRow(old), NEW new \in Table, NEW ev, ev.ip \in Ip, EventIsPosted(ev),
         NEW r, NEW d, IsIngested(old, new, ev, r, d), NEW a \in Ip, NEW host \in Seq(Token),
         HasHost(old, a, host)
  PROVE  HasHost(new, a, IF ev.ip = a THEN HostAfterEvent(host, ev) ELSE host)
<1>1. /\ r \in Requests /\ r \notin old.audit /\ d \in Requests
      /\ old.ip[d] = ev.ip \/ (d = r /\ \A x \in Requests : old.ip[x] # ev.ip)
      /\ new.ip = [old.ip EXCEPT ![d] = ev.ip]
      /\ new.host = [old.host EXCEPT ![d] = Api!HostAfter(@, Body(ev).records)]
  BY DEF IsIngested
<1>2. DOMAIN old.ip = Requests /\ DOMAIN old.host = Requests
  BY DEF Table
<1>3. /\ new.ip[d] = ev.ip /\ \A x \in Requests : x # d => new.ip[x] = old.ip[x]
      /\ \A x \in Requests : x # d => new.host[x] = old.host[x]
      /\ new.host[d] = Api!HostAfter(old.host[d], Body(ev).records)
  BY <1>1, <1>2
<1>4. a # None /\ ev.ip # None
  <2>1. \A b \in Ip : b \in Token
    BY PacketType DEF Ip
  <2>. QED BY <2>1, NullAssumption
<1>5. /\ \A x, y \in Requests : old.ip[x] = old.ip[y] /\ old.ip[x] # None => x = y
      /\ \A x \in Requests : old.ip[x] = None => old.host[x] = None
      /\ \A x \in Requests : old.ip[x] # None => x \in old.audit
  BY DEF OneRow
<1>6. old.ip[d] = ev.ip \/ old.ip[d] = None
  BY <1>1, <1>5
<1>7. /\ \A x \in Requests : old.ip[x] = a => old.host[x] = Column(host)
      /\ (\A x \in Requests : old.ip[x] # a) => host = Empty
  BY DEF HasHost
<1>8. CASE ev.ip = a
  <2>1. \A x \in Requests : x # d => new.ip[x] # a
    BY <1>1, <1>3, <1>4, <1>5, <1>8
  <2>2. old.host[d] = Column(host)
    <3>1. CASE old.ip[d] = a
      BY <1>1, <1>7, <3>1
    <3>2. CASE old.ip[d] # a
      <4>1. old.ip[d] = None /\ \A x \in Requests : old.ip[x] # a
        BY <1>1, <1>6, <1>8, <3>2
      <4>. QED BY <1>1, <1>5, <1>7, <4>1 DEF Column
    <3>. QED BY <3>1, <3>2
  <2>3. new.host[d] = Column(HostAfterEvent(host, ev))
    BY <1>3, <2>2, ApiHostAfter
  <2>. QED BY <1>1, <1>3, <1>8, <2>1, <2>3 DEF HasHost
<1>9. CASE ev.ip # a
  <2>1. \A x \in Requests : new.ip[x] = a => x # d /\ old.ip[x] = a
    BY <1>1, <1>3, <1>9
  <2>2. \A x \in Requests : old.ip[x] = a => x # d /\ new.ip[x] = a
    BY <1>1, <1>3, <1>4, <1>6, <1>9
  <2>. QED BY <1>3, <1>7, <1>9, <2>1, <2>2 DEF HasHost
<1>. QED BY <1>8, <1>9

--------------------------------------------------------------------------------
(* The inductive invariant of the poster and the API                       *)

\* The last event the poster is done with, if none was given up.
Done == IF posting THEN handed - 1 ELSE head

Counts ==
  /\ packets \in 0..MaxPackets /\ unanswered \in 0..MaxUnanswered /\ restarts \in Nat
  /\ offered <= packets /\ head \in 0..offered /\ posting \in BOOLEAN
  /\ posting => handed \in 1..head /\ (gone = {} => handed = head)
  /\ delayed \subseteq 1..head /\ (delayed # {} => unanswered > 0)
  /\ restarts = 0 => first = 1

\* A request is made for an event the poster is done with, or its answer was lost.
RequestsLeft == Cardinality(db.audit) + Cardinality(delayed) <= Done + unanswered

EventsPosted == \A n \in 1..offered : sent[n].ip \in Ip /\ EventIsPosted(sent[n])
ConsoleHosts == \A a \in Ip : devices[a].mdns_host \in Seq(Token)
Rows == db \in Table /\ OneRow(db)

\* Every event sent is stored, waiting, in the poster's hands or given up.
NothingMissed ==
  \A n \in 1..offered :
    n \in gone \/ n > head \/ (posting /\ n = handed) \/ StoredIn(db, sent[n])

\* A service type of an address is one of an event with that address.
NothingInvented ==
  \A d \in Requests : \A t \in db.services[d] :
    \E n \in 1..offered : sent[n].ip = db.ip[d] /\ t \in Body(sent[n]).services

\* h[n] is the host of address a after n events.
IsHostOf(a, h) ==
  /\ h \in [0..offered -> Seq(Token)] /\ h[0] = Empty
  /\ \A n \in 1..offered :
       h[n] = IF sent[n].ip = a THEN HostAfterEvent(h[n - 1], sent[n]) ELSE h[n - 1]

\* The registry has the host after all events, unless it was started again and
\* nothing that names a host was let through since.
ConsoleFollows(a, h) ==
  \/ devices[a].mdns_host = h[offered]
  \/ restarts > 0 /\ \A rec \in SentTo(a) : ~NamesHost(rec)

\* While nothing is lost and nothing comes twice, the API follows the console.
HostsFollow ==
  gone = {} /\ unanswered = 0 => \A a \in Ip :
    \E h : IsHostOf(a, h) /\ HasHost(db, a, h[Done]) /\ ConsoleFollows(a, h)

DInv == /\ Counts /\ RequestsLeft /\ EventsPosted /\ ConsoleHosts /\ Rows
        /\ NothingMissed /\ NothingInvented /\ HostsFollow

\* What the counters are.
LEMMA CountsAre ==
  ASSUME TypeOK, Counts
  PROVE  /\ offered \in Nat /\ head \in Nat /\ Done \in 0..head /\ head <= offered
         /\ offered <= MaxPackets /\ unanswered \in Nat /\ unanswered <= MaxUnanswered
         /\ MaxPackets \in Nat /\ MaxUnanswered \in Nat /\ first \in Nat
         /\ IsFiniteSet(delayed) /\ Cardinality(delayed) \in Nat
<1>1. /\ offered \in Nat /\ packets \in 0..MaxPackets /\ unanswered \in 0..MaxUnanswered
      /\ offered <= packets /\ head \in 0..offered /\ posting \in BOOLEAN
      /\ posting => handed \in 1..head
      /\ delayed \in SUBSET (1..head)
      /\ MaxPackets \in Nat /\ MaxUnanswered \in Nat /\ first \in 1..(offered + 1)
  BY BoundsAssumption DEF TypeOK, Counts
<1>2. IsFiniteSet(delayed)
  <2>1. head \in Int /\ 1 \in Int
    BY <1>1
  <2>2. PICK T : T = 1..head /\ IsFiniteSet(T)
    BY <2>1, FS_Interval
  <2>. QED BY <1>1, <2>2, FS_Subset
<1>3. Cardinality(delayed) \in Nat
  BY <1>2, FS_CardinalityType
<1>4. Done \in 0..head
  BY <1>1 DEF Done
<1>. QED BY <1>1, <1>2, <1>3, <1>4

\* The audit rows can be counted, and the bounds leave a request.
LEMMA RequestIsLeft ==
  ASSUME TypeOK, DInv
  PROVE  /\ IsFiniteSet(db.audit) /\ Cardinality(db.audit) \in Nat
         /\ Cardinality(db.audit) < MaxPackets + MaxUnanswered
              => (CHOOSE r \in Requests \ db.audit : TRUE) \in Requests \ db.audit
<1>1. MaxPackets \in Nat /\ MaxUnanswered \in Nat
  BY BoundsAssumption
<1>2. IsFiniteSet(Requests) /\ Cardinality(Requests) = MaxPackets + MaxUnanswered
  <2>1. MaxPackets + MaxUnanswered \in Nat
    BY <1>1
  <2>2. IsFiniteSet(1..(MaxPackets + MaxUnanswered))
        /\ Cardinality(1..(MaxPackets + MaxUnanswered))
             = IF 1 > MaxPackets + MaxUnanswered THEN 0 ELSE (MaxPackets + MaxUnanswered) - 1 + 1
    BY <2>1, FS_Interval
  <2>. QED BY <2>1, <2>2 DEF Requests
<1>3. db.audit \in SUBSET Requests
  BY DEF DInv, Rows, Table
<1>4. IsFiniteSet(db.audit) /\ Cardinality(db.audit) \in Nat
  BY <1>2, <1>3, FS_Subset, FS_CardinalityType
<1>5. ASSUME Cardinality(db.audit) < MaxPackets + MaxUnanswered
      PROVE  Requests \ db.audit # {}
  <2>1. db.audit # Requests
    BY <1>1, <1>2, <1>4, <1>5
  <2>. QED BY <1>3, <2>1
<1>. QED BY <1>4, <1>5

\* What every event does that reaches the API.
LEMMA IngestStep ==
  ASSUME TypeOK, DInv, NEW n \in 1..offered, Ingested(n),
         Cardinality(db.audit) < MaxPackets + MaxUnanswered,
         sent' = sent, offered' = offered
  PROVE  /\ Rows' /\ EventsPosted' /\ NothingInvented'
         /\ IsFiniteSet(db'.audit) /\ Cardinality(db'.audit) = Cardinality(db.audit) + 1
         /\ StoredIn(db', sent[n])
         /\ \A m \in 1..offered : StoredIn(db, sent[m]) => StoredIn(db', sent[m])
         /\ \A a \in Ip : \A host \in Seq(Token) : HasHost(db, a, host) =>
              HasHost(db', a, IF sent[n].ip = a THEN HostAfterEvent(host, sent[n]) ELSE host)
<1>1. PICK old, new, ev, r : /\ old = db /\ new = db' /\ ev = sent[n]
                             /\ r = CHOOSE x \in Requests \ db.audit : TRUE
  OBVIOUS
<1>2. /\ old \in Table /\ OneRow(old) /\ r \in Requests \ old.audit
      /\ ev.ip \in Ip /\ EventIsPosted(ev) /\ Api!IngestResult(old, new, r, Body(ev))
  BY <1>1, RequestIsLeft DEF DInv, Rows, EventsPosted, Ingested
<1>3. PICK d : new \in Table /\ IsIngested(old, new, ev, r, d)
  BY <1>2, IngestIs
<1>4. /\ OneRow(new) /\ StoredIn(new, ev)
      /\ \A e : e.ip \in Ip /\ StoredIn(old, e) => StoredIn(new, e)
      /\ \A x \in Requests : \A t \in new.services[x] :
           \/ t \in old.services[x] /\ old.ip[x] = new.ip[x]
           \/ t \in Body(ev).services /\ new.ip[x] = ev.ip
  BY <1>2, <1>3, IngestKeeps
<1>5. Rows'
  BY <1>1, <1>3, <1>4 DEF Rows
<1>6. EventsPosted'
  BY DEF DInv, EventsPosted
<1>7. NothingInvented'
  <2>. SUFFICES ASSUME NEW x \in Requests, NEW t \in db'.services[x]
                PROVE  \E m \in 1..offered' : sent'[m].ip = db'.ip[x] /\ t \in Body(sent'[m]).services
    BY Zenon DEF NothingInvented
  <2>1. CASE t \in old.services[x] /\ old.ip[x] = new.ip[x]
    <3>1. PICK m \in 1..offered : sent[m].ip = old.ip[x] /\ t \in Body(sent[m]).services
      BY <1>1, <2>1, Zenon DEF DInv, NothingInvented
    <3>. QED BY <1>1, <2>1, <3>1
  <2>2. CASE t \in Body(ev).services /\ new.ip[x] = ev.ip
    BY <1>1, <2>2
  <2>. QED BY <1>1, <1>4, <2>1, <2>2
<1>8. IsFiniteSet(db'.audit) /\ Cardinality(db'.audit) = Cardinality(db.audit) + 1
  <2>1. new.audit = old.audit \cup {r}
    BY <1>3 DEF IsIngested
  <2>2. IsFiniteSet(old.audit) /\ r \notin old.audit
    BY <1>1, <1>2, RequestIsLeft
  <2>3. IsFiniteSet(old.audit \cup {r}) /\ Cardinality(old.audit \cup {r}) = Cardinality(old.audit) + 1
    BY <2>2, FS_AddElement
  <2>. QED BY <1>1, <2>1, <2>3
<1>9. StoredIn(db', sent[n])
  BY <1>1, <1>4
<1>10. \A m \in 1..offered : StoredIn(db, sent[m]) => StoredIn(db', sent[m])
  BY <1>1, <1>4 DEF DInv, EventsPosted
<1>11. \A a \in Ip : \A host \in Seq(Token) : HasHost(db, a, host) =>
         HasHost(db', a, IF sent[n].ip = a THEN HostAfterEvent(host, sent[n]) ELSE host)
  <2>1. \A a \in Ip : \A host \in Seq(Token) : HasHost(old, a, host) =>
          HasHost(new, a, IF ev.ip = a THEN HostAfterEvent(host, ev) ELSE host)
    BY <1>2, <1>3, IngestHost
  <2>. QED BY <1>1, <2>1
<1>. QED BY <1>5, <1>6, <1>7, <1>8, <1>9, <1>10, <1>11

\* The poster and the API leave the worker's side as it is.
LEMMA SameConsole ==
  ASSUME UNCHANGED <<sent, offered, devices, first, restarts>>
  PROVE  /\ ConsoleHosts => ConsoleHosts'
         /\ \A a, h : IsHostOf(a, h) => IsHostOf(a, h)'
         /\ \A a, h : ConsoleFollows(a, h) => ConsoleFollows(a, h)'
<1>1. ConsoleHosts => ConsoleHosts'
  BY DEF ConsoleHosts
<1>2. ASSUME NEW a, NEW h, IsHostOf(a, h)
      PROVE  IsHostOf(a, h)'
  BY <1>2 DEF IsHostOf
<1>3. ASSUME NEW a, NEW h, ConsoleFollows(a, h)
      PROVE  ConsoleFollows(a, h)'
  <2>1. SentTo(a)' = SentTo(a)
    BY Zenon DEF SentTo, SentOf
  <2>2. devices' = devices /\ offered' = offered /\ restarts' = restarts
    OBVIOUS
  <2>. QED BY <1>3, <2>1, <2>2 DEF ConsoleFollows
<1>. QED BY <1>1, <1>2, <1>3, Zenon

\* An answered request.
LEMMA AnsweredKeeps ==
  ASSUME TypeOK, DInv, PostAnswered
  PROVE  DInv'
<1>1. /\ posting = TRUE /\ posting' = FALSE /\ Ingested(handed)
      /\ heard' = heard /\ devices' = devices /\ sent' = sent /\ packets' = packets
      /\ offered' = offered /\ head' = head /\ handed' = handed /\ delayed' = delayed
      /\ gone' = gone /\ first' = first /\ unanswered' = unanswered /\ restarts' = restarts
  <2>1. posting \in BOOLEAN
    BY DEF DInv, Counts
  <2>. QED BY <2>1 DEF PostAnswered, worker, queue
<1>2. /\ Counts /\ RequestsLeft /\ EventsPosted /\ ConsoleHosts /\ Rows
      /\ NothingMissed /\ NothingInvented /\ HostsFollow
  BY DEF DInv
<1>3. /\ offered \in Nat /\ head \in Nat /\ head <= offered
      /\ offered <= MaxPackets /\ unanswered \in Nat /\ unanswered <= MaxUnanswered
      /\ MaxPackets \in Nat /\ MaxUnanswered \in Nat /\ Cardinality(delayed) \in Nat
  BY <1>2, CountsAre
<1>4. handed \in 1..head /\ handed \in 1..offered /\ Done = handed - 1 /\ Done' = head
  BY <1>1, <1>2, <1>3 DEF Counts, Done
<1>5. PICK c \in Nat : c = Cardinality(db.audit)
  BY RequestIsLeft
<1>6. c + Cardinality(delayed) <= (handed - 1) + unanswered
  BY <1>2, <1>4, <1>5 DEF RequestsLeft
<1>7. c < MaxPackets + MaxUnanswered
  BY <1>3, <1>4, <1>6
<1>8. /\ Rows' /\ EventsPosted' /\ NothingInvented'
      /\ IsFiniteSet(db'.audit) /\ Cardinality(db'.audit) = Cardinality(db.audit) + 1
      /\ StoredIn(db', sent[handed])
      /\ \A m \in 1..offered : StoredIn(db, sent[m]) => StoredIn(db', sent[m])
      /\ \A a \in Ip : \A host \in Seq(Token) : HasHost(db, a, host) =>
           HasHost(db', a, IF sent[handed].ip = a THEN HostAfterEvent(host, sent[handed]) ELSE host)
  BY <1>1, <1>4, <1>5, <1>7, IngestStep
<1>9. Counts'
  BY <1>1, <1>2 DEF Counts
<1>10. RequestsLeft'
  <2>1. Cardinality(db'.audit) = c + 1
    BY <1>5, <1>8
  <2>2. (c + 1) + Cardinality(delayed) <= head + unanswered
    BY <1>3, <1>4, <1>6
  <2>. QED BY <1>1, <1>4, <2>1, <2>2 DEF RequestsLeft
<1>11. ConsoleHosts'
  BY <1>1, <1>2, SameConsole
<1>12. NothingMissed'
  BY <1>1, <1>2, <1>8 DEF NothingMissed
<1>13. HostsFollow'
  <2>. SUFFICES ASSUME gone' = {} /\ unanswered' = 0, NEW a \in Ip
                PROVE  \E h : IsHostOf(a, h)' /\ HasHost(db', a, h[Done']) /\ ConsoleFollows(a, h)'
    BY Zenon DEF HostsFollow
  <2>1. PICK h : IsHostOf(a, h) /\ HasHost(db, a, h[Done]) /\ ConsoleFollows(a, h)
    BY <1>1, <1>2 DEF HostsFollow
  <2>2. handed = head
    BY <1>1, <1>2 DEF Counts
  <2>3. /\ handed - 1 \in 0..offered
        /\ h[handed] = IF sent[handed].ip = a THEN HostAfterEvent(h[handed - 1], sent[handed])
                       ELSE h[handed - 1]
        /\ h[handed - 1] \in Seq(Token)
    <3>1. handed - 1 \in 0..offered
      BY <1>3, <1>4
    <3>. QED BY <1>4, <2>1, <3>1 DEF IsHostOf
  <2>4. PICK before : before = h[handed - 1]
    OBVIOUS
  <2>5. HasHost(db', a, IF sent[handed].ip = a THEN HostAfterEvent(before, sent[handed]) ELSE before)
    <3>1. before \in Seq(Token) /\ HasHost(db, a, before)
      BY <1>4, <2>1, <2>3, <2>4
    <3>. QED BY <1>8, <3>1, Zenon
  <2>6. h[Done'] = h[handed]
    BY <1>4, <2>2
  <2>7. HasHost(db', a, h[Done'])
    BY <2>3, <2>4, <2>5, <2>6
  <2>8. IsHostOf(a, h)' /\ ConsoleFollows(a, h)'
    BY <1>1, <2>1, SameConsole
  <2>. QED BY <2>7, <2>8
<1>. QED BY <1>8, <1>9, <1>10, <1>11, <1>12, <1>13 DEF DInv

\* A request whose answer is lost.
LEMMA UnansweredKeeps ==
  ASSUME TypeOK, DInv, PostUnanswered
  PROVE  DInv'
<1>1. /\ posting = TRUE /\ posting' = TRUE /\ Ingested(handed)
      /\ unanswered < MaxUnanswered /\ unanswered' = unanswered + 1
      /\ heard' = heard /\ devices' = devices /\ sent' = sent /\ packets' = packets
      /\ offered' = offered /\ head' = head /\ handed' = handed /\ delayed' = delayed
      /\ gone' = gone /\ first' = first /\ restarts' = restarts
  <2>1. posting \in BOOLEAN
    BY DEF DInv, Counts
  <2>. QED BY <2>1 DEF PostUnanswered, worker, queue
<1>2. /\ Counts /\ RequestsLeft /\ EventsPosted /\ ConsoleHosts /\ Rows
      /\ NothingMissed /\ NothingInvented
  BY DEF DInv
<1>3. /\ offered \in Nat /\ head \in Nat /\ head <= offered
      /\ offered <= MaxPackets /\ unanswered \in Nat
      /\ MaxPackets \in Nat /\ MaxUnanswered \in Nat /\ Cardinality(delayed) \in Nat
  BY <1>2, CountsAre
<1>4. handed \in 1..head /\ handed \in 1..offered /\ Done = handed - 1 /\ Done' = handed - 1
  BY <1>1, <1>2, <1>3 DEF Counts, Done
<1>5. PICK c \in Nat : c = Cardinality(db.audit)
  BY RequestIsLeft
<1>6. c + Cardinality(delayed) <= (handed - 1) + unanswered
  BY <1>2, <1>4, <1>5 DEF RequestsLeft
<1>7. c < MaxPackets + MaxUnanswered
  BY <1>1, <1>3, <1>4, <1>6
<1>8. /\ Rows' /\ EventsPosted' /\ NothingInvented'
      /\ IsFiniteSet(db'.audit) /\ Cardinality(db'.audit) = Cardinality(db.audit) + 1
      /\ \A m \in 1..offered : StoredIn(db, sent[m]) => StoredIn(db', sent[m])
  BY <1>1, <1>4, <1>5, <1>7, IngestStep
<1>9. Counts'
  <2>1. unanswered' \in 0..MaxUnanswered /\ unanswered' > 0
    BY <1>1, <1>3
  <2>. QED BY <1>1, <1>2, <2>1 DEF Counts
<1>10. RequestsLeft'
  <2>1. Cardinality(db'.audit) = c + 1
    BY <1>5, <1>8
  <2>2. (c + 1) + Cardinality(delayed) <= (handed - 1) + (unanswered + 1)
    BY <1>3, <1>4, <1>6
  <2>. QED BY <1>1, <1>4, <2>1, <2>2 DEF RequestsLeft
<1>11. ConsoleHosts'
  BY <1>1, <1>2, SameConsole
<1>12. NothingMissed'
  BY <1>1, <1>2, <1>8 DEF NothingMissed
<1>13. HostsFollow'
  <2>1. unanswered' # 0
    BY <1>1, <1>3
  <2>. QED BY <2>1 DEF HostsFollow
<1>. QED BY <1>8, <1>9, <1>10, <1>11, <1>12, <1>13 DEF DInv

\* A request that may still arrive when the client has given it up.
LEMMA DelayedKeeps ==
  ASSUME TypeOK, DInv, PostDelayed
  PROVE  DInv'
<1>1. /\ posting = TRUE /\ posting' = TRUE
      /\ unanswered < MaxUnanswered /\ unanswered' = unanswered + 1
      /\ delayed' = delayed \cup {handed}
      /\ heard' = heard /\ devices' = devices /\ sent' = sent /\ packets' = packets
      /\ offered' = offered /\ head' = head /\ handed' = handed /\ db' = db
      /\ gone' = gone /\ first' = first /\ restarts' = restarts
  <2>1. posting \in BOOLEAN
    BY DEF DInv, Counts
  <2>. QED BY <2>1 DEF PostDelayed, worker, queue
<1>2. /\ Counts /\ RequestsLeft /\ EventsPosted /\ ConsoleHosts /\ Rows
      /\ NothingMissed /\ NothingInvented
  BY DEF DInv
<1>3. /\ offered \in Nat /\ head \in Nat /\ head <= offered /\ unanswered \in Nat
      /\ MaxUnanswered \in Nat /\ IsFiniteSet(delayed) /\ Cardinality(delayed) \in Nat
  BY <1>2, CountsAre
<1>4. handed \in 1..head /\ Done = handed - 1 /\ Done' = handed - 1
  BY <1>1, <1>2, <1>3 DEF Counts, Done
<1>5. PICK c \in Nat : c = Cardinality(db.audit)
  BY RequestIsLeft
<1>6. Counts'
  <2>1. unanswered' \in 0..MaxUnanswered /\ unanswered' > 0
    BY <1>1, <1>3
  <2>. QED BY <1>1, <1>2, <1>4, <2>1 DEF Counts
<1>7. RequestsLeft'
  <2>1. PICK k \in Nat : k = Cardinality(delayed') /\ k <= Cardinality(delayed) + 1
    <3>1. Cardinality(delayed \cup {handed}) = IF handed \in delayed THEN Cardinality(delayed)
                                               ELSE Cardinality(delayed) + 1
      BY <1>3, FS_AddElement
    <3>. QED BY <1>1, <1>3, <3>1
  <2>2. c + Cardinality(delayed) <= (handed - 1) + unanswered
    BY <1>2, <1>4, <1>5 DEF RequestsLeft
  <2>3. c + k <= (handed - 1) + (unanswered + 1)
    BY <1>3, <1>4, <2>1, <2>2
  <2>4. Cardinality(db'.audit) = c
    BY <1>1, <1>5
  <2>. QED BY <1>1, <1>4, <2>1, <2>3, <2>4 DEF RequestsLeft
<1>8. EventsPosted' /\ Rows' /\ NothingMissed' /\ NothingInvented'
  BY <1>1, <1>2 DEF EventsPosted, Rows, NothingMissed, NothingInvented
<1>9. ConsoleHosts'
  BY <1>1, <1>2, SameConsole
<1>10. HostsFollow'
  <2>1. unanswered' # 0
    BY <1>1, <1>3
  <2>. QED BY <2>1 DEF HostsFollow
<1>. QED BY <1>6, <1>7, <1>8, <1>9, <1>10 DEF DInv

\* A request that arrives late.
LEMMA ArrivesKeeps ==
  ASSUME TypeOK, DInv, DelayedArrives
  PROVE  DInv'
<1>1. /\ heard' = heard /\ devices' = devices /\ sent' = sent /\ packets' = packets
      /\ offered' = offered /\ head' = head /\ handed' = handed /\ posting' = posting
      /\ gone' = gone /\ first' = first /\ unanswered' = unanswered /\ restarts' = restarts
  BY DEF DelayedArrives, worker, queue
<1>2. PICK n \in delayed : Ingested(n) /\ delayed' = delayed \ {n}
  BY DEF DelayedArrives
<1>3. /\ Counts /\ RequestsLeft /\ EventsPosted /\ ConsoleHosts /\ Rows
      /\ NothingMissed /\ NothingInvented
  BY DEF DInv
<1>4. /\ offered \in Nat /\ head \in Nat /\ head <= offered /\ Done \in 0..head
      /\ offered <= MaxPackets /\ unanswered \in Nat /\ unanswered <= MaxUnanswered
      /\ MaxPackets \in Nat /\ MaxUnanswered \in Nat
      /\ IsFiniteSet(delayed) /\ Cardinality(delayed) \in Nat
  BY <1>3, CountsAre
<1>5. n \in 1..offered /\ unanswered > 0
  <2>1. delayed \subseteq 1..head /\ unanswered > 0
    BY <1>3 DEF Counts
  <2>. QED BY <1>4, <2>1
<1>6. PICK c \in Nat : c = Cardinality(db.audit)
  BY RequestIsLeft
<1>7. PICK k \in Nat : k = Cardinality(delayed') /\ Cardinality(delayed) = k + 1
  <2>1. IsFiniteSet(delayed \ {n}) /\ Cardinality(delayed \ {n}) = Cardinality(delayed) - 1
    BY <1>4, FS_RemoveElement
  <2>2. Cardinality(delayed \ {n}) \in Nat
    BY <2>1, FS_CardinalityType
  <2>. QED BY <1>2, <1>4, <2>1, <2>2
<1>8. PICK done \in Nat : done = Done /\ done <= head
  BY <1>4
<1>9. c + (k + 1) <= done + unanswered
  BY <1>3, <1>6, <1>7, <1>8 DEF RequestsLeft
<1>10. c < MaxPackets + MaxUnanswered
  BY <1>4, <1>8, <1>9
<1>11. /\ Rows' /\ EventsPosted' /\ NothingInvented'
       /\ IsFiniteSet(db'.audit) /\ Cardinality(db'.audit) = Cardinality(db.audit) + 1
       /\ \A m \in 1..offered : StoredIn(db, sent[m]) => StoredIn(db', sent[m])
  BY <1>1, <1>2, <1>5, <1>6, <1>10, IngestStep
<1>12. Counts'
  BY <1>1, <1>2, <1>3, <1>5 DEF Counts
<1>13. RequestsLeft'
  <2>1. Cardinality(db'.audit) = c + 1
    BY <1>6, <1>11
  <2>2. (c + 1) + k <= done + unanswered
    BY <1>4, <1>9
  <2>3. Done' = done
    BY <1>1, <1>8 DEF Done
  <2>. QED BY <1>1, <1>7, <2>1, <2>2, <2>3 DEF RequestsLeft
<1>14. ConsoleHosts'
  BY <1>1, <1>3, SameConsole
<1>15. NothingMissed'
  BY <1>1, <1>3, <1>11 DEF NothingMissed
<1>16. HostsFollow'
  <2>1. unanswered' # 0
    BY <1>1, <1>4, <1>5
  <2>. QED BY <2>1 DEF HostsFollow
<1>. QED BY <1>11, <1>12, <1>13, <1>14, <1>15, <1>16 DEF DInv

\* The poster takes an event, or nothing happens.
LEMMA TakeKeeps ==
  ASSUME TypeOK, DInv, Take \/ UNCHANGED vars
  PROVE  DInv'
<1>1. /\ heard' = heard /\ devices' = devices /\ sent' = sent /\ packets' = packets
      /\ offered' = offered /\ delayed' = delayed /\ db' = db
      /\ gone' = gone /\ first' = first /\ unanswered' = unanswered /\ restarts' = restarts
  BY DEF Take, vars, worker, queue, Queue!Take
<1>2. \/ /\ ~posting /\ posting' = TRUE /\ head < offered /\ head' = head + 1 /\ handed' = head + 1
      \/ posting' = posting /\ head' = head /\ handed' = handed
  BY DEF Take, vars, worker, queue, Queue!Take
<1>3. /\ Counts /\ RequestsLeft /\ EventsPosted /\ ConsoleHosts /\ Rows
      /\ NothingMissed /\ NothingInvented /\ HostsFollow
  BY DEF DInv
<1>4. offered \in Nat /\ head \in Nat /\ head <= offered
  BY <1>3, CountsAre
<1>5. Done' = Done
  <2>1. CASE ~posting /\ posting' = TRUE /\ head < offered /\ head' = head + 1 /\ handed' = head + 1
    <3>1. (head + 1) - 1 = head
      BY <1>4
    <3>. QED BY <2>1, <3>1 DEF Done
  <2>2. CASE posting' = posting /\ head' = head /\ handed' = handed
    BY <2>2 DEF Done
  <2>. QED BY <1>2, <2>1, <2>2
<1>6. Counts'
  <2>1. CASE ~posting /\ posting' = TRUE /\ head < offered /\ head' = head + 1 /\ handed' = head + 1
    <3>1. head + 1 \in 0..offered /\ head + 1 \in 1..(head + 1) /\ 1..head \subseteq 1..(head + 1)
      BY <1>4, <2>1
    <3>. QED BY <1>1, <1>3, <2>1, <3>1 DEF Counts
  <2>2. CASE posting' = posting /\ head' = head /\ handed' = handed
    BY <1>1, <1>3, <2>2 DEF Counts
  <2>. QED BY <1>2, <2>1, <2>2
<1>7. RequestsLeft' /\ EventsPosted' /\ Rows' /\ NothingInvented'
  <2>1. RequestsLeft'
    BY <1>1, <1>3, <1>5 DEF RequestsLeft
  <2>. QED BY <1>1, <1>3, <2>1 DEF EventsPosted, Rows, NothingInvented
<1>8. ConsoleHosts'
  BY <1>1, <1>3, SameConsole
<1>9. NothingMissed'
  <2>1. CASE ~posting /\ posting' = TRUE /\ head < offered /\ head' = head + 1 /\ handed' = head + 1
    <3>1. \A n \in 1..offered : n > head => n > head + 1 \/ n = head + 1
      BY <1>4
    <3>. QED BY <1>1, <1>3, <2>1, <3>1 DEF NothingMissed
  <2>2. CASE posting' = posting /\ head' = head /\ handed' = handed
    BY <1>1, <1>3, <2>2 DEF NothingMissed
  <2>. QED BY <1>2, <2>1, <2>2
<1>10. HostsFollow'
  <2>. SUFFICES ASSUME gone' = {} /\ unanswered' = 0, NEW a \in Ip
                PROVE  \E h : IsHostOf(a, h)' /\ HasHost(db', a, h[Done']) /\ ConsoleFollows(a, h)'
    BY Zenon DEF HostsFollow
  <2>1. PICK h : IsHostOf(a, h) /\ HasHost(db, a, h[Done]) /\ ConsoleFollows(a, h)
    BY <1>1, <1>3 DEF HostsFollow
  <2>2. IsHostOf(a, h)' /\ ConsoleFollows(a, h)'
    BY <1>1, <2>1, SameConsole
  <2>3. HasHost(db', a, h[Done'])
    BY <1>1, <1>5, <2>1
  <2>. QED BY <2>2, <2>3
<1>. QED BY <1>6, <1>7, <1>8, <1>9, <1>10 DEF DInv

\* The scanner is started again.
LEMMA RestartKeeps ==
  ASSUME TypeOK, DInv, Restart
  PROVE  DInv'
<1>1. /\ devices' = [a \in Ip |-> NoSnapshot] /\ sent' = sent /\ packets' = packets
      /\ offered' = offered /\ head' = offered /\ handed' = handed /\ delayed' = delayed /\ db' = db
      /\ posting' = FALSE /\ gone' = gone \cup Waiting /\ first' = offered + 1
      /\ unanswered' = unanswered /\ restarts' = restarts + 1
  BY DEF Restart
<1>2. /\ Counts /\ RequestsLeft /\ EventsPosted /\ ConsoleHosts /\ Rows
      /\ NothingMissed /\ NothingInvented /\ HostsFollow
  BY DEF DInv
<1>3. /\ offered \in Nat /\ head \in Nat /\ head <= offered /\ Done \in 0..head
      /\ unanswered \in Nat /\ Cardinality(delayed) \in Nat
  BY <1>2, CountsAre
<1>4. /\ \A n \in 1..offered : n > head => n \in Waiting
      /\ posting => handed \in Waiting
  BY <1>3 DEF Waiting
<1>5. restarts \in Nat
  BY <1>2 DEF Counts
<1>6. Counts'
  <2>1. /\ restarts + 1 \in Nat /\ restarts + 1 # 0
        /\ offered \in 0..offered /\ 1..head \subseteq 1..offered
    BY <1>3, <1>5
  <2>. QED BY <1>1, <1>2, <2>1 DEF Counts
<1>7. RequestsLeft'
  <2>1. PICK c \in Nat : c = Cardinality(db.audit)
    BY RequestIsLeft
  <2>2. PICK done \in Nat : done = Done /\ done <= head
    BY <1>3
  <2>3. c + Cardinality(delayed) <= done + unanswered
    BY <1>2, <2>1, <2>2 DEF RequestsLeft
  <2>4. c + Cardinality(delayed) <= offered + unanswered
    BY <1>3, <2>2, <2>3
  <2>5. Done' = offered
    BY <1>1 DEF Done
  <2>. QED BY <1>1, <2>1, <2>4, <2>5 DEF RequestsLeft
<1>8. EventsPosted' /\ Rows' /\ NothingInvented'
  BY <1>1, <1>2 DEF EventsPosted, Rows, NothingInvented
<1>9. NoSnapshot.mdns_host = Empty /\ Empty \in Seq(Token)
  BY DEF NoSnapshot, Empty
<1>10. ConsoleHosts'
  BY <1>1, <1>9 DEF ConsoleHosts
<1>11. NothingMissed'
  BY <1>1, <1>2, <1>4 DEF NothingMissed
<1>12. HostsFollow'
  <2>. SUFFICES ASSUME gone' = {} /\ unanswered' = 0, NEW a \in Ip
                PROVE  \E h : IsHostOf(a, h)' /\ HasHost(db', a, h[Done']) /\ ConsoleFollows(a, h)'
    BY Zenon DEF HostsFollow
  <2>1. gone = {} /\ Waiting = {}
    BY <1>1
  <2>2. ~posting /\ head = offered
    <3>1. ~posting
      BY <1>4, <2>1
    <3>2. ~(head < offered)
      <4>1. head < offered => offered \in 1..offered /\ offered > head
        BY <1>3
      <4>. QED BY <1>4, <2>1, <4>1
    <3>. QED BY <1>3, <3>1, <3>2
  <2>3. Done = offered /\ Done' = offered
    BY <1>1, <2>2 DEF Done
  <2>4. PICK h : IsHostOf(a, h) /\ HasHost(db, a, h[Done])
    BY <1>1, <1>2, <2>1 DEF HostsFollow
  <2>5. IsHostOf(a, h)'
    BY <1>1, <2>4 DEF IsHostOf
  <2>6. HasHost(db', a, h[Done'])
    BY <1>1, <2>3, <2>4
  <2>7. ConsoleFollows(a, h)'
    <3>1. first'..offered' = {}
      BY <1>1, <1>3
    <3>2. SentTo(a)' = {}
      BY <3>1 DEF SentTo, SentOf
    <3>3. restarts' > 0
      BY <1>1, <1>5
    <3>. QED BY <3>2, <3>3 DEF ConsoleFollows
  <2>. QED BY <2>5, <2>6, <2>7
<1>. QED BY <1>6, <1>7, <1>8, <1>10, <1>11, <1>12 DEF DInv

\* The hosts of an address, one event further.
LEMMA HostsMore ==
  ASSUME TypeOK, NEW ev, EventIsPosted(ev), NEW a, NEW h, IsHostOf(a, h),
         sent' = Append(sent, ev), offered' = offered + 1
  PROVE  \E g : /\ IsHostOf(a, g)' /\ \A n \in 0..offered : g[n] = h[n]
                /\ g[offered'] = IF ev.ip = a THEN HostAfterEvent(h[offered], ev) ELSE h[offered]
<1>1. /\ offered \in Nat /\ offered \in 0..offered /\ 0 \in 0..offered
      /\ h \in [0..offered -> Seq(Token)] /\ h[0] = Empty
      /\ \A n \in 1..offered :
           h[n] = IF sent[n].ip = a THEN HostAfterEvent(h[n - 1], sent[n]) ELSE h[n - 1]
  <2>1. offered \in Nat
    BY DEF TypeOK
  <2>. QED BY <2>1 DEF IsHostOf
<1>2. sent'[offered + 1] = ev /\ \A n \in 1..offered : sent'[n] = sent[n]
  BY AppendProperties DEF TypeOK
<1>3. PICK last : last = IF ev.ip = a THEN HostAfterEvent(h[offered], ev) ELSE h[offered]
  OBVIOUS
<1>4. last \in Seq(Token)
  BY <1>1, <1>3, HostAfterType DEF EventIsPosted
<1>5. PICK g : g = [n \in 0..(offered + 1) |-> IF n = offered + 1 THEN last ELSE h[n]]
  OBVIOUS
<1>6. /\ \A n \in 0..offered : n \in 0..(offered + 1) /\ n # offered + 1
      /\ \A n \in 0..(offered + 1) : n \in 0..offered \/ n = offered + 1
      /\ \A n \in 1..(offered + 1) : n \in 1..offered \/ n = offered + 1
      /\ \A n \in 1..offered : n \in 0..offered /\ n - 1 \in 0..offered
      /\ offered + 1 \in 0..(offered + 1) /\ (offered + 1) - 1 = offered
  BY <1>1
<1>7. /\ g[offered + 1] = last /\ \A n \in 0..offered : g[n] = h[n]
      /\ g \in [0..(offered + 1) -> Seq(Token)]
  BY <1>1, <1>4, <1>5, <1>6
<1>8. ASSUME NEW n \in 1..(offered + 1)
      PROVE  g[n] = IF sent'[n].ip = a THEN HostAfterEvent(g[n - 1], sent'[n]) ELSE g[n - 1]
  <2>1. CASE n \in 1..offered
    <3>1. g[n] = h[n] /\ g[n - 1] = h[n - 1] /\ sent'[n] = sent[n]
      BY <1>2, <1>6, <1>7, <2>1
    <3>. QED BY <1>1, <2>1, <3>1
  <2>2. CASE n = offered + 1
    <3>1. g[n] = last /\ g[n - 1] = h[offered] /\ sent'[n] = ev
      BY <1>1, <1>2, <1>6, <1>7, <2>2
    <3>. QED BY <1>3, <3>1
  <2>. QED BY <1>6, <2>1, <2>2
<1>9. IsHostOf(a, g)'
  <2>1. g[0] = Empty
    BY <1>1, <1>7
  <2>. QED BY <1>7, <1>8, <2>1 DEF IsHostOf
<1>. QED BY <1>3, <1>7, <1>9

\* The console follows one event further.
LEMMA ConsoleMore ==
  ASSUME TypeOK, NEW ev \in Event, EventIsPosted(ev), NEW a \in Ip, NEW h, NEW g,
         IsHostOf(a, h), ConsoleFollows(a, h), devices[a].mdns_host \in Seq(Token),
         sent' = Append(sent, ev), offered' = offered + 1, first' = first, restarts' = restarts,
         g[offered'] = (IF ev.ip = a THEN HostAfterEvent(h[offered], ev) ELSE h[offered]),
         devices'[a] = (IF ev.ip = a THEN merge_records(devices[a], ev) ELSE devices[a])
  PROVE  ConsoleFollows(a, g)'
<1>1. /\ SentTo(ev.ip)' = SentTo(ev.ip) \cup ToSet(ev.records)
      /\ \A b : b # ev.ip => SentTo(b)' = SentTo(b)
  BY SentMore, Zenon
<1>2. CASE ev.ip # a
  <2>1. SentTo(a)' = SentTo(a) /\ devices'[a] = devices[a] /\ g[offered'] = h[offered]
    BY <1>1, <1>2
  <2>. QED BY <2>1 DEF ConsoleFollows
<1>3. CASE ev.ip = a
  <2>1. PICK host, before : host = devices[a].mdns_host /\ before = h[offered]
    OBVIOUS
  <2>2. host \in Seq(Token) /\ before \in Seq(Token)
    <3>1. offered \in 0..offered
      BY DEF TypeOK
    <3>. QED BY <2>1, <3>1 DEF IsHostOf
  <2>3. devices'[a].mdns_host = HostAfterEvent(host, ev) /\ g[offered'] = HostAfterEvent(before, ev)
    <3>1. devices'[a] = merge_records(devices[a], ev)
      BY <1>3
    <3>2. merge_records(devices[a], ev).mdns_host = HostAfterEvent(devices[a].mdns_host, ev)
      BY MergedHost, Zenon
    <3>. QED BY <1>3, <2>1, <3>1, <3>2
  <2>4. CASE host = before \/ \E rec \in ToSet(ev.records) : NamesHost(rec)
    <3>1. HostAfterEvent(host, ev) = HostAfterEvent(before, ev)
      BY <2>2, <2>4, HostsMeet DEF EventIsPosted
    <3>. QED BY <2>3, <3>1 DEF ConsoleFollows
  <2>5. CASE ~(host = before \/ \E rec \in ToSet(ev.records) : NamesHost(rec))
    <3>1. restarts > 0 /\ \A rec \in SentTo(a) : ~NamesHost(rec)
      BY <2>1, <2>5 DEF ConsoleFollows
    <3>2. SentTo(a)' = SentTo(a) \cup ToSet(ev.records)
      BY <1>1, <1>3
    <3>3. \A rec \in SentTo(a)' : ~NamesHost(rec)
      BY <2>5, <3>1, <3>2
    <3>. QED BY <3>1, <3>3 DEF ConsoleFollows
  <2>. QED BY <2>4, <2>5
<1>. QED BY <1>2, <1>3

\* The worker lets an event through, to the console and to the queue.
LEMMA EventFollows ==
  ASSUME TypeOK, DInv, NEW ev \in Event, EventIsPosted(ev), Output(ev),
         packets < MaxPackets, packets' = packets + 1,
         UNCHANGED <<posting, delayed, first, db, unanswered, restarts>>
  PROVE  DInv'
<1>1. /\ sent' = Append(sent, ev) /\ offered' = offered + 1 /\ handed' = handed
      /\ posting' = posting /\ delayed' = delayed /\ first' = first /\ db' = db
      /\ unanswered' = unanswered /\ restarts' = restarts
      /\ devices' = [devices EXCEPT ![ev.ip] = merge_records(@, ev)]
  BY DEF Output, Console, apply, Enqueue, Queue!Offer
<1>2. \/ head' = head /\ gone' = gone
      \/ offered - head = Capacity /\ head' = head + 1 /\ gone' = gone \cup {head + 1}
  BY DEF Output, Enqueue, Queue!Offer
<1>3. /\ Counts /\ RequestsLeft /\ EventsPosted /\ ConsoleHosts /\ Rows
      /\ NothingMissed /\ NothingInvented /\ HostsFollow
  BY DEF DInv
<1>4. /\ offered \in Nat /\ head \in Nat /\ head <= offered /\ Done \in 0..head
      /\ unanswered \in Nat /\ Cardinality(delayed) \in Nat /\ MaxPackets \in Nat
  BY <1>3, CountsAre
<1>5. /\ ev.ip \in Ip
      /\ sent'[offered + 1] = ev /\ \A n \in 1..offered : sent'[n] = sent[n]
      /\ \A n \in 1..(offered + 1) : n \in 1..offered \/ n = offered + 1
  <2>1. ev.ip \in Ip
    BY DEF Event
  <2>. QED BY <1>1, <1>4, <2>1, AppendProperties DEF TypeOK
<1>6. devices' = [a \in Ip |-> IF ev.ip = a THEN merge_records(devices[a], ev) ELSE devices[a]]
  BY <1>1 DEF TypeOK
<1>7. Counts'
  <2>1. packets' \in 0..MaxPackets /\ offered' <= packets'
    BY <1>1, <1>3, <1>4 DEF Counts
  <2>2. head' \in 0..offered' /\ \A n : n \in 1..head => n \in 1..head'
    BY <1>1, <1>2, <1>4
  <2>3. gone' = {} => gone = {} /\ head' = head
    BY <1>2
  <2>4. posting' => handed' \in 1..head' /\ (gone' = {} => handed' = head')
    BY <1>1, <1>3, <2>2, <2>3 DEF Counts
  <2>5. delayed' \subseteq 1..head' /\ (delayed' # {} => unanswered' > 0)
    BY <1>1, <1>3, <2>2 DEF Counts
  <2>. QED BY <1>1, <1>3, <2>1, <2>2, <2>4, <2>5 DEF Counts
<1>8. RequestsLeft'
  <2>1. PICK c \in Nat : c = Cardinality(db.audit)
    BY RequestIsLeft
  <2>2. PICK done \in Nat : done = Done
    BY <1>4
  <2>3. Done' = done \/ Done' = done + 1
    BY <1>1, <1>2, <2>2 DEF Done
  <2>4. c + Cardinality(delayed) <= done + unanswered
    BY <1>3, <2>1, <2>2 DEF RequestsLeft
  <2>5. PICK later : later = Done' /\ (later = done \/ later = done + 1)
    BY <2>3
  <2>6. c + Cardinality(delayed) <= later + unanswered
    BY <1>4, <2>2, <2>4, <2>5
  <2>. QED BY <1>1, <2>1, <2>5, <2>6 DEF RequestsLeft
<1>9. EventsPosted'
  BY <1>1, <1>3, <1>5 DEF EventsPosted
<1>10. ConsoleHosts'
  <2>. SUFFICES ASSUME NEW a \in Ip
                PROVE  devices'[a].mdns_host \in Seq(Token)
    BY DEF ConsoleHosts
  <2>1. PICK host \in Seq(Token) : host = devices[a].mdns_host
    BY <1>3 DEF ConsoleHosts
  <2>2. CASE ev.ip = a
    <3>1. devices'[a] = merge_records(devices[a], ev)
      BY <1>6, <2>2
    <3>2. merge_records(devices[a], ev).mdns_host = HostAfterEvent(devices[a].mdns_host, ev)
      BY MergedHost, Zenon
    <3>3. HostAfterEvent(host, ev) \in Seq(Token)
      BY HostAfterType DEF EventIsPosted
    <3>. QED BY <2>1, <3>1, <3>2, <3>3
  <2>3. CASE ev.ip # a
    BY <1>6, <2>1, <2>3
  <2>. QED BY <2>2, <2>3
<1>11. Rows'
  BY <1>1, <1>3 DEF Rows
<1>12. NothingMissed'
  <2>. SUFFICES ASSUME NEW n \in 1..(offered + 1)
                PROVE  n \in gone' \/ n > head' \/ (posting' /\ n = handed') \/ StoredIn(db', sent'[n])
    BY <1>1 DEF NothingMissed
  <2>1. n > head => n > head' \/ n \in gone'
    BY <1>2, <1>4
  <2>2. gone \subseteq gone'
    BY <1>2
  <2>3. CASE n \in 1..offered
    <3>1. n \in gone \/ n > head \/ (posting /\ n = handed) \/ StoredIn(db, sent[n])
      BY <1>3, <2>3 DEF NothingMissed
    <3>2. sent'[n] = sent[n]
      BY <1>5, <2>3
    <3>. QED BY <1>1, <2>1, <2>2, <3>1, <3>2
  <2>4. CASE n = offered + 1
    <3>1. n > head
      BY <1>4, <2>4
    <3>. QED BY <2>1, <3>1
  <2>. QED BY <1>5, <2>3, <2>4
<1>13. NothingInvented'
  <2>. SUFFICES ASSUME NEW d \in Requests, NEW t \in db'.services[d]
                PROVE  \E n \in 1..offered' : sent'[n].ip = db'.ip[d] /\ t \in Body(sent'[n]).services
    BY Zenon DEF NothingInvented
  <2>3. t \in db.services[d] /\ db'.ip = db.ip
    BY <1>1
  <2>1. PICK n \in 1..offered : sent[n].ip = db.ip[d] /\ t \in Body(sent[n]).services
    BY <1>3, <2>3, Zenon DEF NothingInvented
  <2>2. n \in 1..offered' /\ sent'[n] = sent[n]
    <3>1. n \in 1..offered'
      BY <1>1, <1>4
    <3>. QED BY <1>5, <3>1
  <2>. QED BY <2>1, <2>2, <2>3
<1>14. HostsFollow'
  <2>. SUFFICES ASSUME gone' = {} /\ unanswered' = 0, NEW a \in Ip
                PROVE  \E g : IsHostOf(a, g)' /\ HasHost(db', a, g[Done']) /\ ConsoleFollows(a, g)'
    BY Zenon DEF HostsFollow
  <2>1. gone = {} /\ head' = head
    BY <1>2
  <2>2. PICK h : IsHostOf(a, h) /\ HasHost(db, a, h[Done]) /\ ConsoleFollows(a, h)
    BY <1>1, <1>3, <2>1 DEF HostsFollow
  <2>3. PICK g : /\ IsHostOf(a, g)' /\ \A n \in 0..offered : g[n] = h[n]
                 /\ g[offered'] = IF ev.ip = a THEN HostAfterEvent(h[offered], ev) ELSE h[offered]
    BY <1>1, <2>2, HostsMore
  <2>4. HasHost(db', a, g[Done'])
    <3>1. Done' = Done /\ Done \in 0..offered
      BY <1>1, <1>4, <2>1 DEF Done
    <3>. QED BY <1>1, <2>2, <2>3, <3>1
  <2>5. ConsoleFollows(a, g)'
    <3>1. devices'[a] = IF ev.ip = a THEN merge_records(devices[a], ev) ELSE devices[a]
      BY <1>6
    <3>2. devices[a].mdns_host \in Seq(Token)
      BY <1>3 DEF ConsoleHosts
    <3>. QED BY <1>1, <2>2, <2>3, <3>1, <3>2, ConsoleMore, Zenon
  <2>. QED BY <2>3, <2>4, <2>5
<1>. QED BY <1>7, <1>8, <1>9, <1>10, <1>11, <1>12, <1>13, <1>14 DEF DInv

\* What the worker hears.
LEMMA HearFollows ==
  ASSUME TypeOK, DInv, NEW p \in Packets, Hear(p)
  PROVE  DInv'
<1>1. PICK ev : ev = filter_unseen(create_discovery_event(p))
  OBVIOUS
<1>2. IsFresh(ev, p, seen_keys)
  BY <1>1, FilterIs, Zenon
<1>3. ev \in Event /\ EventIsPosted(ev)
  <2>1. ev \in Event /\ ToSet(ev.records) \subseteq Displayable(p)
    BY <1>2 DEF IsFresh
  <2>2. ev.records \in Seq(ResourceRecordView)
    BY <2>1 DEF Event
  <2>3. \A rec \in ToSet(ev.records) : rec \in AllRecords /\ is_displayable_record(rec)
    BY <2>1 DEF Displayable, AllRecords
  <2>. QED BY <2>1, <2>2, <2>3 DEF EventIsPosted, ShownEvent
<1>4. /\ packets < MaxPackets /\ packets' = packets + 1
      /\ posting' = posting /\ delayed' = delayed /\ first' = first /\ db' = db
      /\ unanswered' = unanswered /\ restarts' = restarts
  BY DEF Hear
<1>5. IF ev.records = <<>> THEN UNCHANGED <<devices, sent, queue, gone>> ELSE Output(ev)
  BY <1>1, Zenon DEF Hear, OnEvent
<1>6. CASE ev.records = <<>>
  <2>1. /\ devices' = devices /\ sent' = sent /\ offered' = offered /\ head' = head
        /\ handed' = handed /\ gone' = gone
    BY <1>5, <1>6 DEF queue
  <2>2. /\ Counts /\ RequestsLeft /\ EventsPosted /\ ConsoleHosts /\ Rows
        /\ NothingMissed /\ NothingInvented /\ HostsFollow
    BY DEF DInv
  <2>3. Counts'
    <3>1. packets' \in 0..MaxPackets /\ offered' <= packets'
      BY <1>4, <2>1, <2>2, CountsAre DEF Counts
    <3>. QED BY <1>4, <2>1, <2>2, <3>1 DEF Counts
  <2>4. Done' = Done
    BY <1>4, <2>1 DEF Done
  <2>5. RequestsLeft' /\ EventsPosted' /\ Rows' /\ NothingMissed' /\ NothingInvented'
    BY <1>4, <2>1, <2>2, <2>4 DEF RequestsLeft, EventsPosted, Rows, NothingMissed, NothingInvented
  <2>6. /\ ConsoleHosts'
        /\ \A a, h : IsHostOf(a, h) => IsHostOf(a, h)'
        /\ \A a, h : ConsoleFollows(a, h) => ConsoleFollows(a, h)'
    BY <1>4, <2>1, <2>2, SameConsole
  <2>7. HostsFollow'
    <3>. SUFFICES ASSUME gone' = {} /\ unanswered' = 0, NEW a \in Ip
                  PROVE  \E h : IsHostOf(a, h)' /\ HasHost(db', a, h[Done']) /\ ConsoleFollows(a, h)'
      BY Zenon DEF HostsFollow
    <3>1. PICK h : IsHostOf(a, h) /\ HasHost(db, a, h[Done]) /\ ConsoleFollows(a, h)
      BY <1>4, <2>1, <2>2 DEF HostsFollow
    <3>2. HasHost(db', a, h[Done'])
      BY <1>4, <2>4, <3>1
    <3>. QED BY <2>6, <3>1, <3>2
  <2>. QED BY <2>3, <2>5, <2>6, <2>7 DEF DInv
<1>7. CASE ev.records # <<>>
  BY <1>3, <1>4, <1>5, <1>7, EventFollows
<1>. QED BY <1>6, <1>7

\* The invariant at the start, with an empty database.
LEMMA StartFollows == Init => DInv
<1>. SUFFICES ASSUME Init
              PROVE  DInv
  OBVIOUS
<1>1. /\ heard = <<>> /\ devices = [a \in Ip |-> NoSnapshot] /\ sent = <<>> /\ packets = 0
      /\ offered = 0 /\ head = 0 /\ handed = 0 /\ posting = FALSE /\ delayed = {} /\ gone = {}
      /\ first = 1 /\ unanswered = 0 /\ restarts = 0
      /\ db = Api!EmptyDatabase
  BY DEF Init, Queue!Init, Api!Init
<1>2. MaxPackets \in Nat /\ MaxUnanswered \in Nat
  BY BoundsAssumption
<1>3. Done = 0
  BY <1>1 DEF Done
<1>4. Counts
  <2>1. /\ packets \in 0..MaxPackets /\ unanswered \in 0..MaxUnanswered /\ restarts \in Nat
        /\ offered <= packets /\ head \in 0..offered
    BY <1>1, <1>2
  <2>2. posting \in BOOLEAN /\ ~posting /\ delayed \subseteq 1..head /\ delayed = {} /\ first = 1
    BY <1>1
  <2>. QED BY <2>1, <2>2 DEF Counts
<1>5. db.audit = {} /\ db = [ip |-> [d \in Requests |-> None], mac |-> [d \in Requests |-> None],
         host |-> [d \in Requests |-> None], seen |-> [d \in Requests |-> 0],
         approved |-> [d \in Requests |-> FALSE], services |-> [d \in Requests |-> {}],
         baseline |-> [d \in Requests |-> None], alerts |-> {}, audit |-> {}]
  BY <1>1 DEF Api!EmptyDatabase
<1>6. RequestsLeft
  <2>1. Cardinality(db.audit) = 0 /\ Cardinality(delayed) = 0
    BY <1>1, <1>5, FS_EmptySet
  <2>. QED BY <1>1, <1>3, <2>1 DEF RequestsLeft
<1>7. \A n : n \notin 1..offered
  BY <1>1
<1>8. EventsPosted /\ NothingMissed
  BY <1>7 DEF EventsPosted, NothingMissed
<1>9. NoSnapshot.mdns_host = Empty /\ Empty \in Seq(Token) /\ Column(Empty) = None
  BY DEF NoSnapshot, Empty, Column
<1>10. ConsoleHosts
  BY <1>1, <1>9 DEF ConsoleHosts
<1>11. Rows
  <2>1. None \in Columns
    BY <1>9 DEF Columns
  <2>2. db \in Table
    BY <1>5, <2>1 DEF Table
  <2>3. OneRow(db)
    BY <1>5 DEF OneRow
  <2>. QED BY <2>2, <2>3 DEF Rows
<1>12. NothingInvented
  BY <1>5 DEF NothingInvented
<1>13. HostsFollow
  <2>1. PICK h : h = [n \in 0..0 |-> Empty]
    OBVIOUS
  <2>2. h \in [0..0 -> Seq(Token)] /\ h[0] = Empty
    BY <1>9, <2>1
  <2>3. ASSUME NEW a \in Ip
        PROVE  IsHostOf(a, h) /\ HasHost(db, a, h[Done]) /\ ConsoleFollows(a, h)
    <3>1. IsHostOf(a, h)
      BY <1>1, <2>2 DEF IsHostOf
    <3>2. HasHost(db, a, h[Done])
      BY <1>3, <1>5, <1>9, <2>2 DEF HasHost
    <3>3. ConsoleFollows(a, h)
      BY <1>1, <1>9, <2>2 DEF ConsoleFollows
    <3>. QED BY <3>1, <3>2, <3>3
  <2>. QED BY <2>3, Zenon DEF HostsFollow
<1>. QED BY <1>4, <1>6, <1>8, <1>10, <1>11, <1>12, <1>13 DEF DInv

\* Together with the invariant of the worker it is inductive.
LEMMA InductiveToo ==
  /\ Init => DInv
  /\ IInv /\ DInv /\ [Next]_vars => DInv'
<1>1. ASSUME IInv, DInv, [Next]_vars
      PROVE  DInv'
  <2>1. TypeOK
    BY <1>1 DEF IInv
  <2>2. ASSUME NEW p \in Packets, Hear(p)
        PROVE  DInv'
    BY <1>1, <2>1, <2>2, HearFollows
  <2>3. CASE Take \/ UNCHANGED vars
    BY <1>1, <2>1, <2>3, TakeKeeps
  <2>4. CASE PostAnswered
    BY <1>1, <2>1, <2>4, AnsweredKeeps
  <2>5. CASE PostUnanswered
    BY <1>1, <2>1, <2>5, UnansweredKeeps
  <2>6. CASE PostDelayed
    BY <1>1, <2>1, <2>6, DelayedKeeps
  <2>7. CASE DelayedArrives
    BY <1>1, <2>1, <2>7, ArrivesKeeps
  <2>8. CASE Restart
    BY <1>1, <2>1, <2>8, RestartKeeps
  <2>. QED BY <1>1, <2>2, <2>3, <2>4, <2>5, <2>6, <2>7, <2>8 DEF Next
<1>. QED BY <1>1, StartFollows

\* The invariant of the poster and the API: what is in the database is what the
\* events done with say, and its hosts are those of the console, one event after
\* the other.
THEOREM DeliveryInvariance == Spec => []DInv
<1>1. Init => DInv
  BY InductiveToo
<1>2. IInv /\ DInv /\ [Next]_vars => DInv'
  BY InductiveToo
<1>. QED BY <1>1, <1>2, Invariance, PTL DEF Spec

--------------------------------------------------------------------------------
(* What the API has when everything is delivered                           *)

\* The hosts in the rows of an address.
LEMMA HostsAreOne ==
  ASSUME NEW a, NEW host \in Seq(Token), HasHost(db, a, host)
  PROVE  ApiHosts(a) = Nonempty({host})
<1>1. \A x : x \in ApiHosts(a) <=> x # None /\ \E d \in Requests : db.ip[d] = a /\ x = db.host[d]
  BY DEF ApiHosts
<1>2. \A x : x \in Nonempty({host}) <=> x = host /\ x # Empty
  BY DEF Nonempty
<1>3. /\ \A d \in Requests : db.ip[d] = a => db.host[d] = Column(host)
      /\ (\A d \in Requests : db.ip[d] # a) => host = Empty
  BY DEF HasHost
<1>4. host # None /\ Column(host) = IF host = Empty THEN None ELSE host
  BY NullAssumption DEF Column
<1>5. \A x : x \in ApiHosts(a) <=> x \in Nonempty({host})
  BY <1>1, <1>2, <1>3, <1>4
<1>. QED BY <1>5

\* The records of an event sent since the scanner was started.
LEMMA SentRecords ==
  ASSUME TypeOK, DInv, NEW a \in Ip, NEW rec
  PROVE  /\ rec \in SentTo(a) <=> \E n \in first..offered : sent[n].ip = a /\ rec \in ToSet(sent[n].records)
         /\ \A n \in first..offered : n \in 1..offered /\ EventIsPosted(sent[n])
         /\ rec \in SentTo(a) => rec \in ResourceRecordView /\ is_displayable_record(rec)
<1>1. rec \in SentTo(a) <=> \E n \in first..offered : sent[n].ip = a /\ rec \in ToSet(sent[n].records)
  BY Zenon DEF SentTo, SentOf
<1>2. \A n \in first..offered : n \in 1..offered
  BY DEF TypeOK
<1>3. \A n \in first..offered : EventIsPosted(sent[n])
  BY <1>2 DEF DInv, EventsPosted
<1>4. ASSUME NEW n \in first..offered, rec \in ToSet(sent[n].records)
      PROVE  rec \in ResourceRecordView /\ is_displayable_record(rec)
  <2>1. PICK records \in Seq(ResourceRecordView) :
          records = sent[n].records /\ \A r \in ToSet(records) : is_displayable_record(r)
    BY <1>3 DEF EventIsPosted, ShownEvent
  <2>2. rec \in ToSet(records)
    BY <1>4, <2>1
  <2>. QED BY <2>1, <2>2, ElementOfSeq, LenProperties DEF ToSet
<1>. QED BY <1>1, <1>2, <1>3, <1>4

\* The API has every service type of the console registry.
LEMMA TypesArrive ==
  ASSUME TypeOK, DInv, SentWasHeard, RegistryIsTold, Settled, NEW a \in Ip,
         \A rec \in HeardOf(a) : ~HidesMeta(rec)
  PROVE  Stripped(devices[a].service_types) \subseteq Stripped(ApiTypes(a))
<1>. SUFFICES ASSUME NEW s \in Stripped(devices[a].service_types)
              PROVE  s \in Stripped(ApiTypes(a))
  OBVIOUS
<1>1. PICK rec \in SentTo(a) : \E t \in ServiceTypesOf(rec) : s = Strip(t)
  BY DEF RegistryIsTold, IsTold, TypesIn, Stripped
<1>2. PICK n \in first..offered : sent[n].ip = a /\ rec \in ToSet(sent[n].records)
  BY <1>1, SentRecords, Zenon
<1>3. /\ n \in 1..offered /\ EventIsPosted(sent[n])
      /\ rec \in ResourceRecordView /\ is_displayable_record(rec)
  BY <1>1, SentRecords
<1>4. ~HidesMeta(rec)
  BY <1>1, Zenon DEF SentWasHeard
<1>5. PICK t \in service_types_from_record(rec) : s = Strip(t)
  <2>1. s \in Stripped(ServiceTypesOf(rec))
    BY <1>1, Zenon DEF Stripped
  <2>2. s \in Stripped(service_types_from_record(rec))
    BY <1>3, <1>4, <2>1, ApiReadsSame, Zenon
  <2>. QED BY <2>2, Zenon DEF Stripped
<1>6. t \in Body(sent[n]).services
  BY <1>2, <1>3, ReadIs, Zenon
<1>7. StoredIn(db, sent[n])
  <2>1. n \notin gone /\ ~posting /\ ~(n > head)
    BY <1>3, CountsAre DEF Settled, DInv
  <2>. QED BY <1>3, <2>1 DEF DInv, NothingMissed
<1>8. t \in ApiTypes(a)
  <2>1. PICK d \in Requests : db.ip[d] = a /\ t \in db.services[d]
    BY <1>2, <1>6, <1>7 DEF StoredIn
  <2>. QED BY <2>1 DEF ApiTypes
<1>. QED BY <1>5, <1>8, Zenon DEF Stripped

\* And no other, but those of an earlier start.
LEMMA TypesWereTold ==
  ASSUME TypeOK, DInv, SentWasHeard, RegistryIsTold, restarts = 0, NEW a \in Ip,
         \A rec \in HeardOf(a) : ~HidesMeta(rec)
  PROVE  Stripped(ApiTypes(a)) \subseteq Stripped(devices[a].service_types)
<1>. SUFFICES ASSUME NEW s \in Stripped(ApiTypes(a))
              PROVE  s \in Stripped(devices[a].service_types)
  OBVIOUS
<1>1. PICK d \in Requests : db.ip[d] = a /\ \E t \in db.services[d] : s = Strip(t)
  BY DEF ApiTypes, Stripped
<1>2. PICK t \in db.services[d] : s = Strip(t)
  BY <1>1
<1>3. PICK n \in 1..offered : sent[n].ip = a /\ t \in Body(sent[n]).services
  BY <1>1 DEF DInv, NothingInvented
<1>4. n \in first..offered
  BY <1>3 DEF DInv, Counts
<1>5. EventIsPosted(sent[n])
  BY <1>4, SentRecords
<1>6. PICK rec \in ToSet(sent[n].records) : t \in service_types_from_record(rec)
  BY <1>3, <1>5, ReadIs, Zenon
<1>7. rec \in SentTo(a) /\ rec \in ResourceRecordView /\ is_displayable_record(rec)
  BY <1>3, <1>4, <1>6, SentRecords, Zenon
<1>8. ~HidesMeta(rec)
  BY <1>7, Zenon DEF SentWasHeard
<1>9. PICK u \in ServiceTypesOf(rec) : s = Strip(u)
  <2>1. s \in Stripped(service_types_from_record(rec))
    BY <1>2, <1>6, Zenon DEF Stripped
  <2>2. s \in Stripped(ServiceTypesOf(rec))
    BY <1>7, <1>8, <2>1, ApiReadsSame, Zenon
  <2>. QED BY <2>2, Zenon DEF Stripped
<1>10. u \in devices[a].service_types
  <2>1. devices[a].service_types = TypesIn(SentTo(a))
    BY DEF RegistryIsTold, IsTold
  <2>. QED BY <1>7, <2>1 DEF TypesIn
<1>. QED BY <1>9, <1>10, Zenon DEF Stripped

\* The host in the API is that of all events, and the console's.
LEMMA HostArrives ==
  ASSUME TypeOK, DInv, Settled, unanswered = 0, NEW a \in Ip
  PROVE  \E host \in Seq(Token) :
           /\ ApiHosts(a) = Nonempty({host})
           /\ devices[a].mdns_host = host
              \/ (restarts > 0 /\ \A rec \in SentTo(a) : ~NamesHost(rec))
<1>1. PICK h : IsHostOf(a, h) /\ HasHost(db, a, h[Done]) /\ ConsoleFollows(a, h)
  BY DEF DInv, HostsFollow, Settled
<1>2. Done = offered /\ offered \in 0..offered
  BY DEF Done, Settled, TypeOK
<1>3. PICK host \in Seq(Token) : host = h[offered]
  BY <1>1, <1>2 DEF IsHostOf
<1>4. ApiHosts(a) = Nonempty({host})
  BY <1>1, <1>2, <1>3, HostsAreOne
<1>. QED BY <1>1, <1>3, <1>4 DEF ConsoleFollows

\* Once everything is delivered, the API has the service types of the console
\* registry, and its host.
THEOREM ApiMirrorsRegistryAlways == Spec => []ApiMirrorsRegistry
<1>1. IInv /\ DInv => ApiMirrorsRegistry
  <2>. SUFFICES ASSUME IInv, DInv, Settled, NEW a \in Ip
                PROVE  /\ \/ \E rec \in HeardOf(a) : HidesMeta(rec)
                          \/ /\ Stripped(devices[a].service_types) \subseteq Stripped(ApiTypes(a))
                             /\ restarts = 0 =>
                                  Stripped(devices[a].service_types) = Stripped(ApiTypes(a))
                       /\ restarts = 0 /\ unanswered = 0 =>
                            ApiHosts(a) = Nonempty({devices[a].mdns_host})
    BY Zenon DEF ApiMirrorsRegistry
  <2>1. TypeOK /\ SentWasHeard /\ RegistryIsTold
    BY DEF IInv
  <2>2. ASSUME \A rec \in HeardOf(a) : ~HidesMeta(rec)
        PROVE  /\ Stripped(devices[a].service_types) \subseteq Stripped(ApiTypes(a))
               /\ restarts = 0 => Stripped(devices[a].service_types) = Stripped(ApiTypes(a))
    <3>1. Stripped(devices[a].service_types) \subseteq Stripped(ApiTypes(a))
      BY <2>1, <2>2, TypesArrive
    <3>2. restarts = 0 => Stripped(ApiTypes(a)) \subseteq Stripped(devices[a].service_types)
      BY <2>1, <2>2, TypesWereTold
    <3>. QED BY <3>1, <3>2
  <2>3. ASSUME restarts = 0, unanswered = 0
        PROVE  ApiHosts(a) = Nonempty({devices[a].mdns_host})
    <3>1. PICK host \in Seq(Token) :
            /\ ApiHosts(a) = Nonempty({host})
            /\ devices[a].mdns_host = host
               \/ (restarts > 0 /\ \A rec \in SentTo(a) : ~NamesHost(rec))
      BY <2>1, <2>3, HostArrives
    <3>2. ~(restarts > 0)
      BY <2>3
    <3>3. devices[a].mdns_host = host
      BY <3>1, <3>2, Zenon
    <3>. QED BY <3>1, <3>3, Zenon
  <2>. QED BY <2>2, <2>3
<1>. QED BY <1>1, Invariance, DeliveryInvariance, PTL

--------------------------------------------------------------------------------
(* The host named last                                                     *)

\* The device named another host after it had sent rec.
Returned(a, rec) ==
  \E y, z \in Named(a) : Before(y, z) /\ RecordAt(y) = rec /\ HostAt(z) # host_label(rec)

\* The console shows the host named last, unless the device went back to it.
LastShows ==
  \A a \in Ip : \A x \in Named(a) :
    \/ HeardCollision(a) \/ Returned(a, RecordAt(x))
    \/ devices[a].mdns_host = host_label(RecordAt(x))

\* x is where a record is that names a host of the device.
IsPlace(x, a) ==
  \E i \in DOMAIN heard : \E j \in DOMAIN heard[i].records :
    x = <<i, j>> /\ heard[i].ip = a /\ NamesHost(heard[i].records[j])

\* Named(b) is the set of these places.
LEMMA NamedAt == \A b, x : x \in Named(b) <=> IsPlace(x, b)
<1> SUFFICES ASSUME NEW a, NEW x
             PROVE  x \in Named(a) <=> IsPlace(x, a)
  OBVIOUS
<1>1. ASSUME NEW i \in DOMAIN heard
      PROVE  x \in {<<i, j>> : j \in {k \in DOMAIN heard[i].records : NamesHost(heard[i].records[k])}}
               <=> \E j \in DOMAIN heard[i].records : x = <<i, j>> /\ NamesHost(heard[i].records[j])
  OBVIOUS
<1>2. x \in Named(a) <=> \E i \in {k \in DOMAIN heard : heard[k].ip = a} :
        x \in {<<i, j>> : j \in {k \in DOMAIN heard[i].records : NamesHost(heard[i].records[k])}}
  BY Zenon DEF Named
<1>. QED BY <1>1, <1>2 DEF IsPlace

\* The same after a step.
LEMMA NamedThen == \A b, x : x \in Named(b)' <=> IsPlace(x, b)'
<1>1. (\A b, x : x \in Named(b) <=> IsPlace(x, b))'
  BY NamedAt, PTL
<1>. QED BY <1>1, Zenon

\* The places of the records that name a host.
LEMMA NamedIs ==
  ASSUME TypeOK, NEW a, NEW x
  PROVE  /\ x \in Named(a) <=> \E i \in 1..Len(heard) : \E j \in 1..Len(heard[i].records) :
                x = <<i, j>> /\ heard[i].ip = a /\ NamesHost(heard[i].records[j])
         /\ x \in Named(a) => NamesHost(RecordAt(x)) /\ RecordAt(x) \in HeardOf(a)
<1>1. /\ DOMAIN heard = 1..Len(heard)
      /\ \A i \in 1..Len(heard) : /\ heard[i] \in Packets
                                  /\ DOMAIN heard[i].records = 1..Len(heard[i].records)
  <2>1. DOMAIN heard = 1..Len(heard) /\ \A i \in 1..Len(heard) : heard[i] \in Packets
    BY LenProperties, ElementOfSeq DEF TypeOK
  <2>2. ASSUME NEW i \in 1..Len(heard)
        PROVE  DOMAIN heard[i].records = 1..Len(heard[i].records)
    <3>1. PICK records \in Seq(ResourceRecordView) : records = heard[i].records
      BY <2>1, PacketType
    <3>. QED BY <3>1, LenProperties
  <2>. QED BY <2>1, <2>2
<1>2. x \in Named(a) <=> IsPlace(x, a)
  BY NamedAt, Zenon
<1>3. x \in Named(a) <=> \E i \in 1..Len(heard) : \E j \in 1..Len(heard[i].records) :
         x = <<i, j>> /\ heard[i].ip = a /\ NamesHost(heard[i].records[j])
  BY <1>1, <1>2 DEF IsPlace
<1>4. ASSUME x \in Named(a)
      PROVE  NamesHost(RecordAt(x)) /\ RecordAt(x) \in HeardOf(a)
  <2>1. PICK i \in 1..Len(heard) : \E j \in 1..Len(heard[i].records) :
          x = <<i, j>> /\ heard[i].ip = a /\ NamesHost(heard[i].records[j])
    BY <1>3, <1>4, Zenon
  <2>2. PICK j \in 1..Len(heard[i].records) :
          x = <<i, j>> /\ heard[i].ip = a /\ NamesHost(heard[i].records[j])
    BY <2>1, Zenon
  <2>3. PICK p, rec : p = heard[i] /\ rec = p.records[j]
    OBVIOUS
  <2>4. RecordAt(x) = rec /\ NamesHost(rec) /\ p.ip = a
    BY <2>2, <2>3 DEF RecordAt
  <2>5. p \in ToSet(heard)
    BY <1>1, <2>3 DEF ToSet
  <2>6. rec \in ToSet(p.records)
    BY <1>1, <2>2, <2>3 DEF ToSet
  <2>7. rec \in Displayable(p)
    BY <2>4, <2>6 DEF Displayable, NamesHost
  <2>8. rec \in HeardOf(a)
    BY <2>4, <2>5, <2>7, Zenon DEF HeardOf
  <2>. QED BY <2>4, <2>8
<1>. QED BY <1>3, <1>4

\* What is heard and names a host has a place.
LEMMA HasPlace ==
  ASSUME TypeOK, NEW a, NEW rec \in HeardOf(a), NamesHost(rec)
  PROVE  \E y \in Named(a) : RecordAt(y) = rec
<1>1. PICK p \in ToSet(heard) : p.ip = a /\ rec \in Displayable(p)
  BY Zenon DEF HeardOf
<1>2. PICK i \in DOMAIN heard : heard[i] = p
  BY <1>1 DEF ToSet
<1>3. PICK j \in DOMAIN p.records : p.records[j] = rec
  BY <1>1 DEF Displayable, ToSet
<1>4. <<i, j>> \in Named(a)
  BY <1>1, <1>2, <1>3, NamedAt DEF IsPlace
<1>5. RecordAt(<<i, j>>) = rec
  BY <1>2, <1>3 DEF RecordAt
<1>. QED BY <1>4, <1>5

\* What a response adds to the places, after all others.
LEMMA NamedMore ==
  ASSUME TypeOK, NEW p \in Packets, heard' = Append(heard, p), NEW a,
         NEW N, N = Len(heard) + 1
  PROVE  /\ \A x \in Named(a) : x \in Named(a)' /\ RecordAt(x)' = RecordAt(x)
         /\ \A x \in Named(a)' : x \in Named(a) \/
              \E k \in 1..Len(p.records) : x = <<N, k>>
                /\ p.ip = a /\ RecordAt(x)' = p.records[k] /\ NamesHost(p.records[k])
         /\ \A k \in 1..Len(p.records) : p.ip = a /\ NamesHost(p.records[k]) =>
              /\ <<N, k>> \in Named(a)'
              /\ RecordAt(<<N, k>>)' = p.records[k]
              /\ \A x \in Named(a) : Before(x, <<N, k>>)
<1>1. N \in Nat /\ N = Len(heard) + 1
  BY LenProperties DEF TypeOK
<1>2. /\ DOMAIN heard = 1..(N - 1) /\ DOMAIN heard' = 1..N /\ heard'[N] = p
      /\ \A i \in 1..(N - 1) : heard'[i] = heard[i]
  BY <1>1, AppendProperties, LenProperties DEF TypeOK
<1>3. /\ \A i : i \in DOMAIN heard' <=> i \in DOMAIN heard \/ i = N
      /\ \A i \in DOMAIN heard : heard'[i] = heard[i] /\ i < N
  BY <1>1, <1>2
<1>4. DOMAIN p.records = 1..Len(p.records)
  <2>1. PICK records \in Seq(ResourceRecordView) : records = p.records
    BY PacketType
  <2>. QED BY <2>1, LenProperties
<1>5. \A x : x \in Named(a) <=> IsPlace(x, a)
  BY NamedAt, Zenon
<1>6. \A x : x \in Named(a)' <=> IsPlace(x, a)'
  BY NamedThen, Zenon
<1>7. \A i, j : RecordAt(<<i, j>>)' = heard'[i].records[j] /\ RecordAt(<<i, j>>) = heard[i].records[j]
  BY DEF RecordAt
<1>8. ASSUME NEW x \in Named(a)
      PROVE  x \in Named(a)' /\ RecordAt(x)' = RecordAt(x) /\ x[1] < N
  <2>1. PICK i \in DOMAIN heard : \E j \in DOMAIN heard[i].records :
          x = <<i, j>> /\ heard[i].ip = a /\ NamesHost(heard[i].records[j])
    BY <1>5, Zenon DEF IsPlace
  <2>2. PICK j \in DOMAIN heard[i].records :
          x = <<i, j>> /\ heard[i].ip = a /\ NamesHost(heard[i].records[j])
    BY <2>1, Zenon
  <2>3. heard'[i] = heard[i] /\ i < N /\ i \in DOMAIN heard'
    BY <1>3, Zenon
  <2>4. x \in Named(a)'
    BY <1>6, <2>2, <2>3, Zenon DEF IsPlace
  <2>5. RecordAt(x)' = heard'[i].records[j] /\ RecordAt(x) = heard[i].records[j]
    BY <1>7, <2>2, Zenon
  <2>6. x[1] = i
    BY <2>2
  <2>. QED BY <2>3, <2>4, <2>5, <2>6
<1>9. ASSUME NEW x \in Named(a)', x \notin Named(a)
      PROVE  \E k \in 1..Len(p.records) : x = <<N, k>>
               /\ p.ip = a /\ RecordAt(x)' = p.records[k] /\ NamesHost(p.records[k])
  <2>1. PICK i \in DOMAIN heard' : \E j \in DOMAIN heard'[i].records :
          x = <<i, j>> /\ heard'[i].ip = a /\ NamesHost(heard'[i].records[j])
    BY <1>6, Zenon DEF IsPlace
  <2>2. PICK j \in DOMAIN heard'[i].records :
          x = <<i, j>> /\ heard'[i].ip = a /\ NamesHost(heard'[i].records[j])
    BY <2>1, Zenon
  <2>3. i = N
    <3>1. i \in DOMAIN heard => x \in Named(a)
      BY <1>3, <1>5, <2>2 DEF IsPlace
    <3>. QED BY <1>3, <1>9, <3>1, Zenon
  <2>4. heard'[i] = p
    BY <1>2, <2>3
  <2>5. RecordAt(x)' = p.records[j]
    <3>1. RecordAt(<<i, j>>)' = heard'[i].records[j]
      BY <1>7, Zenon
    <3>2. x = <<i, j>>
      BY <2>2
    <3>. QED BY <2>4, <3>1, <3>2
  <2>. QED BY <1>4, <2>2, <2>3, <2>4, <2>5
<1>10. ASSUME NEW k \in 1..Len(p.records), p.ip = a, NamesHost(p.records[k])
       PROVE  /\ <<N, k>> \in Named(a)' /\ RecordAt(<<N, k>>)' = p.records[k]
              /\ \A x \in Named(a) : Before(x, <<N, k>>)
  <2>1. N \in DOMAIN heard' /\ k \in DOMAIN heard'[N].records
    BY <1>2, <1>3, <1>4
  <2>2. heard'[N].ip = a /\ NamesHost(heard'[N].records[k])
    BY <1>2, <1>10
  <2>3. <<N, k>> \in Named(a)'
    BY <1>6, <2>1, <2>2, Zenon DEF IsPlace
  <2>4. RecordAt(<<N, k>>)' = p.records[k]
    <3>1. RecordAt(<<N, k>>)' = heard'[N].records[k]
      BY <1>7, Zenon
    <3>. QED BY <1>2, <3>1
  <2>5. \A x \in Named(a) : Before(x, <<N, k>>)
    BY <1>8 DEF Before
  <2>. QED BY <2>3, <2>4, <2>5
<1>11. \A x \in Named(a) : x \in Named(a)' /\ RecordAt(x)' = RecordAt(x)
  BY <1>8
<1>12. ASSUME NEW x \in Named(a)'
       PROVE  x \in Named(a) \/
                \E k \in 1..Len(p.records) : x = <<N, k>>
                  /\ p.ip = a /\ RecordAt(x)' = p.records[k] /\ NamesHost(p.records[k])
  BY <1>9, Zenon
<1>13. \A k \in 1..Len(p.records) : p.ip = a /\ NamesHost(p.records[k]) =>
         /\ <<N, k>> \in Named(a)' /\ RecordAt(<<N, k>>)' = p.records[k]
         /\ \A x \in Named(a) : Before(x, <<N, k>>)
  BY <1>10, Zenon
<1>. QED BY <1>11, <1>12, <1>13, Zenon

\* Two records with one key are one record, or they collide.
LEMMA OneKey ==
  ASSUME NEW a \in Ip, NEW b \in Ip, NEW r1 \in ResourceRecordView, NEW r2 \in ResourceRecordView,
         record_store_key(a, r1) = record_store_key(b, r2)
  PROVE  a = b /\ (r1 = r2 \/ Collide(r1, r2))
<1>1. a \in Token /\ b \in Token
  BY PacketType DEF Ip
<1>2. a = b /\ record_content_key(r1) = record_content_key(r2)
  BY <1>1, StoreKeysTellApart
<1>. QED BY <1>2, RecordKeys

\* A key the filter has seen is that of a record heard, where none collide.
LEMMA SeenIsHeard ==
  ASSUME IInv, NEW a \in Ip, NEW rec \in ResourceRecordView, record_store_key(a, rec) \in seen_keys
  PROVE  \E r \in HeardOf(a) : r = rec \/ Collide(r, rec)
<1>1. TypeOK /\ SeenIsSent /\ SentWasHeard
  BY DEF IInv
<1>2. PICK n \in first..offered : record_store_key(a, rec) \in StoreKeys(sent[n])
  BY <1>1, Zenon DEF SeenIsSent
<1>3. PICK r \in ToSet(sent[n].records) : record_store_key(sent[n].ip, r) = record_store_key(a, rec)
  BY <1>2, Zenon DEF StoreKeys
<1>4. sent[n].ip \in Ip /\ r \in ResourceRecordView
  BY <1>1, <1>3, WorkerTypes
<1>5. sent[n].ip = a /\ (r = rec \/ Collide(r, rec))
  BY <1>3, <1>4, OneKey, Zenon
<1>6. r \in SentTo(a)
  BY <1>3, <1>5, Zenon DEF SentTo, SentOf
<1>. QED BY <1>1, <1>5, <1>6 DEF SentWasHeard

\* A response in which the device names no other host than the console shows.
LEMMA NamedAgain ==
  ASSUME IInv, NEW p \in Packets, NEW ev, IsFresh(ev, p, seen_keys), EventIsPosted(ev),
         NEW rec \in HeardOf(p.ip), NamesHost(rec),
         \A k \in 1..Len(p.records) :
           NamesHost(p.records[k]) => host_label(p.records[k]) = host_label(rec)
  PROVE  HostAfterEvent(host_label(rec), ev) = host_label(rec)
<1>1. rec \in ResourceRecordView /\ is_displayable_record(rec) /\ host_label(rec) # Empty
  BY WorkerTypes DEF IInv, NamesHost
<1>2. host_label(rec) \in Seq(Token)
  BY <1>1, LabelIsHost
<1>3. DOMAIN p.records = 1..Len(p.records)
  <2>1. PICK records \in Seq(ResourceRecordView) : records = p.records
    BY PacketType
  <2>. QED BY <2>1, LenProperties
<1>4. ASSUME NEW r \in ToSet(ev.records), NamesHost(r)
      PROVE  host_label(r) = host_label(rec)
  <2>1. r \in Displayable(p)
    BY DEF IsFresh
  <2>2. PICK k \in 1..Len(p.records) : r = p.records[k]
    BY <1>3, <2>1 DEF Displayable, ToSet
  <2>. QED BY <1>4, <2>2
<1>. QED BY <1>1, <1>2, <1>4, HostStays DEF EventIsPosted

\* A response in which the device names a host in a new record, and after it no other.
LEMMA NamedFirst ==
  ASSUME IInv, NEW p \in Packets, NEW ev, IsFresh(ev, p, seen_keys), EventIsPosted(ev),
         InOrder(ev.records, p.records), NEW host \in Seq(Token),
         NEW rec \in Displayable(p), NamesHost(rec), rec \notin HeardOf(p.ip),
         \A r \in HeardOf(p.ip) \cup Displayable(p) : ~Collide(r, rec),
         \A k, l \in 1..Len(p.records) :
           k < l /\ p.records[k] = rec /\ NamesHost(p.records[l])
             => host_label(p.records[l]) = host_label(rec)
  PROVE  ev.records # <<>> /\ HostAfterEvent(host, ev) = host_label(rec)
<1>1. p.ip \in Ip /\ Displayable(p) \subseteq ResourceRecordView
  BY PacketType
<1>2. record_store_key(p.ip, rec) \notin seen_keys
  BY <1>1, SeenIsHeard
<1>3. record_store_key(p.ip, rec) \in StoreKeys(ev)
  BY <1>2 DEF IsFresh
<1>4. PICK r \in ToSet(ev.records) : record_store_key(ev.ip, r) = record_store_key(p.ip, rec)
  BY <1>3, Zenon DEF StoreKeys
<1>5. r = rec
  <2>1. r \in Displayable(p) /\ ev.ip = p.ip
    BY DEF IsFresh
  <2>2. r = rec \/ Collide(r, rec)
    BY <1>1, <1>4, <2>1, OneKey, Zenon
  <2>. QED BY <2>1, <2>2
<1>6. PICK i \in 1..Len(ev.records) : ev.records[i] = rec
  BY <1>5, LenProperties DEF EventIsPosted, ShownEvent, ToSet
<1>7. ASSUME NEW n \in 1..Len(ev.records), i < n, NamesHost(ev.records[n])
      PROVE  host_label(ev.records[n]) = host_label(ev.records[i])
  <2>1. PICK k, l \in 1..Len(p.records) : k < l /\ ev.records[i] = p.records[k] /\ ev.records[n] = p.records[l]
    BY <1>7, Zenon DEF InOrder, InOrderUpTo
  <2>. QED BY <1>6, <1>7, <2>1
<1>8. HostAfterEvent(host, ev) = host_label(ev.records[i])
  BY <1>6, <1>7, LastHost DEF EventIsPosted
<1>9. ev.records # <<>>
  <2>1. Len(ev.records) # 0
    BY <1>6, LenProperties DEF EventIsPosted, ShownEvent
  <2>. QED BY <2>1
<1>. QED BY <1>6, <1>8, <1>9

\* What the worker hears leaves the console with the host named last.
LEMMA HearShows ==
  ASSUME IInv, DInv, LastShows, NEW p \in Packets, Hear(p)
  PROVE  LastShows'
<1>1. PICK ev : ev = filter_unseen(create_discovery_event(p))
  OBVIOUS
<1>2. IsFresh(ev, p, seen_keys) /\ InOrder(ev.records, p.records)
  BY <1>1, FilterIs, FilterInOrder, Zenon
<1>3. /\ ev \in Event /\ ev.ip = p.ip /\ p.ip \in Ip /\ ToSet(ev.records) \subseteq Displayable(p)
      /\ EventIsPosted(ev)
  <2>1. ev \in Event /\ ev.ip = p.ip /\ ToSet(ev.records) \subseteq Displayable(p) /\ p.ip \in Ip
    BY <1>2, PacketType DEF IsFresh
  <2>2. ev.records \in Seq(ResourceRecordView)
    BY <2>1 DEF Event
  <2>3. \A rec \in ToSet(ev.records) : rec \in AllRecords /\ is_displayable_record(rec)
    BY <2>1 DEF Displayable, AllRecords
  <2>. QED BY <2>1, <2>2, <2>3 DEF EventIsPosted, ShownEvent
<1>4. /\ heard' = Append(heard, p)
      /\ devices' = IF ev.records = <<>> THEN devices
                    ELSE [devices EXCEPT ![ev.ip] = merge_records(@, ev)]
  BY <1>1, Zenon DEF Hear, OnEvent, Output, Console, apply
<1>5. TypeOK
  BY DEF IInv
<1>6. /\ \A a : HeardOf(a) \subseteq HeardOf(a)'
      /\ Displayable(p) \subseteq HeardOf(p.ip)'
  BY <1>4, <1>5, HeardMore DEF TypeOK
<1>7. PICK N : N = Len(heard) + 1
  OBVIOUS
<1>. SUFFICES ASSUME NEW a \in Ip, NEW x \in Named(a)', ~HeardCollision(a)', ~Returned(a, RecordAt(x))'
              PROVE  devices'[a].mdns_host = host_label(RecordAt(x)')
  BY Zenon DEF LastShows
<1>8. PICK rec : rec = RecordAt(x)'
  OBVIOUS
<1>9. /\ \A y \in Named(a) : y \in Named(a)' /\ RecordAt(y)' = RecordAt(y)
      /\ x \in Named(a) \/ \E k \in 1..Len(p.records) : x = <<N, k>>
           /\ p.ip = a /\ RecordAt(x)' = p.records[k] /\ NamesHost(p.records[k])
      /\ \A k \in 1..Len(p.records) : p.ip = a /\ NamesHost(p.records[k]) =>
           /\ <<N, k>> \in Named(a)' /\ RecordAt(<<N, k>>)' = p.records[k]
           /\ \A y \in Named(a) : Before(y, <<N, k>>)
  <2>1. /\ \A y \in Named(a) : y \in Named(a)' /\ RecordAt(y)' = RecordAt(y)
        /\ \A y \in Named(a)' : y \in Named(a) \/
             \E k \in 1..Len(p.records) : y = <<N, k>>
               /\ p.ip = a /\ RecordAt(y)' = p.records[k] /\ NamesHost(p.records[k])
        /\ \A k \in 1..Len(p.records) : p.ip = a /\ NamesHost(p.records[k]) =>
             /\ <<N, k>> \in Named(a)'
             /\ RecordAt(<<N, k>>)' = p.records[k]
             /\ \A y \in Named(a) : Before(y, <<N, k>>)
    BY <1>4, <1>5, <1>7, NamedMore
  <2>. QED BY <2>1, Zenon
<1>10. \A y, z \in Named(a)' :
         Before(y, z) /\ RecordAt(y)' = rec => host_label(RecordAt(z)') = host_label(rec)
  BY <1>8, Zenon DEF Returned, HostAt
<1>11. ~HeardCollision(a)
  BY <1>6, Zenon DEF HeardCollision
<1>12. ASSUME NEW y \in Named(a), RecordAt(y) = rec
       PROVE  devices[a].mdns_host = host_label(rec)
  <2>1. ~Returned(a, RecordAt(y))
    BY <1>9, <1>10, <1>12, Zenon DEF Returned, HostAt
  <2>. QED BY <1>11, <1>12, <2>1, Zenon DEF LastShows
<1>13. CASE p.ip # a
  <2>1. x \in Named(a) /\ RecordAt(x) = rec
    BY <1>8, <1>9, <1>13, Zenon
  <2>2. devices'[a] = devices[a]
    BY <1>3, <1>4, <1>5, <1>13 DEF TypeOK
  <2>. QED BY <1>8, <1>12, <2>1, <2>2
<1>14. CASE p.ip = a
  <2>1. \/ ev.records = <<>> /\ devices'[a] = devices[a]
        \/ ev.records # <<>> /\ devices'[a] = merge_records(devices[a], ev)
    BY <1>3, <1>4, <1>5, <1>14 DEF TypeOK
  <2>2. PICK host \in Seq(Token) : host = devices[a].mdns_host
    BY DEF DInv, ConsoleHosts
  <2>3. ev.records # <<>> => devices'[a].mdns_host = HostAfterEvent(host, ev)
    <3>1. merge_records(devices[a], ev).mdns_host = HostAfterEvent(devices[a].mdns_host, ev)
      BY MergedHost, Zenon
    <3>. QED BY <2>1, <2>2, <3>1
  <2>4. CASE \E y \in Named(a) : RecordAt(y) = rec
    <3>1. PICK y \in Named(a) : RecordAt(y) = rec
      BY <2>4
    <3>2. host = host_label(rec)
      BY <1>12, <2>2, <3>1
    <3>3. NamesHost(rec) /\ rec \in HeardOf(p.ip)
      BY <1>5, <1>14, <3>1, NamedIs
    <3>4. \A k \in 1..Len(p.records) :
            NamesHost(p.records[k]) => host_label(p.records[k]) = host_label(rec)
      <4>1. y \in Named(a)' /\ RecordAt(y)' = rec
        BY <1>9, <3>1, Zenon
      <4>2. ASSUME NEW k \in 1..Len(p.records), NamesHost(p.records[k])
            PROVE  host_label(p.records[k]) = host_label(rec)
        <5>1. <<N, k>> \in Named(a)' /\ RecordAt(<<N, k>>)' = p.records[k] /\ Before(y, <<N, k>>)
          BY <1>9, <1>14, <3>1, <4>2, Zenon
        <5>. QED BY <1>10, <4>1, <5>1, Zenon
      <4>. QED BY <4>2
    <3>5. HostAfterEvent(host, ev) = host
      BY <1>2, <1>3, <3>2, <3>3, <3>4, NamedAgain, Zenon
    <3>. QED BY <1>8, <2>1, <2>2, <2>3, <3>2, <3>5
  <2>5. CASE ~\E y \in Named(a) : RecordAt(y) = rec
    <3>1. PICK k \in 1..Len(p.records) : x = <<N, k>> /\ rec = p.records[k] /\ NamesHost(rec)
      <4>1. x \notin Named(a)
        BY <1>8, <1>9, <2>5, Zenon
      <4>. QED BY <1>8, <1>9, <4>1, Zenon
    <3>2. rec \in Displayable(p)
      <4>1. PICK records \in Seq(ResourceRecordView) : records = p.records
        BY PacketType
      <4>2. rec \in ToSet(p.records)
        BY <3>1, <4>1, LenProperties DEF ToSet
      <4>. QED BY <3>1, <4>2 DEF Displayable, NamesHost
    <3>3. rec \notin HeardOf(p.ip)
      BY <1>5, <1>14, <2>5, <3>1, HasPlace
    <3>4. \A r \in HeardOf(p.ip) \cup Displayable(p) : ~Collide(r, rec)
      <4>1. \A r \in HeardOf(p.ip) \cup Displayable(p) : r \in HeardOf(a)'
        BY <1>6, <1>14
      <4>2. rec \in HeardOf(a)'
        BY <3>2, <4>1
      <4>. QED BY <4>1, <4>2, Zenon DEF HeardCollision
    <3>5. ASSUME NEW i \in 1..Len(p.records), NEW l \in 1..Len(p.records),
                 i < l, p.records[i] = rec, NamesHost(p.records[l])
          PROVE  host_label(p.records[l]) = host_label(rec)
      <4>1. /\ <<N, i>> \in Named(a)' /\ RecordAt(<<N, i>>)' = rec
            /\ <<N, l>> \in Named(a)' /\ RecordAt(<<N, l>>)' = p.records[l]
        BY <1>9, <1>14, <3>1, <3>5, Zenon
      <4>2. Before(<<N, i>>, <<N, l>>)
        BY <3>5 DEF Before
      <4>. QED BY <1>10, <4>1, <4>2, Zenon
    <3>6. ev.records # <<>> /\ HostAfterEvent(host, ev) = host_label(rec)
      BY <1>2, <1>3, <3>1, <3>2, <3>3, <3>4, <3>5, NamedFirst, Zenon
    <3>. QED BY <1>8, <2>3, <3>6
  <2>. QED BY <2>4, <2>5
<1>. QED BY <1>13, <1>14

\* The invariant that the console shows the host named last is inductive.
LEMMA InductiveLast ==
  /\ Init => LastShows
  /\ IInv /\ DInv /\ LastShows /\ [Next]_vars => LastShows'
<1>1. heard = <<>> => LastShows
  <2>1. ASSUME heard = <<>>, NEW a, NEW x
        PROVE  x \notin Named(a)
    <3>1. ~IsPlace(x, a)
      BY <2>1 DEF IsPlace
    <3>. QED BY <3>1, NamedAt, Zenon
  <2>. QED BY <2>1, Zenon DEF LastShows
<1>2. ASSUME Restart
      PROVE  LastShows'
  <2>1. (heard = <<>>)'
    BY <1>2 DEF Restart
  <2>. QED BY <1>1, <2>1, PTL
<1>3. ASSUME LastShows, UNCHANGED <<heard, devices>>
      PROVE  LastShows'
  <2>1. /\ \A a : Named(a)' = Named(a) /\ HeardOf(a)' = HeardOf(a)
        /\ \A x : RecordAt(x)' = RecordAt(x)
    <3>1. heard' = heard
      BY <1>3
    <3>2. \A a : Named(a)' = Named(a)
      BY <3>1 DEF Named
    <3>3. \A a : HeardOf(a)' = HeardOf(a)
      BY <3>1, Zenon DEF HeardOf
    <3>4. \A x : RecordAt(x)' = RecordAt(x)
      BY <3>1 DEF RecordAt
    <3>. QED BY <3>2, <3>3, <3>4
  <2>2. \A a : HeardCollision(a) => HeardCollision(a)'
    BY <2>1, Zenon DEF HeardCollision
  <2>3. \A a, x : Returned(a, RecordAt(x)) => Returned(a, RecordAt(x))'
    BY <2>1, Zenon DEF Returned, HostAt
  <2>4. ASSUME NEW a \in Ip, NEW x \in Named(a)'
        PROVE  \/ HeardCollision(a)' \/ Returned(a, RecordAt(x))'
               \/ devices'[a].mdns_host = host_label(RecordAt(x)')
    <3>1. x \in Named(a) /\ RecordAt(x)' = RecordAt(x) /\ devices' = devices
      BY <1>3, <2>1
    <3>2. \/ HeardCollision(a) \/ Returned(a, RecordAt(x))
          \/ devices[a].mdns_host = host_label(RecordAt(x))
      BY <1>3, <3>1, Zenon DEF LastShows
    <3>. QED BY <2>2, <2>3, <3>1, <3>2
  <2>. QED BY <2>4, Zenon DEF LastShows
<1>4. ASSUME IInv, DInv, LastShows, [Next]_vars
      PROVE  LastShows'
  <2>1. ASSUME NEW p \in Packets, Hear(p)
        PROVE  LastShows'
    BY <1>4, <2>1, HearShows
  <2>2. CASE \/ Take \/ PostAnswered \/ PostUnanswered \/ PostDelayed \/ DelayedArrives
             \/ UNCHANGED vars
    <3>1. UNCHANGED <<heard, devices>>
      BY <2>2 DEF Take, PostAnswered, PostUnanswered, PostDelayed, DelayedArrives, vars, worker
    <3>. QED BY <1>3, <1>4, <3>1
  <2>3. CASE Restart
    BY <1>2, <2>3
  <2>. QED BY <1>4, <2>1, <2>2, <2>3 DEF Next
<1>5. Init => heard = <<>>
  BY DEF Init
<1>. QED BY <1>1, <1>4, <1>5

\* Once everything is delivered, and unless a device went back to an old host,
\* the API and the console show the host it named last.
THEOREM StaleOnlyAfterReturnAlways == Spec => []StaleOnlyAfterReturn
<1>1. Init => LastShows
  BY InductiveLast
<1>2. IInv /\ DInv /\ LastShows /\ [Next]_vars => LastShows'
  BY InductiveLast
<1>3. IInv /\ DInv /\ LastShows => StaleOnlyAfterReturn
  <2>. SUFFICES ASSUME IInv, DInv, LastShows, Settled, unanswered = 0, NEW a \in Ip, NEW x \in Named(a),
                       ~HeardCollision(a), ~Returned(a, RecordAt(x))
                PROVE  /\ ApiHosts(a) = {host_label(RecordAt(x))}
                       /\ devices[a].mdns_host = host_label(RecordAt(x))
    BY Zenon DEF StaleOnlyAfterReturn, Returned, HostAt
  <2>1. TypeOK
    BY DEF IInv
  <2>2. PICK rec : rec = RecordAt(x)
    OBVIOUS
  <2>3. NamesHost(rec) /\ rec \in HeardOf(a)
    BY <2>1, <2>2, NamedIs
  <2>4. devices[a].mdns_host = host_label(rec)
    BY <2>2, Zenon DEF LastShows
  <2>5. rec \in SentTo(a)
    BY <2>3, AllSent
  <2>6. PICK host \in Seq(Token) :
          /\ ApiHosts(a) = Nonempty({host})
          /\ devices[a].mdns_host = host
             \/ (restarts > 0 /\ \A r \in SentTo(a) : ~NamesHost(r))
    BY <2>1, HostArrives
  <2>7. host = host_label(rec) /\ host # Empty
    BY <2>3, <2>4, <2>5, <2>6 DEF NamesHost
  <2>8. ApiHosts(a) = {host}
    BY <2>6, <2>7 DEF Nonempty
  <2>. QED BY <2>2, <2>4, <2>7, <2>8
<1>. QED BY <1>1, <1>2, <1>3, Invariance, DeliveryInvariance, PTL DEF Spec

================================================================================
