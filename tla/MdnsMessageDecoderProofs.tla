---------------------- MODULE MdnsMessageDecoderProofs ----------------------
(***************************************************************************)
(* For every datagram, of any length and contents.  First: decoding keeps  *)
(* every offset inside it, counts no more iterations of parse_qname's loop *)
(* than the datagram has bytes, and reads no byte outside it.  Then: what  *)
(* is read is what the datagram says.  The offsets parse_qname goes        *)
(* through are the chain of the reference reading, a pointer loop is       *)
(* reported of a name that never ends and of no other, and each item is    *)
(* the name and the fields that lie in its place.  So it is when the       *)
(* formatters of the records call parse_qname again (RecordText), and each *)
(* record gets the text of its bytes.  Last: of the datagrams QueryBuilder *)
(* lays out, decode() reads the questions that were asked.                 *)
(***************************************************************************)
EXTENDS RecordText, SharedLemmas, FiniteSetTheorems

-----------------------------------------------------------------------------
(* The labels of a dotted name: what add_question finds, and how           *)
(* parse_qname joins them                                                  *)

\* What add_question has found of a name.
Found == [labels : Seq(Seq(Byte)), label : Seq(Byte)]
Nothing == [labels |-> <<>>, label |-> <<>>]
OneMore(text, n, found) ==
  IF text[n] = Dot THEN [labels |-> Closed(found), label |-> <<>>]
  ELSE [found EXCEPT !.label = Append(@, text[n])]
IsScan(f, text) ==
  f = [n \in 0..Len(text) |-> IF n = 0 THEN Nothing ELSE OneMore(text, n, f[n - 1])]

\* Closing what was found leaves labels.
LEMMA ClosedType ==
  ASSUME NEW found \in Found
  PROVE  Closed(found) \in Seq(Seq(Byte))
<1>1. found.labels \in Seq(Seq(Byte)) /\ found.label \in Seq(Byte)
  BY DEF Found
<1>2. Append(found.labels, found.label) \in Seq(Seq(Byte))
  BY <1>1, AppendProperties
<1>. QED BY <1>1, <1>2 DEF Closed

\* One byte more.
LEMMA NextType ==
  ASSUME NEW text \in Seq(Byte), NEW n \in 1..Len(text), NEW found \in Found
  PROVE  OneMore(text, n, found) \in Found
<1>1. text[n] \in Byte
  BY ElementOfSeq
<1>2. found.labels \in Seq(Seq(Byte)) /\ found.label \in Seq(Byte)
  BY DEF Found
<1>3. Append(found.label, text[n]) \in Seq(Byte)
  BY <1>1, <1>2, AppendProperties
<1>4. Closed(found) \in Seq(Seq(Byte)) /\ <<>> \in Seq(Byte)
  BY ClosedType, EmptySeq
<1>5. [labels |-> Closed(found), label |-> <<>>] \in Found
  BY <1>4 DEF Found
<1>6. [found EXCEPT !.label = Append(@, text[n])] \in Found
  BY <1>3 DEF Found
<1>. QED BY <1>5, <1>6 DEF OneMore

\* The scan of a name, byte by byte.
LEMMA ScanIs ==
  ASSUME NEW text \in Seq(Byte)
  PROVE  /\ Scan(text) \in [0..Len(text) -> Found]
         /\ Scan(text)[0] = Nothing
         /\ \A n \in 1..Len(text) : Scan(text)[n] = OneMore(text, n, Scan(text)[n - 1])
<1> DEFINE m == Len(text)
           step == [n \in 1..m |-> [x \in Found |-> OneMore(text, n, x)]]
           f == CHOOSE g : IsScan(g, text)
<1>0. m \in Nat
  BY LenProperties
<1>1. Nothing \in Found
  BY EmptySeq DEF Nothing, Found
<1>2. step \in [1..m -> [Found -> Found]]
  BY NextType
<1> HIDE DEF m, step
<1>3. PICK g : IsIteration(g, Found, Nothing, m, step)
  BY <1>0, <1>1, <1>2, Recursion
<1>4. /\ g \in [0..m -> Found] /\ g[0] = Nothing
      /\ \A n \in 1..m : g[n] = step[n][g[n - 1]]
  BY <1>3 DEF IsIteration
<1>5. \A n \in 1..m : n - 1 \in 0..m /\ g[n - 1] \in Found
  BY <1>0, <1>4
<1>6. \A n \in 1..m : g[n] = OneMore(text, n, g[n - 1])
  BY <1>4, <1>5 DEF step
<1>7. IsScan(g, text)
  <2>1. ASSUME NEW n \in 0..m
        PROVE  g[n] = IF n = 0 THEN Nothing ELSE OneMore(text, n, g[n - 1])
    BY <1>0, <1>4, <1>6
  <2>. QED BY <1>4, <2>1 DEF IsScan, m
<1>8. IsScan(f, text)
  BY <1>7
<1>9. Scan(text) = f
  BY DEF Scan, IsScan, OneMore, Nothing
<1> HIDE DEF f
<1>10. /\ DOMAIN f = 0..m /\ f = [n \in 0..m |-> f[n]]
       /\ f[0] = Nothing /\ \A n \in 1..m : f[n] = OneMore(text, n, f[n - 1])
  BY <1>0, <1>8 DEF IsScan, m
<1>11. \A n \in 0..m : f[n] \in Found
  <2> DEFINE S == {n \in 0..m : f[n] \in Found}
  <2>1. 0 \in S
    BY <1>0, <1>1, <1>10
  <2>2. ASSUME NEW n \in 1..m, n - 1 \in S
        PROVE  n \in S
    <3>1. n \in 0..m
      BY <1>0
    <3>2. OneMore(text, n, f[n - 1]) \in Found
      BY <2>2, NextType DEF m
    <3>. QED BY <1>10, <3>1, <3>2
  <2> HIDE DEF S
  <2>3. \A n \in 0..m : n \in S
    BY <1>0, <2>1, <2>2, UpTo
  <2>. QED BY <2>3 DEF S
<1>12. f \in [0..m -> Found]
  BY <1>10, <1>11
<1>. QED BY <1>9, <1>10, <1>12 DEF m

\* Names that begin alike are scanned alike as far as that.
LEMMA ScanAgrees ==
  ASSUME NEW s \in Seq(Byte), NEW t \in Seq(Byte), Len(s) <= Len(t),
         \A i \in 1..Len(s) : t[i] = s[i]
  PROVE  \A n \in 0..Len(s) : Scan(t)[n] = Scan(s)[n]
<1> DEFINE S == {n \in 0..Len(s) : Scan(t)[n] = Scan(s)[n]}
<1>0. Len(s) \in Nat /\ Len(t) \in Nat
  BY LenProperties
<1>1. 0 \in S
  BY <1>0, ScanIs
<1>2. ASSUME NEW n \in 1..Len(s), n - 1 \in S
      PROVE  n \in S
  <2>1. n \in 1..Len(t) /\ n \in 0..Len(s)
    BY <1>0
  <2>2. Scan(t)[n] = OneMore(t, n, Scan(t)[n - 1])
    BY <2>1, ScanIs
  <2>3. Scan(s)[n] = OneMore(s, n, Scan(s)[n - 1])
    BY ScanIs
  <2>4. Scan(t)[n - 1] = Scan(s)[n - 1] /\ t[n] = s[n]
    BY <1>2
  <2>. QED BY <2>1, <2>2, <2>3, <2>4 DEF OneMore
<1> HIDE DEF S
<1>3. \A n \in 0..Len(s) : n \in S
  BY <1>0, <1>1, <1>2, UpTo
<1>. QED BY <1>3 DEF S

\* A label has bytes, and no dot.
Dotless(label) == \A i \in 1..Len(label) : label[i] # Dot
AreLabels(labels) ==
  /\ labels \in Seq(Seq(Byte))
  /\ \A k \in 1..Len(labels) : labels[k] # <<>> /\ Dotless(labels[k])

\* Another label makes labels of labels.
LEMMA LabelAdded ==
  ASSUME NEW labels, AreLabels(labels), NEW label \in Seq(Byte), label # <<>>, Dotless(label)
  PROVE  AreLabels(Append(labels, label))
<1>0. labels \in Seq(Seq(Byte)) /\ Len(labels) \in Nat
  BY LenProperties DEF AreLabels
<1>1. /\ Append(labels, label) \in Seq(Seq(Byte)) /\ Len(Append(labels, label)) = Len(labels) + 1
      /\ \A k \in 1..Len(labels) : Append(labels, label)[k] = labels[k]
      /\ Append(labels, label)[Len(labels) + 1] = label
  BY <1>0, AppendProperties
<1>2. ASSUME NEW k \in 1..(Len(labels) + 1)
      PROVE  Append(labels, label)[k] # <<>> /\ Dotless(Append(labels, label)[k])
  <2>1. CASE k = Len(labels) + 1
    BY <1>1, <2>1
  <2>2. CASE k # Len(labels) + 1
    <3>1. k \in 1..Len(labels)
      BY <1>0, <2>2
    <3>. QED BY <1>1, <3>1 DEF AreLabels
  <2>. QED BY <2>1, <2>2
<1>. QED BY <1>1, <1>2 DEF AreLabels

\* What add_question writes are labels.
LEMMA LabelsAreLabels ==
  ASSUME NEW text \in Seq(Byte)
  PROVE  AreLabels(LabelsOf(text))
<1> DEFINE f == Scan(text)
           Good(x) == x \in Found /\ AreLabels(x.labels) /\ Dotless(x.label)
           S == {n \in 0..Len(text) : Good(f[n])}
<1>0. Len(text) \in Nat
  BY LenProperties
<1>1. /\ f[0] = Nothing /\ \A n \in 0..Len(text) : f[n] \in Found
      /\ \A n \in 1..Len(text) : f[n] = OneMore(text, n, f[n - 1])
  BY ScanIs
<1> HIDE DEF f
<1>2. 0 \in S
  <2>1. AreLabels(<<>>) /\ Dotless(<<>>)
    BY EmptySeq DEF AreLabels, Dotless
  <2>2. 0 \in 0..Len(text)
    BY <1>0
  <2>3. f[0] \in Found /\ f[0].labels = <<>> /\ f[0].label = <<>>
    BY <1>1, <2>2 DEF Nothing
  <2>. QED BY <2>1, <2>2, <2>3
<1>3. ASSUME NEW x, Good(x)
      PROVE  AreLabels(Closed(x))
  <2>1. x.label \in Seq(Byte)
    BY <1>3 DEF Found
  <2>. QED BY <1>3, <2>1, LabelAdded DEF Closed
<1>4. ASSUME NEW n \in 1..Len(text), n - 1 \in S
      PROVE  n \in S
  <2>0. n \in 0..Len(text) /\ f[n] \in Found
    BY <1>0, <1>1
  <2>1. CASE text[n] = Dot
    <3>0. f[n] = [labels |-> Closed(f[n - 1]), label |-> <<>>]
      BY <1>1, <2>1 DEF OneMore
    <3>1. f[n].labels = Closed(f[n - 1]) /\ f[n].label = <<>>
      <4>1. PICK c : c = Closed(f[n - 1])
        OBVIOUS
      <4>. QED BY <3>0, <4>1
    <3>2. Dotless(<<>>)
      BY EmptySeq DEF Dotless
    <3>3. AreLabels(Closed(f[n - 1]))
      BY <1>3, <1>4
    <3>. QED BY <2>0, <3>1, <3>2, <3>3
  <2>2. CASE text[n] # Dot
    <3>0. f[n - 1].label \in Seq(Byte) /\ Dotless(f[n - 1].label) /\ f[n - 1] \in Found
      BY <1>4 DEF Found
    <3>a. text[n] \in Byte
      BY ElementOfSeq
    <3>1. f[n].labels = f[n - 1].labels /\ f[n].label = Append(f[n - 1].label, text[n])
      BY <1>1, <2>2, <3>0 DEF OneMore, Found
    <3>2. Dotless(Append(f[n - 1].label, text[n]))
      <4>1. PICK l \in Seq(Byte) : l = f[n - 1].label
        BY <3>0
      <4>2. /\ Len(Append(l, text[n])) = Len(l) + 1 /\ Len(l) \in Nat
            /\ \A i \in 1..Len(l) : Append(l, text[n])[i] = l[i]
            /\ Append(l, text[n])[Len(l) + 1] = text[n]
        BY <3>a, AppendProperties, LenProperties
      <4>3. \A i \in 1..(Len(l) + 1) : i \in 1..Len(l) \/ i = Len(l) + 1
        BY <4>2
      <4>4. \A i \in 1..Len(l) : l[i] # Dot
        BY <3>0, <4>1 DEF Dotless
      <4>5. \A i \in 1..(Len(l) + 1) : Append(l, text[n])[i] # Dot
        BY <2>2, <4>2, <4>3, <4>4
      <4>. QED BY <4>1, <4>2, <4>5 DEF Dotless
    <3>3. AreLabels(f[n - 1].labels)
      BY <1>4
    <3>. QED BY <2>0, <3>1, <3>2, <3>3
  <2>. QED BY <2>1, <2>2
<1>5. Good(f[Len(text)])
  <2> HIDE DEF S
  <2>1. \A n \in 0..Len(text) : n \in S
    BY <1>0, <1>2, <1>4, UpTo
  <2>. QED BY <1>0, <2>1 DEF S
<1>. QED BY <1>3, <1>5 DEF LabelsOf, f

\* The text of labels, as parse_qname joins them.
Joins(labels) ==
  LET text[n \in 0..Len(labels)] == IF n = 0 THEN <<>> ELSE Dotted(text[n - 1], labels[n])
  IN  text
Joined(labels) == Joins(labels)[Len(labels)]
AreJoins(f, labels) ==
  f = [n \in 0..Len(labels) |-> IF n = 0 THEN <<>> ELSE Dotted(f[n - 1], labels[n])]

\* A label behind a text makes a text.
LEMMA DottedIs ==
  ASSUME NEW text \in Seq(Byte), NEW label \in Seq(Byte)
  PROVE  LET d == IF text = <<>> THEN 0 ELSE Len(text) + 1
             u == Dotted(text, label)
         IN  /\ u \in Seq(Byte) /\ Len(u) = d + Len(label)
             /\ \A i \in 1..Len(text) : u[i] = text[i]
             /\ text # <<>> => u[Len(text) + 1] = Dot
             /\ \A i \in 1..Len(label) : u[d + i] = label[i]
<1>0. Len(text) \in Nat /\ Len(label) \in Nat /\ Dot \in Byte
  BY LenProperties DEF Dot, Byte
<1>1. CASE text = <<>>
  <2>1. Dotted(text, label) = <<>> \o label /\ Len(text) = 0
    BY <1>1, EmptySeq DEF Dotted
  <2>2. Dotted(text, label) = label
    BY <2>1, ConcatEmptySeq
  <2>3. \A i \in 1..0 : FALSE
    OBVIOUS
  <2>4. \A i \in 1..Len(label) : 0 + i = i
    BY <1>0
  <2>. QED BY <1>0, <1>1, <2>1, <2>2, <2>3, <2>4
<1>2. CASE text # <<>>
  <2>1. PICK a : a = Append(text, Dot)
    OBVIOUS
  <2>2. /\ a \in Seq(Byte) /\ Len(a) = Len(text) + 1
        /\ \A i \in 1..Len(text) : a[i] = text[i]
        /\ a[Len(text) + 1] = Dot
    BY <1>0, <2>1, AppendProperties
  <2>3. Dotted(text, label) = a \o label
    BY <1>2, <2>1 DEF Dotted
  <2>4. PICK u : u = a \o label
    OBVIOUS
  <2>5. /\ u \in Seq(Byte) /\ Len(u) = Len(a) + Len(label)
        /\ \A i \in 1..Len(u) : u[i] = IF i <= Len(a) THEN a[i] ELSE label[i - Len(a)]
    BY <2>2, <2>4, ConcatProperties
  <2>6. \A i \in 1..Len(text) : u[i] = text[i]
    BY <1>0, <2>2, <2>5
  <2>7. u[Len(text) + 1] = Dot
    BY <1>0, <2>2, <2>5
  <2>8. ASSUME NEW i \in 1..Len(label)
        PROVE  u[(Len(text) + 1) + i] = label[i]
    <3>1. /\ (Len(text) + 1) + i \in 1..Len(u) /\ ~((Len(text) + 1) + i <= Len(a))
          /\ ((Len(text) + 1) + i) - Len(a) = i
      BY <1>0, <2>2, <2>5
    <3>. QED BY <2>5, <3>1
  <2>. QED BY <1>2, <2>2, <2>3, <2>4, <2>5, <2>6, <2>7, <2>8
<1>. QED BY <1>1, <1>2

\* The texts of labels, label by label.
LEMMA JoinsAre ==
  ASSUME NEW labels \in Seq(Seq(Byte))
  PROVE  /\ Joins(labels) \in [0..Len(labels) -> Seq(Byte)]
         /\ Joins(labels)[0] = <<>>
         /\ \A n \in 1..Len(labels) : Joins(labels)[n] = Dotted(Joins(labels)[n - 1], labels[n])
<1> DEFINE m == Len(labels)
           X == Seq(Byte)
           step == [n \in 1..m |-> [x \in X |-> Dotted(x, labels[n])]]
           f == CHOOSE g : AreJoins(g, labels)
<1>0. m \in Nat
  BY LenProperties
<1>1. <<>> \in X
  BY EmptySeq
<1>a. \A n \in 1..m : labels[n] \in X
  BY ElementOfSeq
<1>b. \A n \in 1..m, x \in X : Dotted(x, labels[n]) \in X
  BY <1>a, DottedIs
<1>2. step \in [1..m -> [X -> X]]
  BY <1>b
<1> HIDE DEF m, step, X
<1>3. PICK g : IsIteration(g, X, <<>>, m, step)
  BY <1>0, <1>1, <1>2, Recursion
<1>4. /\ g \in [0..m -> X] /\ g[0] = <<>>
      /\ \A n \in 1..m : g[n] = step[n][g[n - 1]]
  BY <1>3 DEF IsIteration
<1>5. \A n \in 1..m : n - 1 \in 0..m /\ g[n - 1] \in X
  BY <1>0, <1>4
<1>6. \A n \in 1..m : g[n] = Dotted(g[n - 1], labels[n])
  BY <1>4, <1>5 DEF step
<1>7. AreJoins(g, labels)
  <2>1. ASSUME NEW n \in 0..m
        PROVE  g[n] = IF n = 0 THEN <<>> ELSE Dotted(g[n - 1], labels[n])
    BY <1>0, <1>4, <1>6
  <2>. QED BY <1>4, <2>1 DEF AreJoins, m
<1>8. AreJoins(f, labels)
  BY <1>7
<1>9. Joins(labels) = f
  BY DEF Joins, AreJoins
<1> HIDE DEF f
<1>10. /\ DOMAIN f = 0..m /\ f = [n \in 0..m |-> f[n]]
       /\ f[0] = <<>> /\ \A n \in 1..m : f[n] = Dotted(f[n - 1], labels[n])
  BY <1>0, <1>8 DEF AreJoins, m
<1>11. \A n \in 0..m : f[n] \in X
  <2> DEFINE S == {n \in 0..m : f[n] \in X}
  <2>1. 0 \in S
    BY <1>0, <1>1, <1>10
  <2>2. ASSUME NEW n \in 1..m, n - 1 \in S
        PROVE  n \in S
    <3>1. n \in 0..m
      BY <1>0
    <3>. QED BY <1>10, <1>b, <2>2, <3>1
  <2> HIDE DEF S
  <2>3. \A n \in 0..m : n \in S
    BY <1>0, <2>1, <2>2, UpTo
  <2>. QED BY <2>3 DEF S
<1>12. f \in [0..m -> X]
  BY <1>10, <1>11
<1>. QED BY <1>9, <1>10, <1>12 DEF m, X

\* One label more, one label more in the text.
LEMMA JoinedAppend ==
  ASSUME NEW labels \in Seq(Seq(Byte)), NEW label \in Seq(Byte)
  PROVE  Joined(Append(labels, label)) = Dotted(Joined(labels), label)
<1> DEFINE more == Append(labels, label)
           f == Joins(labels)
           g == Joins(more)
           S == {n \in 0..Len(labels) : g[n] = f[n]}
<1>0. Len(labels) \in Nat
  BY LenProperties
<1>1. /\ more \in Seq(Seq(Byte)) /\ Len(more) = Len(labels) + 1
      /\ \A k \in 1..Len(labels) : more[k] = labels[k]
      /\ more[Len(labels) + 1] = label
  BY AppendProperties
<1> HIDE DEF more
<1>2. /\ f[0] = <<>> /\ \A n \in 1..Len(labels) : f[n] = Dotted(f[n - 1], labels[n])
      /\ g[0] = <<>> /\ \A n \in 1..Len(more) : g[n] = Dotted(g[n - 1], more[n])
  BY <1>1, JoinsAre
<1> HIDE DEF f, g
<1>3. 0 \in S
  BY <1>0, <1>2
<1>4. \A n \in 1..Len(labels) : n - 1 \in S => n \in S
  BY <1>0, <1>1, <1>2
<1> HIDE DEF S
<1>5. \A n \in 0..Len(labels) : n \in S
  BY <1>0, <1>3, <1>4, UpTo
<1>6. g[Len(labels)] = f[Len(labels)]
  BY <1>0, <1>5 DEF S
<1>7. /\ Len(labels) + 1 \in 1..Len(more)
      /\ (Len(labels) + 1) - 1 = Len(labels)
  BY <1>0, <1>1
<1>8. g[Len(more)] = Dotted(f[Len(labels)], label)
  BY <1>1, <1>2, <1>6, <1>7
<1>. QED BY <1>8 DEF Joined, more, f, g

\* A label without a dot is found as it is.
LEMMA LabelIsFound ==
  ASSUME NEW text \in Seq(Byte), NEW label \in Seq(Byte), Dotless(label),
         NEW d \in Nat, d + Len(label) <= Len(text),
         \A i \in 1..Len(label) : text[d + i] = label[i],
         Scan(text)[d].label = <<>>
  PROVE  /\ Scan(text)[d + Len(label)].labels = Scan(text)[d].labels
         /\ Scan(text)[d + Len(label)].label = label
<1> DEFINE f == Scan(text)
           As(n) == /\ f[d + n].labels = f[d].labels
                    /\ Len(f[d + n].label) = n
                    /\ \A i \in 1..n : f[d + n].label[i] = label[i]
           S == {n \in 0..Len(label) : As(n)}
<1>0. Len(text) \in Nat /\ Len(label) \in Nat
  BY LenProperties
<1>1. /\ \A n \in 0..Len(text) : f[n] \in Found
      /\ \A n \in 1..Len(text) : f[n] = OneMore(text, n, f[n - 1])
  BY ScanIs
<1>a. f[d].label = <<>>
  OBVIOUS
<1> HIDE DEF f
<1>2. 0 \in S
  <2>1. d + 0 = d /\ 0 \in 0..Len(label) /\ \A i \in 1..0 : FALSE
    BY <1>0
  <2>2. Len(f[d].label) = 0
    BY <1>a, EmptySeq
  <2>3. As(0)
    BY <2>1, <2>2
  <2>. QED BY <2>1, <2>3
<1>3. ASSUME NEW n \in 1..Len(label), n - 1 \in S
      PROVE  n \in S
  <2>1. /\ n \in 0..Len(label) /\ d + n \in 1..Len(text) /\ (d + n) - 1 = d + (n - 1)
        /\ d + (n - 1) \in 0..Len(text) /\ n \in 1..Len(label)
    BY <1>0
  <2>2. text[d + n] = label[n] /\ label[n] # Dot
    BY <2>1 DEF Dotless
  <2>3. f[d + n] = OneMore(text, d + n, f[d + (n - 1)])
    BY <1>1, <2>1
  <2>4. f[d + n] = [f[d + (n - 1)] EXCEPT !.label = Append(@, text[d + n])]
    BY <2>2, <2>3 DEF OneMore
  <2>5. f[d + (n - 1)] \in Found
    BY <1>1, <2>1
  <2>6. /\ f[d + n].labels = f[d + (n - 1)].labels
        /\ f[d + n].label = Append(f[d + (n - 1)].label, label[n])
    BY <2>2, <2>4, <2>5 DEF Found
  <2>7. PICK l \in Seq(Byte) : l = f[d + (n - 1)].label
    BY <2>5 DEF Found
  <2>8. Len(l) = n - 1 /\ \A i \in 1..(n - 1) : l[i] = label[i]
    BY <1>3, <2>7
  <2>9. label[n] \in Byte
    BY <2>1, ElementOfSeq
  <2>10. /\ Len(Append(l, label[n])) = Len(l) + 1
         /\ \A i \in 1..Len(l) : Append(l, label[n])[i] = l[i]
         /\ Append(l, label[n])[Len(l) + 1] = label[n]
    BY <2>9, AppendProperties
  <2>11. (n - 1) + 1 = n /\ \A i \in 1..n : i \in 1..(n - 1) \/ i = n
    OBVIOUS
  <2>12. Len(Append(l, label[n])) = n /\ \A i \in 1..n : Append(l, label[n])[i] = label[i]
    BY <2>8, <2>10, <2>11
  <2>13. f[d + (n - 1)].labels = f[d].labels
    BY <1>3
  <2>14. As(n)
    BY <2>6, <2>7, <2>12, <2>13
  <2>. QED BY <2>1, <2>14
<1> HIDE DEF S
<1>4. \A n \in 0..Len(label) : n \in S
  BY <1>0, <1>2, <1>3, UpTo
<1>5. As(Len(label))
  <2>1. Len(label) \in 0..Len(label)
    BY <1>0
  <2>. QED BY <1>4, <2>1 DEF S
<1>6. f[d + Len(label)].label \in Seq(Byte)
  <2>1. d + Len(label) \in 0..Len(text)
    BY <1>0
  <2>. QED BY <1>1, <2>1 DEF Found
<1>7. f[d + Len(label)].label = label
  BY <1>5, <1>6, SeqEqual
<1>. QED BY <1>5, <1>7 DEF f

\* A label joined to a text by parse_qname is one label more for add_question.
LEMMA LabelsOfDotted ==
  ASSUME NEW text \in Seq(Byte), NEW label \in Seq(Byte), label # <<>>, Dotless(label)
  PROVE  LabelsOf(Dotted(text, label)) = Append(LabelsOf(text), label)
<1> DEFINE u == Dotted(text, label)
           f == Scan(text)
           g == Scan(u)
           d == IF text = <<>> THEN 0 ELSE Len(text) + 1
<1>0. Len(text) \in Nat /\ Len(label) \in Nat
  BY LenProperties
<1>1. /\ u \in Seq(Byte) /\ Len(u) = d + Len(label)
      /\ \A i \in 1..Len(text) : u[i] = text[i]
      /\ text # <<>> => u[Len(text) + 1] = Dot
      /\ \A i \in 1..Len(label) : u[d + i] = label[i]
  BY DottedIs
<1>2. d \in Nat /\ Len(text) <= d /\ Len(text) <= Len(u)
  <2>1. text = <<>> => Len(text) = 0
    BY EmptySeq
  <2>2. \A a, b \in Nat : a + 1 <= (a + 1) + b /\ a <= (a + 1) + b /\ a <= a + 1
    OBVIOUS
  <2>3. d \in Nat /\ Len(text) <= d
    BY <1>0, <2>1, <2>2
  <2>. QED BY <1>0, <1>1, <2>3
<1> HIDE DEF u
<1>3. g[Len(text)] = f[Len(text)]
  <2>1. \A n \in 0..Len(text) : g[n] = f[n]
    BY <1>1, <1>2, ScanAgrees
  <2>. QED BY <1>0, <2>1
<1>4. /\ g[0] = Nothing /\ f[0] = Nothing
      /\ \A n \in 1..Len(u) : g[n] = OneMore(u, n, g[n - 1])
  BY <1>1, ScanIs
<1> HIDE DEF f, g
<1>5. g[d].label = <<>> /\ g[d].labels = LabelsOf(text)
  <2>1. CASE text = <<>>
    <3>1. Len(text) = 0 /\ d = 0
      BY <2>1, EmptySeq
    <3>2. LabelsOf(text) = Closed(Nothing)
      BY <1>4, <3>1 DEF LabelsOf, f
    <3>. QED BY <1>4, <3>1, <3>2 DEF Closed, Nothing
  <2>2. CASE text # <<>>
    <3>1. d = Len(text) + 1 /\ d \in 1..Len(u) /\ d - 1 = Len(text)
      BY <1>0, <1>1, <2>2
    <3>2. g[d] = OneMore(u, d, f[Len(text)])
      BY <1>3, <1>4, <3>1
    <3>3. u[d] = Dot
      BY <1>1, <2>2, <3>1
    <3>4. LabelsOf(text) = Closed(f[Len(text)])
      BY DEF LabelsOf, f
    <3>5. g[d] = [labels |-> LabelsOf(text), label |-> <<>>]
      BY <3>2, <3>3, <3>4, Zenon DEF OneMore
    <3>6. PICK c : c = LabelsOf(text)
      OBVIOUS
    <3>. QED BY <3>5, <3>6
  <2>. QED BY <2>1, <2>2
<1>6. g[Len(u)].labels = LabelsOf(text) /\ g[Len(u)].label = label
  <2>1. d + Len(label) <= Len(u)
    BY <1>0, <1>1, <1>2
  <2>2. /\ Scan(u)[d + Len(label)].labels = Scan(u)[d].labels
        /\ Scan(u)[d + Len(label)].label = label
    <3>1. Scan(u)[d].label = <<>>
      BY <1>5 DEF g
    <3> HIDE DEF d
    <3>. QED BY <1>1, <1>2, <2>1, <3>1, LabelIsFound
  <2>. QED BY <1>1, <1>5, <2>2 DEF g
<1>7. Closed(g[Len(u)]) = Append(LabelsOf(text), label)
  BY <1>6 DEF Closed
<1>. QED BY <1>7 DEF LabelsOf, g, u

\* There are no labels in an empty name.
LEMMA NoLabels == LabelsOf(<<>>) = <<>>
<1>1. <<>> \in Seq(Byte) /\ Len(<<>>) = 0
  BY EmptySeq
<1>2. Scan(<<>>)[0] = Nothing
  BY <1>1, ScanIs
<1>. QED BY <1>1, <1>2 DEF LabelsOf, Closed, Nothing

\* add_question finds the labels parse_qname joined.
LEMMA LabelsOfJoined ==
  ASSUME NEW labels, AreLabels(labels)
  PROVE  LabelsOf(Joined(labels)) = labels
<1> DEFINE f == Joins(labels)
           First(n) == SubSeq(labels, 1, n)
           S == {n \in 0..Len(labels) : LabelsOf(f[n]) = First(n)}
<1>0. labels \in Seq(Seq(Byte)) /\ Len(labels) \in Nat
  BY LenProperties DEF AreLabels
<1>1. /\ f \in [0..Len(labels) -> Seq(Byte)] /\ f[0] = <<>>
      /\ \A n \in 1..Len(labels) : f[n] = Dotted(f[n - 1], labels[n])
  BY <1>0, JoinsAre
<1>2. 0 \in S
  <2>1. First(0) = <<>>
    BY <1>0, SubSeqProperties, EmptySeq
  <2>. QED BY <1>0, <1>1, <2>1, NoLabels
<1> HIDE DEF f
<1>3. ASSUME NEW n \in 1..Len(labels), n - 1 \in S
      PROVE  n \in S
  <2>1. n \in 0..Len(labels) /\ n - 1 \in 0..Len(labels)
    BY <1>0
  <2>2. labels[n] \in Seq(Byte) /\ labels[n] # <<>> /\ Dotless(labels[n])
    BY <1>0, ElementOfSeq DEF AreLabels
  <2>3. f[n - 1] \in Seq(Byte)
    BY <1>1, <2>1
  <2>4. LabelsOf(f[n]) = Append(First(n - 1), labels[n])
    BY <1>1, <1>3, <2>2, <2>3, LabelsOfDotted
  <2>5. /\ First(n - 1) \in Seq(Seq(Byte)) /\ Len(First(n - 1)) = n - 1
        /\ \A i \in 1..(n - 1) : First(n - 1)[i] = labels[i]
        /\ First(n) \in Seq(Seq(Byte)) /\ Len(First(n)) = n
        /\ \A i \in 1..n : First(n)[i] = labels[i]
    BY <1>0, <2>1, SubSeqProperties
  <2> HIDE DEF First
  <2>6. PICK a : a = First(n - 1)
    OBVIOUS
  <2>7. /\ Append(a, labels[n]) \in Seq(Seq(Byte))
        /\ Len(Append(a, labels[n])) = n
        /\ \A i \in 1..(n - 1) : Append(a, labels[n])[i] = labels[i]
        /\ Append(a, labels[n])[n] = labels[n]
    <3>1. (n - 1) + 1 = n
      OBVIOUS
    <3>. QED BY <2>2, <2>5, <2>6, <3>1, AppendProperties
  <2>8. \A i \in 1..n : i \in 1..(n - 1) \/ i = n
    OBVIOUS
  <2>9. Append(a, labels[n]) = First(n)
    BY <2>5, <2>7, <2>8, SeqEqual
  <2>. QED BY <2>1, <2>4, <2>6, <2>9
<1> HIDE DEF S
<1>4. \A n \in 0..Len(labels) : n \in S
  BY <1>0, <1>2, <1>3, UpTo
<1>5. LabelsOf(f[Len(labels)]) = First(Len(labels))
  <2>1. Len(labels) \in 0..Len(labels)
    BY <1>0
  <2>. QED BY <1>4, <2>1 DEF S
<1>6. First(Len(labels)) = labels
  <2>1. /\ First(Len(labels)) \in Seq(Seq(Byte)) /\ Len(First(Len(labels))) = Len(labels)
        /\ \A i \in 1..Len(labels) : First(Len(labels))[i] = labels[i]
    BY <1>0, SubSeqProperties
  <2> HIDE DEF First
  <2>. QED BY <1>0, <2>1, SeqEqual
<1>. QED BY <1>5, <1>6 DEF Joined, f

\* A byte more in the label is a byte more in the text.
LEMMA DottedAppend ==
  ASSUME NEW text \in Seq(Byte), NEW label \in Seq(Byte), NEW b \in Byte
  PROVE  Dotted(text, Append(label, b)) = Append(Dotted(text, label), b)
<1> DEFINE front == IF text = <<>> THEN <<>> ELSE Append(text, Dot)
<1>1. front \in Seq(Byte)
  <2>1. Dot \in Byte
    BY DEF Dot, Byte
  <2>. QED BY <2>1, AppendProperties, EmptySeq
<1>2. Dotted(text, label) = front \o label /\ Dotted(text, Append(label, b)) = front \o Append(label, b)
  BY DEF Dotted
<1> HIDE DEF front
<1>3. front \o Append(label, b) = Append(front \o label, b)
  BY <1>1
<1>. QED BY <1>2, <1>3

\* The beginnings of a text.
LEMMA Beginnings ==
  ASSUME NEW text \in Seq(Byte), NEW n \in 1..Len(text)
  PROVE  /\ SubSeq(text, 1, n - 1) \in Seq(Byte) /\ Len(SubSeq(text, 1, n - 1)) = n - 1
         /\ SubSeq(text, 1, n) = Append(SubSeq(text, 1, n - 1), text[n])
<1>0. Len(text) \in Nat /\ text[n] \in Byte
  BY LenProperties, ElementOfSeq
<1>1. PICK p, s : p = SubSeq(text, 1, n - 1) /\ s = SubSeq(text, 1, n)
  OBVIOUS
<1>2. /\ p \in Seq(Byte) /\ Len(p) = n - 1 /\ \A i \in 1..(n - 1) : p[i] = text[i]
      /\ s \in Seq(Byte) /\ Len(s) = n /\ \A i \in 1..n : s[i] = text[i]
  BY <1>0, <1>1, SubSeqProperties
<1>3. /\ Append(p, text[n]) \in Seq(Byte) /\ Len(Append(p, text[n])) = n
      /\ \A i \in 1..(n - 1) : Append(p, text[n])[i] = text[i]
      /\ Append(p, text[n])[n] = text[n]
  <2>1. (n - 1) + 1 = n
    OBVIOUS
  <2>. QED BY <1>0, <1>2, <2>1, AppendProperties
<1>4. \A i \in 1..n : i \in 1..(n - 1) \/ i = n
  OBVIOUS
<1>5. s = Append(p, text[n])
  BY <1>2, <1>3, <1>4, SeqEqual
<1>. QED BY <1>1, <1>2, <1>5

\* A name without empty labels is its labels, joined.
LEMMA NameIsJoined ==
  ASSUME NEW text \in Seq(Byte), NoEmptyLabel(text)
  PROVE  Joined(LabelsOf(text)) = text
<1> DEFINE f == Scan(text)
           P(n) == SubSeq(text, 1, n)
           As(n) == /\ Dotted(Joined(f[n].labels), f[n].label) = P(n)
                    /\ f[n].label = <<>> <=> n = 0 \/ text[n] = Dot
           S == {n \in 0..Len(text) : As(n)}
<1>0. Len(text) \in Nat
  BY LenProperties
<1>1. /\ f[0] = Nothing /\ \A n \in 0..Len(text) : f[n] \in Found
      /\ \A n \in 1..Len(text) : f[n] = OneMore(text, n, f[n - 1])
  BY ScanIs
<1>2. \A n \in 1..Len(text) :
        /\ P(n - 1) \in Seq(Byte) /\ Len(P(n - 1)) = n - 1 /\ P(n) = Append(P(n - 1), text[n])
  BY Beginnings
<1>3. P(0) = <<>> /\ P(Len(text)) = text
  <2>1. P(0) = <<>>
    BY SubSeqEmpty
  <2>2. PICK s : s = P(Len(text))
    OBVIOUS
  <2>3. s \in Seq(Byte) /\ Len(s) = Len(text) /\ \A i \in 1..Len(text) : s[i] = text[i]
    BY <1>0, <2>2, SubSeqProperties
  <2>4. s = text
    BY <2>3, SeqEqual
  <2>. QED BY <2>1, <2>2, <2>4
<1> HIDE DEF f, P
<1>4. <<>> \in Seq(Byte) /\ Len(<<>>) = 0
  BY EmptySeq
<1>5. Joined(<<>>) = <<>>
  BY <1>4, JoinsAre, EmptySeq DEF Joined
<1>6. 0 \in S
  <2>1. f[0].labels = <<>> /\ f[0].label = <<>>
    BY <1>1 DEF Nothing
  <2>2. Dotted(<<>>, <<>>) = <<>>
    BY <1>4, ConcatEmptySeq DEF Dotted
  <2>3. 0 \in 0..Len(text)
    BY <1>0
  <2>. QED BY <1>3, <1>5, <2>1, <2>2, <2>3
<1>7. ASSUME NEW n \in 1..Len(text), n - 1 \in S
      PROVE  n \in S
  <2>0. n \in 0..Len(text) /\ n - 1 \in 0..Len(text) /\ n # 0
    BY <1>0
  <2>1. PICK labels \in Seq(Seq(Byte)), label \in Seq(Byte) :
          labels = f[n - 1].labels /\ label = f[n - 1].label
    BY <1>1, <2>0 DEF Found
  <2>2. /\ Dotted(Joined(labels), label) = P(n - 1)
        /\ label = <<>> <=> n - 1 = 0 \/ text[n - 1] = Dot
    BY <1>7, <2>1
  <2>3. Joined(labels) \in Seq(Byte)
    <3>1. Len(labels) \in 0..Len(labels)
      BY LenProperties
    <3>. QED BY <3>1, JoinsAre DEF Joined
  <2>4. text[n] \in Byte
    BY ElementOfSeq
  <2>5. CASE text[n] = Dot
    <3>1. n - 1 \in 1..Len(text) /\ text[n - 1] # Dot
      <4>1. n # 1
        BY <2>5 DEF NoEmptyLabel
      <4>2. n - 1 \in 1..Len(text) /\ (n - 1) + 1 = n
        BY <4>1
      <4>. QED BY <2>5, <4>2 DEF NoEmptyLabel
    <3>2. label # <<>>
      BY <2>2, <3>1
    <3>3. Closed(f[n - 1]) = Append(labels, label)
      BY <2>1, <3>2 DEF Closed
    <3>4. f[n] = [labels |-> Append(labels, label), label |-> <<>>]
      BY <1>1, <2>5, <3>3, Zenon DEF OneMore
    <3>5. f[n].labels = Append(labels, label) /\ f[n].label = <<>>
      <4>1. PICK c : c = Append(labels, label)
        OBVIOUS
      <4>. QED BY <3>4, <4>1
    <3>6. Joined(f[n].labels) = P(n - 1)
      BY <2>2, <3>5, JoinedAppend
    <3>7. P(n - 1) # <<>>
      BY <1>2, <1>4, <3>1
    <3>8. Dotted(P(n - 1), <<>>) = Append(P(n - 1), Dot)
      <4>1. Append(P(n - 1), Dot) \in Seq(Byte)
        BY <1>2, <2>4, <2>5, AppendProperties
      <4>2. Append(P(n - 1), Dot) \o <<>> = Append(P(n - 1), Dot)
        BY <4>1, ConcatEmptySeq
      <4>. QED BY <3>7, <4>2 DEF Dotted
    <3>9. As(n)
      BY <1>2, <2>5, <3>5, <3>6, <3>8
    <3>. QED BY <2>0, <3>9
  <2>6. CASE text[n] # Dot
    <3>1. f[n].labels = labels /\ f[n].label = Append(label, text[n])
      <4>1. f[n - 1] \in Found
        BY <1>1, <2>0
      <4>2. f[n] = [f[n - 1] EXCEPT !.label = Append(@, text[n])]
        BY <1>1, <2>6 DEF OneMore
      <4>. QED BY <2>1, <4>1, <4>2 DEF Found
    <3>2. Dotted(Joined(labels), Append(label, text[n])) = P(n)
      <4>1. Dotted(Joined(labels), Append(label, text[n])) = Append(Dotted(Joined(labels), label), text[n])
        BY <2>3, <2>4, DottedAppend
      <4>. QED BY <1>2, <2>2, <4>1
    <3>3. Append(label, text[n]) # <<>>
      <4>1. Len(Append(label, text[n])) = Len(label) + 1 /\ Len(label) \in Nat
        BY <2>4, AppendProperties, LenProperties
      <4>. QED BY <1>4, <4>1
    <3>4. As(n)
      BY <2>0, <2>6, <3>1, <3>2, <3>3
    <3>. QED BY <2>0, <3>4
  <2>. QED BY <2>5, <2>6
<1> HIDE DEF S
<1>8. \A n \in 0..Len(text) : n \in S
  BY <1>0, <1>6, <1>7, UpTo
<1>9. As(Len(text))
  <2>1. Len(text) \in 0..Len(text)
    BY <1>0
  <2>. QED BY <1>8, <2>1 DEF S
<1>10. CASE Len(text) = 0
  <2>1. LabelsOf(text) = <<>>
    BY <1>1, <1>10 DEF LabelsOf, Closed, Nothing, f
  <2>. QED BY <1>5, <1>10, <2>1, EmptySeq
<1>11. CASE Len(text) # 0
  <2>1. Len(text) \in 1..Len(text) /\ Len(text) \in 0..Len(text)
    BY <1>0, <1>11
  <2>2. text[Len(text)] # Dot
    BY <2>1 DEF NoEmptyLabel
  <2>3. f[Len(text)].label # <<>>
    BY <1>9, <1>11, <2>2
  <2>4. LabelsOf(text) = Append(f[Len(text)].labels, f[Len(text)].label)
    BY <2>3 DEF LabelsOf, Closed, f
  <2>5. f[Len(text)].labels \in Seq(Seq(Byte)) /\ f[Len(text)].label \in Seq(Byte)
    BY <1>1, <2>1 DEF Found
  <2>6. Joined(LabelsOf(text)) = Dotted(Joined(f[Len(text)].labels), f[Len(text)].label)
    BY <2>4, <2>5, JoinedAppend
  <2>. QED BY <1>3, <1>9, <2>6
<1>. QED BY <1>10, <1>11

-----------------------------------------------------------------------------
(* What QueryBuilder writes *)

\* t begins with s.
Begins(s, t) == Len(s) <= Len(t) /\ \A i \in 1..Len(s) : t[i] = s[i]

\* What is appended to begins what results.
LEMMA ConcatBegins ==
  ASSUME NEW s \in Seq(Byte), NEW t \in Seq(Byte)
  PROVE  /\ s \o t \in Seq(Byte) /\ Len(s \o t) = Len(s) + Len(t) /\ Begins(s, s \o t)
         /\ \A i \in 1..Len(t) : (s \o t)[Len(s) + i] = t[i]
<1>0. Len(s) \in Nat /\ Len(t) \in Nat
  BY LenProperties
<1>1. PICK u : u = s \o t
  OBVIOUS
<1>2. /\ u \in Seq(Byte) /\ Len(u) = Len(s) + Len(t)
      /\ \A i \in 1..Len(u) : u[i] = IF i <= Len(s) THEN s[i] ELSE t[i - Len(s)]
  BY <1>1, ConcatProperties
<1>3. Begins(s, u)
  BY <1>0, <1>2 DEF Begins
<1>4. ASSUME NEW i \in 1..Len(t)
      PROVE  u[Len(s) + i] = t[i]
  <2>1. Len(s) + i \in 1..Len(u) /\ ~(Len(s) + i <= Len(s)) /\ (Len(s) + i) - Len(s) = i
    BY <1>0, <1>2
  <2>. QED BY <1>2, <2>1
<1>. QED BY <1>1, <1>2, <1>3, <1>4

\* Where each step writes behind what was there, every stage begins the last.
LEMMA StagesBegin ==
  ASSUME NEW m \in Nat, NEW f, \A n \in 0..m : f[n] \in Seq(Byte),
         \A n \in 1..m : Begins(f[n - 1], f[n]), NEW k \in 0..m
  PROVE  \A n \in k..m : Begins(f[k], f[n])
<1> DEFINE S == {n \in 0..m : n >= k => Begins(f[k], f[n])}
<1>0. \A n \in 0..m : Len(f[n]) \in Nat
  BY LenProperties
<1>1. Begins(f[k], f[k])
  BY <1>0 DEF Begins
<1>2. 0 \in S
  <2>1. 0 >= k => k = 0
    OBVIOUS
  <2>. QED BY <1>1, <2>1
<1>3. ASSUME NEW n \in 1..m, n - 1 \in S
      PROVE  n \in S
  <2>0. n \in 0..m /\ n - 1 \in 0..m
    OBVIOUS
  <2>1. CASE n = k
    BY <1>1, <2>0, <2>1
  <2>2. CASE n # k
    <3>1. n >= k => n - 1 >= k
      BY <2>2
    <3>2. n >= k => Begins(f[k], f[n - 1])
      BY <1>3, <3>1
    <3>3. Begins(f[n - 1], f[n])
      OBVIOUS
    <3>4. Begins(f[k], f[n - 1]) => Begins(f[k], f[n])
      <4>1. Len(f[k]) \in Nat /\ Len(f[n - 1]) \in Nat /\ Len(f[n]) \in Nat
        BY <1>0, <2>0
      <4>2. PICK a, b, c : a = f[k] /\ b = f[n - 1] /\ c = f[n]
        OBVIOUS
      <4>3. Begins(a, b) /\ Begins(b, c) => Begins(a, c)
        BY <4>1, <4>2 DEF Begins
      <4>. QED BY <3>3, <4>2, <4>3
    <3>. QED BY <2>0, <3>2, <3>4
  <2>. QED BY <2>1, <2>2
<1> HIDE DEF S
<1>4. \A n \in 0..m : n \in S
  BY <1>2, <1>3, UpTo
<1>5. \A n \in k..m : n \in 0..m /\ n >= k
  OBVIOUS
<1>. QED BY <1>4, <1>5 DEF S

\* append_label writes the length, then the label.
LEMMA AppendLabelIs ==
  ASSUME NEW buffer \in Seq(Byte), NEW label \in Seq(Byte)
  PROVE  LET u == AppendLabel(buffer, label)
         IN  /\ u \in Seq(Byte) /\ Len(u) = (Len(buffer) + 1) + Len(label)
             /\ Begins(buffer, u)
             /\ u[Len(buffer) + 1] = Low(Len(label))
             /\ \A i \in 1..Len(label) : u[(Len(buffer) + 1) + i] = label[i]
<1>0. Len(buffer) \in Nat /\ Len(label) \in Nat
  BY LenProperties
<1>1. Low(Len(label)) \in Byte
  <2>1. \A n \in Nat : n % 256 \in 0..255
    OBVIOUS
  <2>. QED BY <1>0, <2>1 DEF Low, Byte
<1>2. PICK c : c = <<Low(Len(label))>>
  OBVIOUS
<1>3. c \in Seq(Byte) /\ Len(c) = 1 /\ c[1] = Low(Len(label))
  BY <1>1, <1>2
<1>4. PICK a : a = buffer \o c
  OBVIOUS
<1>5. /\ a \in Seq(Byte) /\ Len(a) = Len(buffer) + 1 /\ Begins(buffer, a)
      /\ a[Len(buffer) + 1] = Low(Len(label))
  <2>1. 1 \in 1..1
    OBVIOUS
  <2>2. /\ a \in Seq(Byte) /\ Len(a) = Len(buffer) + Len(c) /\ Begins(buffer, a)
        /\ \A i \in 1..Len(c) : a[Len(buffer) + i] = c[i]
    BY <1>3, <1>4, ConcatBegins
  <2>. QED BY <1>3, <2>1, <2>2
<1>6. PICK u : u = a \o label
  OBVIOUS
<1>7. /\ u \in Seq(Byte) /\ Len(u) = (Len(buffer) + 1) + Len(label) /\ Begins(a, u)
      /\ \A i \in 1..Len(label) : u[(Len(buffer) + 1) + i] = label[i]
  BY <1>5, <1>6, ConcatBegins
<1>8. Begins(buffer, u) /\ u[Len(buffer) + 1] = Low(Len(label))
  <2>1. Len(buffer) + 1 \in 1..Len(a) /\ \A i \in 1..Len(buffer) : i \in 1..Len(a)
    BY <1>0, <1>5
  <2>. QED BY <1>0, <1>5, <1>7, <2>1 DEF Begins
<1>9. AppendLabel(buffer, label) = u
  BY <1>2, <1>4, <1>6 DEF AppendLabel
<1>. QED BY <1>7, <1>8, <1>9

AreWritten(f, buffer, labels) ==
  f = [n \in 0..Len(labels) |-> IF n = 0 THEN buffer ELSE AppendLabel(f[n - 1], labels[n])]

\* The labels of a question are written one by one.
LEMMA WrittenIs ==
  ASSUME NEW buffer \in Seq(Byte), NEW labels \in Seq(Seq(Byte))
  PROVE  /\ Written(buffer, labels) \in [0..Len(labels) -> Seq(Byte)]
         /\ Written(buffer, labels)[0] = buffer
         /\ \A n \in 1..Len(labels) :
              Written(buffer, labels)[n] = AppendLabel(Written(buffer, labels)[n - 1], labels[n])
<1> DEFINE m == Len(labels)
           X == Seq(Byte)
           step == [n \in 1..m |-> [x \in X |-> AppendLabel(x, labels[n])]]
           f == CHOOSE g : AreWritten(g, buffer, labels)
<1>0. m \in Nat
  BY LenProperties
<1>1. buffer \in X
  OBVIOUS
<1>a. \A n \in 1..m : labels[n] \in X
  BY ElementOfSeq
<1>b. \A n \in 1..m, x \in X : AppendLabel(x, labels[n]) \in X
  BY <1>a, AppendLabelIs
<1>2. step \in [1..m -> [X -> X]]
  BY <1>b
<1> HIDE DEF m, step, X
<1>3. PICK g : IsIteration(g, X, buffer, m, step)
  BY <1>0, <1>1, <1>2, Recursion
<1>4. /\ g \in [0..m -> X] /\ g[0] = buffer
      /\ \A n \in 1..m : g[n] = step[n][g[n - 1]]
  BY <1>3 DEF IsIteration
<1>5. \A n \in 1..m : n - 1 \in 0..m /\ g[n - 1] \in X
  BY <1>0, <1>4
<1>6. \A n \in 1..m : g[n] = AppendLabel(g[n - 1], labels[n])
  BY <1>4, <1>5 DEF step
<1>7. AreWritten(g, buffer, labels)
  <2>1. ASSUME NEW n \in 0..m
        PROVE  g[n] = IF n = 0 THEN buffer ELSE AppendLabel(g[n - 1], labels[n])
    BY <1>0, <1>4, <1>6
  <2>. QED BY <1>4, <2>1 DEF AreWritten, m
<1>8. AreWritten(f, buffer, labels)
  BY <1>7
<1>9. Written(buffer, labels) = f
  BY DEF Written, AreWritten
<1> HIDE DEF f
<1>10. /\ DOMAIN f = 0..m /\ f = [n \in 0..m |-> f[n]]
       /\ f[0] = buffer /\ \A n \in 1..m : f[n] = AppendLabel(f[n - 1], labels[n])
  <2>1. f = [n \in 0..m |-> IF n = 0 THEN buffer ELSE AppendLabel(f[n - 1], labels[n])]
    BY <1>8 DEF AreWritten, m
  <2>2. 0 \in 0..m /\ \A n \in 1..m : n \in 0..m /\ n # 0
    BY <1>0
  <2>3. \A n \in 0..m : f[n] = IF n = 0 THEN buffer ELSE AppendLabel(f[n - 1], labels[n])
    BY <2>1, Zenon
  <2>4. DOMAIN f = 0..m /\ f = [n \in 0..m |-> f[n]]
    BY <2>1
  <2>. QED BY <2>2, <2>3, <2>4
<1>11. \A n \in 0..m : f[n] \in X
  <2> DEFINE S == {n \in 0..m : f[n] \in X}
  <2>1. 0 \in S
    BY <1>0, <1>1, <1>10
  <2>2. ASSUME NEW n \in 1..m, n - 1 \in S
        PROVE  n \in S
    <3>1. n \in 0..m
      BY <1>0
    <3>. QED BY <1>10, <1>b, <2>2, <3>1
  <2> HIDE DEF S
  <2>3. \A n \in 0..m : n \in S
    BY <1>0, <2>1, <2>2, UpTo
  <2>. QED BY <2>3 DEF S
<1>12. f \in [0..m -> X]
  BY <1>10, <1>11
<1>. QED BY <1>9, <1>10, <1>12 DEF m, X

\* The n-th of the labels, where it is written: its length in one byte, its
\* bytes, and behind them the next one.
LabelLies(t, b, label) ==
  /\ b \in Nat /\ (b + 1) + Len(label) <= Len(t)
  /\ t[b + 1] = Low(Len(label)) /\ \A i \in 1..Len(label) : t[(b + 1) + i] = label[i]

\* It lies there in all that begins so.
LEMMA LiesOn ==
  ASSUME NEW s \in Seq(Byte), NEW t \in Seq(Byte), Begins(s, t),
         NEW b, NEW label, Len(label) \in Nat, LabelLies(s, b, label)
  PROVE  LabelLies(t, b, label)
<1>1. Len(s) \in Nat /\ Len(t) \in Nat
  BY LenProperties
<1>2. /\ b \in Nat /\ (b + 1) + Len(label) <= Len(s) /\ s[b + 1] = Low(Len(label))
      /\ \A i \in 1..Len(label) : s[(b + 1) + i] = label[i]
  BY DEF LabelLies
<1>3. Len(s) <= Len(t) /\ \A i \in 1..Len(s) : t[i] = s[i]
  BY DEF Begins
<1>4. b + 1 \in 1..Len(s) /\ \A i \in 1..Len(label) : (b + 1) + i \in 1..Len(s)
  BY <1>1, <1>2
<1>5. (b + 1) + Len(label) <= Len(t)
  BY <1>1, <1>2, <1>3
<1>6. t[b + 1] = Low(Len(label)) /\ \A i \in 1..Len(label) : t[(b + 1) + i] = label[i]
  BY <1>2, <1>3, <1>4
<1>. QED BY <1>2, <1>5, <1>6 DEF LabelLies

\* WithLabels writes every label behind what was there, one behind the other.
LEMMA LabelsLie ==
  ASSUME NEW buffer \in Seq(Byte), NEW labels \in Seq(Seq(Byte))
  PROVE  LET w == Written(buffer, labels)
         IN  /\ Begins(buffer, WithLabels(buffer, labels))
             /\ \A n \in 0..Len(labels) : n <= Len(w[n]) /\ Len(w[n]) \in Nat
             /\ \A n \in 1..Len(labels) :
                  /\ LabelLies(WithLabels(buffer, labels), Len(w[n - 1]), labels[n])
                  /\ Len(w[n]) = (Len(w[n - 1]) + 1) + Len(labels[n])
<1> DEFINE w == Written(buffer, labels)
           m == Len(labels)
<1>0. m \in Nat /\ \A n \in 1..m : n \in 0..m /\ n - 1 \in 0..m /\ labels[n] \in Seq(Byte)
  BY LenProperties, ElementOfSeq
<1>1. /\ \A n \in 0..m : w[n] \in Seq(Byte) /\ Len(w[n]) \in Nat
      /\ w[0] = buffer /\ \A n \in 1..m : w[n] = AppendLabel(w[n - 1], labels[n])
  BY WrittenIs, LenProperties
<1>2. WithLabels(buffer, labels) = w[m]
  BY DEF WithLabels
<1> HIDE DEF w, m
<1>3. ASSUME NEW n \in 1..m
      PROVE  /\ Begins(w[n - 1], w[n]) /\ LabelLies(w[n], Len(w[n - 1]), labels[n])
             /\ Len(w[n]) = (Len(w[n - 1]) + 1) + Len(labels[n])
  <2>1. w[n - 1] \in Seq(Byte) /\ Len(w[n - 1]) \in Nat /\ labels[n] \in Seq(Byte) /\ Len(labels[n]) \in Nat
    BY <1>0, <1>1, LenProperties
  <2>2. /\ Len(w[n]) = (Len(w[n - 1]) + 1) + Len(labels[n])
        /\ Begins(w[n - 1], w[n])
        /\ w[n][Len(w[n - 1]) + 1] = Low(Len(labels[n]))
        /\ \A i \in 1..Len(labels[n]) : w[n][(Len(w[n - 1]) + 1) + i] = labels[n][i]
    <3>1. PICK b, l : b = w[n - 1] /\ l = labels[n]
      OBVIOUS
    <3>2. b \in Seq(Byte) /\ l \in Seq(Byte) /\ w[n] = AppendLabel(b, l)
      BY <1>1, <2>1, <3>1
    <3>3. /\ Len(AppendLabel(b, l)) = (Len(b) + 1) + Len(l)
          /\ Begins(b, AppendLabel(b, l))
          /\ AppendLabel(b, l)[Len(b) + 1] = Low(Len(l))
          /\ \A i \in 1..Len(l) : AppendLabel(b, l)[(Len(b) + 1) + i] = l[i]
      BY <3>2, AppendLabelIs
    <3>. QED BY <3>1, <3>2, <3>3
  <2>3. (Len(w[n - 1]) + 1) + Len(labels[n]) <= Len(w[n])
    BY <2>1, <2>2
  <2>. QED BY <2>1, <2>2, <2>3 DEF LabelLies
<1>4. \A k \in 0..m : \A n \in k..m : Begins(w[k], w[n])
  BY <1>0, <1>1, <1>3, StagesBegin
<1>5. ASSUME NEW n \in 1..m
      PROVE  LabelLies(w[m], Len(w[n - 1]), labels[n])
  <2>1. n \in 0..m /\ m \in n..m /\ m \in 0..m /\ Len(labels[n]) \in Nat
    BY <1>0, LenProperties
  <2>2. Begins(w[n], w[m])
    BY <1>4, <2>1
  <2>. QED BY <1>1, <1>3, <2>1, <2>2, LiesOn
<1>6. \A n \in 0..m : n <= Len(w[n])
  <2> DEFINE S == {n \in 0..m : n <= Len(w[n])}
  <2>1. 0 \in S
    BY <1>0, <1>1
  <2>2. ASSUME NEW n \in 1..m, n - 1 \in S
        PROVE  n \in S
    <3>1. n \in 0..m /\ Len(w[n - 1]) \in Nat /\ Len(labels[n]) \in Nat
      BY <1>0, <1>1, LenProperties
    <3>2. n - 1 <= Len(w[n - 1]) /\ Len(w[n]) = (Len(w[n - 1]) + 1) + Len(labels[n])
      BY <1>3, <2>2
    <3>3. \A a, b \in Nat : n - 1 <= a => n <= (a + 1) + b
      OBVIOUS
    <3>. QED BY <3>1, <3>2, <3>3
  <2> HIDE DEF S
  <2>3. \A n \in 0..m : n \in S
    BY <1>0, <2>1, <2>2, UpTo
  <2>. QED BY <2>3 DEF S
<1>7. Begins(buffer, w[m])
  <2>1. 0 \in 0..m /\ m \in 0..m
    BY <1>0
  <2>. QED BY <1>1, <1>4, <2>1
<1>. QED BY <1>1, <1>2, <1>3, <1>5, <1>6, <1>7 DEF w, m

\* A word is two bytes.
LEMMA WordBytes ==
  \A x \in Word : x \in Nat /\ x \div 256 \in 0..255 /\ x % 256 \in 0..255
<1>1. \A x \in Word : x \in Nat /\ x < 65536
  <2>1. PICK m \in Nat : m = 65535
    BY SMT
  <2>2. Word = 0..m
    BY <2>1 DEF Word
  <2>3. \A x \in 0..m : x \in Nat /\ x < m + 1
    BY SMT
  <2>4. m + 1 = 65536
    BY <2>1, SMT
  <2>. QED BY <2>2, <2>3, <2>4
<1>2. \A x \in Nat : x < 65536 => x \div 256 \in 0..255
  BY SMT
<1>3. \A x \in Nat : x % 256 \in 0..255
  BY SMT
<1>. QED BY <1>1, <1>2, <1>3

\* A question is its labels, a terminator, and type and class in two bytes each.
LEMMA QuestionIs ==
  ASSUME NEW buffer \in Seq(Byte), NEW question \in Request
  PROVE  LET w == WithLabels(buffer, LabelsOf(question.qname))
             v == AddQuestion(buffer, question)
             e == Len(w)
         IN  /\ v \in Seq(Byte) /\ e \in Nat /\ Len(v) = e + 5
             /\ Begins(w, v) /\ Begins(buffer, v)
             /\ v[e + 1] = Terminator
             /\ v[e + 2] = High(question.qtype) /\ v[e + 3] = Low(question.qtype)
             /\ v[e + 4] = High(question.class_code) /\ v[e + 5] = Low(question.class_code)
<1> DEFINE labels == LabelsOf(question.qname)
<1> HIDE DEF labels
<1>1. /\ question.qname \in Seq(Byte) /\ question.qtype \in Word
      /\ question.class_code \in Word
  BY DEF Request
<1>2. labels \in Seq(Seq(Byte))
  BY <1>1, LabelsAreLabels DEF AreLabels, labels
<1>3. PICK w : w = WithLabels(buffer, labels)
  OBVIOUS
<1>4. w \in Seq(Byte) /\ Len(w) \in Nat
  <2>1. Len(labels) \in 0..Len(labels)
    BY <1>2, LenProperties
  <2>2. w \in Seq(Byte)
    BY <1>2, <1>3, <2>1, WrittenIs DEF WithLabels
  <2>. QED BY <2>2, LenProperties
<1>5. \A x \in Word : High(x) \in Byte /\ Low(x) \in Byte
  BY WordBytes DEF High, Low, Byte
<1>6. PICK c : c = <<Terminator, High(question.qtype), Low(question.qtype),
                     High(question.class_code), Low(question.class_code)>>
  OBVIOUS
<1>7. c \in Seq(Byte) /\ Len(c) = 5
  <2>1. Terminator \in Byte
    BY DEF Terminator, Byte
  <2>2. /\ High(question.qtype) \in Byte /\ Low(question.qtype) \in Byte
        /\ High(question.class_code) \in Byte /\ Low(question.class_code) \in Byte
    BY <1>1, <1>5
  <2>3. PICK a1, a2, a3, a4, a5 \in Byte :
          /\ a1 = Terminator /\ a2 = High(question.qtype) /\ a3 = Low(question.qtype)
          /\ a4 = High(question.class_code) /\ a5 = Low(question.class_code)
    BY <2>1, <2>2
  <2>4. c = <<a1, a2, a3, a4, a5>>
    BY <1>6, <2>3
  <2>. QED BY <2>4
<1>8. PICK v : v = w \o c
  OBVIOUS
<1>9. /\ v \in Seq(Byte) /\ Len(v) = Len(w) + 5 /\ Begins(w, v)
      /\ \A i \in 1..5 : v[Len(w) + i] = c[i]
  <2>1. /\ v \in Seq(Byte) /\ Len(v) = Len(w) + Len(c) /\ Begins(w, v)
        /\ \A i \in 1..Len(c) : v[Len(w) + i] = c[i]
    BY <1>4, <1>7, <1>8, ConcatBegins
  <2>. QED BY <1>7, <2>1
<1>10. /\ v[Len(w) + 1] = Terminator
       /\ v[Len(w) + 2] = High(question.qtype) /\ v[Len(w) + 3] = Low(question.qtype)
       /\ v[Len(w) + 4] = High(question.class_code) /\ v[Len(w) + 5] = Low(question.class_code)
  <2>1. 1 \in 1..5 /\ 2 \in 1..5 /\ 3 \in 1..5 /\ 4 \in 1..5 /\ 5 \in 1..5
    OBVIOUS
  <2>2. /\ c[1] = Terminator /\ c[2] = High(question.qtype) /\ c[3] = Low(question.qtype)
        /\ c[4] = High(question.class_code) /\ c[5] = Low(question.class_code)
    BY <1>6
  <2>. QED BY <1>9, <2>1, <2>2
<1>11. Begins(buffer, v)
  <2>1. Begins(buffer, w)
    BY <1>2, <1>3, LabelsLie
  <2>2. Len(buffer) \in Nat /\ Len(v) \in Nat
    BY <1>9, LenProperties
  <2>. QED BY <1>4, <1>9, <2>1, <2>2 DEF Begins
<1>12. AddQuestion(buffer, question) = v
  BY <1>3, <1>6, <1>8 DEF AddQuestion, labels
<1>. QED BY <1>3, <1>4, <1>9, <1>10, <1>11, <1>12 DEF labels

Blank(questions) ==
  <<0, 0, 0, 0, High(Len(questions)), Low(Len(questions)), 0, 0, 0, 0, 0, 0>>
AreBuilt(f, q) ==
  f = [n \in 0..Len(q) |-> IF n = 0 THEN Blank(q) ELSE AddQuestion(f[n - 1], q[n])]

\* The header announces the questions.
LEMMA BlankIs ==
  ASSUME NEW q, Len(q) \in Word
  PROVE  /\ Blank(q) \in Seq(Byte) /\ Len(Blank(q)) = 12
         /\ Blank(q)[5] = High(Len(q)) /\ Blank(q)[6] = Low(Len(q))
         /\ \A i \in 7..12 : Blank(q)[i] = 0
<1>1. High(Len(q)) \in Byte /\ Low(Len(q)) \in Byte /\ 0 \in Byte
  <2>1. Len(q) \div 256 \in 0..255 /\ Len(q) % 256 \in 0..255
    BY WordBytes, Zenon
  <2>2. 0 \in Byte
    BY DEF Byte
  <2>. QED BY <2>1, <2>2, Zenon DEF High, Low, Byte
<1>2. PICK a, b, z \in Byte : a = High(Len(q)) /\ b = Low(Len(q)) /\ z = 0
  BY <1>1
<1>3. Blank(q) = <<z, z, z, z, a, b, z, z, z, z, z, z>>
  BY <1>2 DEF Blank
<1>4. PICK t : t = <<z, z, z, z, a, b, z, z, z, z, z, z>>
  OBVIOUS
<1>5. t \in Seq(Byte) /\ Len(t) = 12 /\ t[5] = a /\ t[6] = b
  BY <1>4
<1>6. t[7] = z /\ t[8] = z /\ t[9] = z /\ t[10] = z /\ t[11] = z /\ t[12] = z
  BY <1>4
<1>7. \A i \in 7..12 : i = 7 \/ i = 8 \/ i = 9 \/ i = 10 \/ i = 11 \/ i = 12
  OBVIOUS
<1>. QED BY <1>2, <1>3, <1>4, <1>5, <1>6, <1>7

\* A query is written question by question.
LEMMA BuiltIs ==
  ASSUME NEW q \in Seq(Request), Len(q) \in Word
  PROVE  /\ Built(q) \in [0..Len(q) -> Seq(Byte)]
         /\ Built(q)[0] = Blank(q)
         /\ \A n \in 1..Len(q) : Built(q)[n] = AddQuestion(Built(q)[n - 1], q[n])
<1> DEFINE m == Len(q)
           X == Seq(Byte)
           step == [n \in 1..m |-> [x \in X |-> AddQuestion(x, q[n])]]
           f == CHOOSE g : AreBuilt(g, q)
<1>0. m \in Nat
  BY LenProperties
<1>1. Blank(q) \in X
  BY BlankIs
<1>a. \A n \in 1..m : q[n] \in Request
  BY ElementOfSeq
<1>b. \A n \in 1..m, x \in X : AddQuestion(x, q[n]) \in X
  BY <1>a, QuestionIs
<1>2. step \in [1..m -> [X -> X]]
  BY <1>b
<1> HIDE DEF m, step, X
<1>3. PICK g : IsIteration(g, X, Blank(q), m, step)
  BY <1>0, <1>1, <1>2, Recursion
<1>4. /\ g \in [0..m -> X] /\ g[0] = Blank(q)
      /\ \A n \in 1..m : g[n] = step[n][g[n - 1]]
  BY <1>3 DEF IsIteration
<1>5. \A n \in 1..m : n - 1 \in 0..m /\ g[n - 1] \in X
  BY <1>0, <1>4
<1>6. \A n \in 1..m : g[n] = AddQuestion(g[n - 1], q[n])
  BY <1>4, <1>5 DEF step
<1>7. AreBuilt(g, q)
  <2>1. ASSUME NEW n \in 0..m
        PROVE  g[n] = IF n = 0 THEN Blank(q) ELSE AddQuestion(g[n - 1], q[n])
    BY <1>0, <1>4, <1>6
  <2>. QED BY <1>4, <2>1 DEF AreBuilt, m
<1>8. AreBuilt(f, q)
  BY <1>7
<1>9. Built(q) = f
  BY DEF Built, AreBuilt, Blank
<1> HIDE DEF f
<1>10. /\ DOMAIN f = 0..m /\ f = [n \in 0..m |-> f[n]]
       /\ f[0] = Blank(q) /\ \A n \in 1..m : f[n] = AddQuestion(f[n - 1], q[n])
  BY <1>0, <1>8 DEF AreBuilt, m
<1>11. \A n \in 0..m : f[n] \in X
  <2> DEFINE S == {n \in 0..m : f[n] \in X}
  <2>1. 0 \in S
    BY <1>0, <1>1, <1>10
  <2>2. ASSUME NEW n \in 1..m, n - 1 \in S
        PROVE  n \in S
    <3>1. n \in 0..m
      BY <1>0
    <3>. QED BY <1>10, <1>b, <2>2, <3>1
  <2> HIDE DEF S
  <2>3. \A n \in 0..m : n \in S
    BY <1>0, <2>1, <2>2, UpTo
  <2>. QED BY <2>3 DEF S
<1>12. f \in [0..m -> X]
  BY <1>10, <1>11
<1>. QED BY <1>9, <1>10, <1>12 DEF m, X

\* A query is a datagram.
LEMMA BuildBytes ==
  ASSUME NEW q \in Queries
  PROVE  Build(q) \in Seq(Byte)
<1>1. q \in Seq(Request) /\ Len(q) \in Word
  BY QueriesAssumption
<1>2. Len(q) \in 0..Len(q)
  BY <1>1, LenProperties
<1>. QED BY <1>1, <1>2, BuiltIs DEF Build

\* Where question k, and where its label n + 1 or the end of its name, lies.
Start(q, k) == Len(Built(q)[k - 1])
Asked(q, k) == LabelsOf(q[k].qname)
Place(q, k, n) == Len(Written(Built(q)[k - 1], Asked(q, k))[n])

\* The whole of question k, where it is written.
QuestionLies(t, q, k) ==
  LET labels == Asked(q, k)
      e == Place(q, k, Len(labels))
  IN  /\ AreLabels(labels) /\ Start(q, k) = Place(q, k, 0)
      /\ \A n \in 0..Len(labels) : Place(q, k, n) \in Nat /\ n <= Place(q, k, n)
      /\ \A n \in 1..Len(labels) :
           /\ LabelLies(t, Place(q, k, n - 1), labels[n]) /\ Len(labels[n]) \in 1..63
           /\ Place(q, k, n) = (Place(q, k, n - 1) + 1) + Len(labels[n])
      /\ e + 5 <= Len(t) /\ Start(q, k + 1) = e + 5
      /\ t[e + 1] = Terminator
      /\ t[e + 2] = High(q[k].qtype) /\ t[e + 3] = Low(q[k].qtype)
      /\ t[e + 4] = High(q[k].class_code) /\ t[e + 5] = Low(q[k].class_code)

\* Build writes the counts of the header, and every question in its place.
LEMMA QuestionsLie ==
  ASSUME NEW q \in Queries
  PROVE  /\ Start(q, 1) = 12
         /\ 12 <= Len(Build(q))
         /\ Build(q)[5] = High(Len(q)) /\ Build(q)[6] = Low(Len(q))
         /\ \A i \in 7..12 : Build(q)[i] = 0
         /\ \A k \in 1..Len(q) : QuestionLies(Build(q), q, k)
<1> DEFINE f == Built(q)
           m == Len(q)
<1>0. q \in Seq(Request) /\ m \in Word /\ m \in Nat
  BY QueriesAssumption, LenProperties
<1>1. /\ \A n \in 0..m : f[n] \in Seq(Byte) /\ Len(f[n]) \in Nat
      /\ f[0] = Blank(q) /\ \A n \in 1..m : f[n] = AddQuestion(f[n - 1], q[n])
  BY <1>0, BuiltIs, LenProperties
<1>2. \A n \in 1..m : n \in 0..m /\ n - 1 \in 0..m /\ q[n] \in Request
  BY <1>0, ElementOfSeq
<1>3. Build(q) = f[m]
  BY DEF Build
<1>l. \A k \in 1..m : \A label \in ToSet(Asked(q, k)) : Len(label) <= 63
  BY QueriesAssumption DEF Asked
<1>p. \A k : /\ Start(q, k) = Len(f[k - 1])
             /\ \A n : Place(q, k, n) = Len(Written(f[k - 1], Asked(q, k))[n])
  BY DEF Start, Place
<1> HIDE DEF f, m
<1>4. \A n \in 1..m : Begins(f[n - 1], f[n])
  <2>. TAKE n \in 1..m
  <2>1. f[n - 1] \in Seq(Byte) /\ q[n] \in Request
    BY <1>1, <1>2
  <2>. QED BY <1>1, <2>1, QuestionIs
<1>5. \A k \in 0..m : \A n \in k..m : Begins(f[k], f[n])
  BY <1>0, <1>1, <1>4, StagesBegin
<1>6. \A k \in 0..m : Begins(f[k], f[m])
  <2>1. \A k \in 0..m : m \in k..m
    BY <1>0
  <2>. QED BY <1>5, <2>1
<1>7. /\ 12 <= Len(f[m]) /\ Len(f[0]) = 12
      /\ f[m][5] = High(Len(q)) /\ f[m][6] = Low(Len(q)) /\ \A i \in 7..12 : f[m][i] = 0
  <2>1. /\ Len(f[0]) = 12 /\ f[0][5] = High(Len(q)) /\ f[0][6] = Low(Len(q))
        /\ \A i \in 7..12 : f[0][i] = 0
    BY <1>0, <1>1, BlankIs DEF m
  <2>2. Begins(f[0], f[m]) /\ Len(f[m]) \in Nat
    BY <1>0, <1>1, <1>6
  <2>3. 5 \in 1..12 /\ 6 \in 1..12 /\ \A i \in 7..12 : i \in 1..12
    OBVIOUS
  <2>. QED BY <2>1, <2>2, <2>3 DEF Begins
<1>8. ASSUME NEW k \in 1..m
      PROVE  QuestionLies(f[m], q, k)
  <2> DEFINE labels == Asked(q, k)
             b == f[k - 1]
             w == Written(b, labels)
             e == Len(w[Len(labels)])
  <2>1. b \in Seq(Byte) /\ q[k] \in Request /\ f[k] = AddQuestion(b, q[k]) /\ Begins(f[k], f[m])
    BY <1>1, <1>2, <1>6
  <2>2. AreLabels(labels) /\ labels \in Seq(Seq(Byte)) /\ Len(labels) \in Nat
    <3>1. q[k].qname \in Seq(Byte)
      BY <2>1 DEF Request
    <3>2. AreLabels(labels)
      BY <3>1, LabelsAreLabels DEF Asked
    <3>. QED BY <3>2, LenProperties DEF AreLabels
  <2>3. \A n \in 1..Len(labels) : labels[n] \in Seq(Byte) /\ Len(labels[n]) \in 1..63
    <3>. TAKE n \in 1..Len(labels)
    <3>1. labels[n] \in Seq(Byte) /\ labels[n] # <<>>
      BY <2>2, ElementOfSeq DEF AreLabels
    <3>2. Len(labels[n]) \in Nat /\ Len(labels[n]) # 0
      BY <3>1, LenProperties, EmptySeq
    <3>3. labels[n] \in ToSet(labels)
      <4>1. n \in DOMAIN labels
        BY <2>2, LenProperties
      <4>. QED BY <4>1 DEF ToSet
    <3>4. Len(labels[n]) <= 63
      BY <1>l, <3>3
    <3>5. \A a \in Nat : a # 0 /\ a <= 63 => a \in 1..63
      OBVIOUS
    <3>. QED BY <3>1, <3>2, <3>4, <3>5, Zenon
  <2>4. WithLabels(b, labels) = w[Len(labels)]
    BY DEF WithLabels
  <2>a. labels = LabelsOf(q[k].qname)
    BY DEF Asked
  <2>5. /\ w[Len(labels)] \in Seq(Byte) /\ w[0] = b
        /\ \A n \in 0..Len(labels) : n <= Len(w[n]) /\ Len(w[n]) \in Nat
        /\ \A n \in 1..Len(labels) :
             /\ LabelLies(w[Len(labels)], Len(w[n - 1]), labels[n])
             /\ Len(w[n]) = (Len(w[n - 1]) + 1) + Len(labels[n])
    <3>1. Len(labels) \in 0..Len(labels)
      BY <2>2
    <3> HIDE DEF labels, b
    <3>. QED BY <2>1, <2>2, <2>4, <3>1, LabelsLie, WrittenIs
  <2>6. /\ f[k] \in Seq(Byte) /\ e \in Nat /\ Len(f[k]) = e + 5 /\ Begins(w[Len(labels)], f[k])
        /\ f[k][e + 1] = Terminator
        /\ f[k][e + 2] = High(q[k].qtype) /\ f[k][e + 3] = Low(q[k].qtype)
        /\ f[k][e + 4] = High(q[k].class_code) /\ f[k][e + 5] = Low(q[k].class_code)
    <3> HIDE DEF labels, b
    <3>1. PICK c, v, u : c = q[k] /\ v = w[Len(labels)] /\ u = f[k]
      OBVIOUS
    <3>2. c \in Request /\ v = WithLabels(b, LabelsOf(c.qname)) /\ u = AddQuestion(b, c)
      BY <2>1, <2>a, <2>4, <3>1
    <3>3. /\ u \in Seq(Byte) /\ Len(v) \in Nat /\ Len(u) = Len(v) + 5 /\ Begins(v, u)
          /\ u[Len(v) + 1] = Terminator
          /\ u[Len(v) + 2] = High(c.qtype) /\ u[Len(v) + 3] = Low(c.qtype)
          /\ u[Len(v) + 4] = High(c.class_code) /\ u[Len(v) + 5] = Low(c.class_code)
      BY <2>1, <3>2, QuestionIs
    <3> HIDE DEF w
    <3>. QED BY <3>1, <3>3
  <2>p. /\ Start(q, k) = Len(b) /\ Start(q, k + 1) = Len(f[k])
        /\ \A n : Place(q, k, n) = Len(w[n])
    <3>1. (k + 1) - 1 = k
      OBVIOUS
    <3>. QED BY <1>p, <3>1
  <2> HIDE DEF labels, b, w
  <2>7. f[m] \in Seq(Byte) /\ Len(f[m]) \in Nat
    BY <1>0, <1>1
  <2>8. \A n \in 1..Len(labels) : LabelLies(f[m], Len(w[n - 1]), labels[n])
    <3>. TAKE n \in 1..Len(labels)
    <3>0. PICK v, u, b1, l : v = w[Len(labels)] /\ u = f[k] /\ b1 = Len(w[n - 1]) /\ l = labels[n]
      OBVIOUS
    <3>a. v \in Seq(Byte) /\ u \in Seq(Byte) /\ Begins(v, u) /\ Len(l) \in Nat /\ LabelLies(v, b1, l)
      <4>1. v \in Seq(Byte) /\ u \in Seq(Byte) /\ Begins(v, u)
        BY <2>5, <2>6, <3>0, Zenon
      <4>2. Len(l) \in 1..63 /\ LabelLies(v, b1, l)
        BY <2>3, <2>5, <3>0, Zenon
      <4>3. Len(l) \in Nat
        BY <4>2
      <4>. QED BY <4>1, <4>2, <4>3, Zenon
    <3>1. LabelLies(f[k], Len(w[n - 1]), labels[n])
      BY <3>0, <3>a, LiesOn
    <3>. QED BY <2>1, <2>3, <2>6, <2>7, <3>1, LiesOn
  <2>9. /\ e + 5 <= Len(f[m]) /\ f[m][e + 1] = Terminator
        /\ f[m][e + 2] = High(q[k].qtype) /\ f[m][e + 3] = Low(q[k].qtype)
        /\ f[m][e + 4] = High(q[k].class_code) /\ f[m][e + 5] = Low(q[k].class_code)
    <3>1. \A i \in 1..5 : e + i \in 1..Len(f[k])
      BY <2>6
    <3>2. 1 \in 1..5 /\ 2 \in 1..5 /\ 3 \in 1..5 /\ 4 \in 1..5 /\ 5 \in 1..5
      OBVIOUS
    <3>3. Len(f[k]) <= Len(f[m]) /\ \A i \in 1..Len(f[k]) : f[m][i] = f[k][i]
      BY <2>1 DEF Begins
    <3>4. \A i \in 1..5 : f[m][e + i] = f[k][e + i]
      BY <3>1, <3>3
    <3>. QED BY <2>6, <3>2, <3>3, <3>4
  <2>10. Start(q, k) = Place(q, k, 0) /\ Start(q, k + 1) = e + 5
    BY <2>5, <2>6, <2>p
  <2>11. Asked(q, k) = labels /\ e = Place(q, k, Len(labels))
    BY <2>p DEF labels
  <2> HIDE DEF e
  <2>. QED BY <2>2, <2>3, <2>5, <2>8, <2>9, <2>10, <2>11, <2>p DEF QuestionLies
<1>9. Start(q, 1) = 12
  <2>1. 1 - 1 = 0
    OBVIOUS
  <2>. QED BY <1>7, <1>p, <2>1
<1>. QED BY <1>3, <1>7, <1>8, <1>9 DEF m

-----------------------------------------------------------------------------
(* Bounds *)

\* An item that is being parsed is one the header announced.
Busy == pc \in {"name", "fields"} => left > 0

\* What has been read of an item: fewer fields than make a question, or at
\* most those in front of a record's RDATA, the last of them RDLENGTH.
Shape ==
  /\ pc = "name" => fields = <<>>
  /\ pc = "fields" =>
       /\ fields \in Seq(Seq(Byte))
       /\ Len(fields) <= (IF section = 1 THEN 1 ELSE 4)
       /\ Len(fields) = 4 => Len(fields[4]) = 2

\* What every run of parse_qname's loop keeps, whoever called it.
Bounded == TypeOK /\ ReadsInBounds

\* The inductive invariant: a read of RDLENGTH or RDATA stays inside only
\* because the fields in front of it have the widths they are read with.
IInv == Bounded /\ Busy /\ Shape

-----------------------------------------------------------------------------
\* Reading the datagram yields bytes.
LEMMA Bytes ==
  ASSUME buf \in Seq(Byte), NEW i \in Nat
  PROVE  ByteAt(i) \in Byte
<1>1. CASE i < size
  <2>1. i + 1 \in 1..Len(buf)
    BY <1>1 DEF size
  <2> QED
    BY <1>1, <2>1 DEF ByteAt
<1>2. CASE ~(i < size)
  BY <1>2 DEF ByteAt, Byte
<1> QED
  BY <1>1, <1>2

\* A section count is a number (read_u16_be).
LEMMA Counts ==
  ASSUME buf \in Seq(Byte), NEW s \in 1..4
  PROVE  SectionCount(s) \in Nat
<1>1. ByteAt(2 + 2 * s) \in 0..255 /\ ByteAt(2 + 2 * s + 1) \in 0..255
  <2>1. 2 + 2 * s \in Nat /\ 2 + 2 * s + 1 \in Nat
    OBVIOUS
  <2> QED
    BY <2>1, Bytes, Zenon DEF Byte
<1>2. \A a, b \in 0..255 : a * 256 + b \in Nat
  OBVIOUS
<1>3. ByteAt(2 + 2 * s) * 256 + ByteAt(2 + 2 * s + 1) \in Nat
  BY <1>1, <1>2
<1> QED
  BY <1>3 DEF SectionCount, U16At

\* So is the target of a pointer.
LEMMA Targets ==
  ASSUME buf \in Seq(Byte), npos \in Nat
  PROVE  PointerTarget \in Nat
<1>1. LabelLen \in 0..255 /\ ByteAt(npos + 1) \in 0..255
  BY Bytes DEF LabelLen, Byte
<1>2. \A a, b \in 0..255 : (a % 64) * 256 + b \in Nat
  OBVIOUS
<1> QED
  BY <1>1, <1>2 DEF PointerTarget

\* And the width of the next field, RDLENGTH included.
LEMMA Wide ==
  ASSUME IInv, pc = "fields"
  PROVE  /\ Width \in Nat
         /\ FieldsRead <=> (section # 1 /\ Len(fields) = 4)
         /\ section # 1 /\ Len(fields) = 3 => Width = 2
<1>1. /\ fields \in Seq(Seq(Byte)) /\ section \in 1..4
      /\ Len(fields) <= (IF section = 1 THEN 1 ELSE 4)
      /\ Len(fields) = 4 => Len(fields[4]) = 2
  BY DEF IInv, Bounded, TypeOK, Shape
<1>2. Len(fields) \in Nat
  BY <1>1
<1>b. (section = 1 => Len(fields) <= 1) /\ (section # 1 => Len(fields) <= 4)
  BY <1>1
<1>3. /\ section = 1 => Widths = <<2, 2>>
      /\ section # 1 => Widths = <<2, 2, 4, 2>>
  BY DEF Widths
<1>4. FieldsRead <=> (section # 1 /\ Len(fields) = 4)
  <2>1. Len(Widths) = IF section = 1 THEN 2 ELSE 4
    BY <1>3
  <2>2. CASE section = 1
    <3>1. Len(fields) # Len(Widths)
      BY <1>b, <1>2, <2>1, <2>2
    <3> QED
      BY <3>1, <2>2, Zenon DEF FieldsRead
  <2>3. CASE section # 1
    <3>1. Len(Widths) = 4
      BY <2>1, <2>3
    <3> QED
      BY <3>1, <2>3, Zenon DEF FieldsRead
  <2> QED
    BY <2>2, <2>3
<1>5. CASE ~FieldsRead
  <2>1. Width = Widths[Len(fields) + 1]
    BY <1>5 DEF Width
  <2>2. CASE section = 1
    <3>1. Len(fields) + 1 \in 1..2
      BY <1>1, <1>2, <2>2
    <3>2. Width = 2
      BY <2>1, <1>3, <2>2, <3>1
    <3> QED
      BY <3>2, <1>4, <2>2
  <2>3. CASE section # 1
    <3>0. Len(fields) <= 4 /\ Len(fields) # 4
      BY <1>b, <1>4, <1>5, <2>3, Zenon
    <3>a. \A n \in Nat : n <= 4 /\ n # 4 => n + 1 \in 1..4
      OBVIOUS
    <3>1. Len(fields) + 1 \in 1..4
      BY <3>0, <3>a, <1>2, Zenon
    <3>2. Width = IF Len(fields) + 1 = 3 THEN 4 ELSE 2
      BY <2>1, <1>3, <2>3, <3>1
    <3>3. Width \in Nat /\ (Len(fields) = 3 => Width = 2)
      BY <3>2, <1>2
    <3> QED
      BY <3>3, <1>4
  <2> QED
    BY <2>2, <2>3
<1>6. CASE FieldsRead
  <2>1. Len(fields) = 4 /\ Len(fields[4]) = 2
    BY <1>1, <1>4, <1>6
  <2>a. 4 \in 1..Len(fields) /\ 1 \in 1..Len(fields[4]) /\ 2 \in 1..Len(fields[4])
    BY <2>1
  <2>2. fields[4] \in Seq(Byte)
    BY <1>1, <2>a, ElementOfSeq, Zenon
  <2>b. fields[4][1] \in Byte /\ fields[4][2] \in Byte
    BY <2>a, <2>2, ElementOfSeq, Zenon
  <2>3. fields[4][1] \in 0..255 /\ fields[4][2] \in 0..255
    BY <2>b DEF Byte
  <2>4. \A a, b \in 0..255 : a * 256 + b \in Nat
    OBVIOUS
  <2>5. RdLength \in Nat
    BY <2>3, <2>4 DEF RdLength
  <2>6. Width = RdLength
    BY <1>6 DEF Width
  <2> QED
    BY <2>5, <2>6, <2>1, <1>4
<1> QED
  BY <1>5, <1>6

-----------------------------------------------------------------------------
\* A throw keeps the invariant as long as what it read was inside.
LEMMA Thrown ==
  ASSUME IInv, NEW reason, Throw(reason), reason # "none",
         reason \in {"header", "item", "unterminated", "loop", "pointer truncated",
                    "pointer outside", "label", "label past end", "field"},
         high' \in Nat, high' <= size
  PROVE  IInv'
<1>1. TypeOK'
  BY DEF IInv, Bounded, TypeOK, Throw, message, names, cursor, size
<1>2. ReadsInBounds'
  BY DEF Throw, message, ReadsInBounds, size
<1>3. Busy' /\ Shape'
  BY DEF Throw, Busy, Shape
<1> QED
  BY <1>1, <1>2, <1>3 DEF IInv, Bounded

\* The highest offset read stays inside when the step reads inside.
LEMMA Read ==
  ASSUME NEW i \in Nat, i <= size, high \in Nat, high <= size, Reading(i)
  PROVE  high' \in Nat /\ high' <= size
BY DEF Reading

\* The decoder starts with the invariant, on any datagram.
LEMMA Initially == Init => IInv
<1> SUFFICES ASSUME Init PROVE IInv
  OBVIOUS
<1>1. buf \in Seq(Byte)
  BY DatagramsAssumption, BuildBytes DEF Init
<1>2. size \in Nat
  BY <1>1 DEF size
<1>3. TypeOK
  <2>1. 0 \in 0..size /\ 1 \in 1..4
    BY <1>2
  <2>2. pc \in {"header", "item", "name", "fields", "done", "throw"}
    BY DEF Init
  <2>3. why = "none" /\ jumped \in BOOLEAN
    BY Zenon DEF Init
  <2> QED
    BY <1>1, <2>1, <2>2, <2>3, Zenon DEF Init, TypeOK
<1>4. ReadsInBounds /\ Busy /\ Shape
  BY <1>2 DEF Init, ReadsInBounds, Busy, Shape
<1> QED
  BY <1>3, <1>4 DEF IInv, Bounded

-----------------------------------------------------------------------------
\* The offsets the decoder holds are numbers inside the datagram.
LEMMA BoundedOffsets ==
  ASSUME Bounded
  PROVE  /\ buf \in Seq(Byte) /\ size \in Nat
         /\ section \in 1..4 /\ left \in Nat
         /\ from \in 0..size /\ pos \in 0..size
         /\ npos \in 0..size /\ consumed \in 0..size /\ loop_count \in 0..size
         /\ high \in Nat /\ high <= size
<1>1. buf \in Seq(Byte)
  BY DEF Bounded, TypeOK
<1>2. size \in Nat
  BY <1>1 DEF size
<1> QED
  BY <1>1, <1>2, Zenon DEF Bounded, TypeOK, ReadsInBounds

\* So they are in decode().
LEMMA Offsets ==
  ASSUME IInv
  PROVE  /\ buf \in Seq(Byte) /\ size \in Nat
         /\ section \in 1..4 /\ left \in Nat
         /\ from \in 0..size /\ pos \in 0..size
         /\ npos \in 0..size /\ consumed \in 0..size /\ loop_count \in 0..size
         /\ high \in Nat /\ high <= size
BY BoundedOffsets DEF IInv

\* What a step that does not throw has to show of the offsets it leaves.
LEMMA Kept ==
  ASSUME Bounded, buf' = buf, why' = why, jumped' \in BOOLEAN,
         pc' \in {"header", "item", "name", "fields", "done", "throw"},
         section' \in 1..4, left' \in Nat,
         from' \in 0..size, pos' \in 0..size,
         npos' \in 0..size, consumed' \in 0..size, loop_count' \in 0..size,
         high' \in Nat, high' <= size
  PROVE  Bounded'
<1>1. size' = size
  BY DEF size
<1>2. TypeOK'
  BY <1>1, Zenon DEF Bounded, TypeOK
<1>3. ReadsInBounds'
  BY <1>1, Zenon DEF ReadsInBounds
<1> QED
  BY <1>2, <1>3 DEF Bounded

\* parse_dns_header leaves the offset behind a header that is there.
LEMMA StepHeader ==
  ASSUME IInv, Header
  PROVE  IInv'
<1>1. size >= 12 /\ pos' = 12 /\ section' = 1 /\ left' = SectionCount(1)
  BY DEF Header, kHeaderSize
<1>2. high' \in Nat /\ high' <= size
  <2>1. 12 \in Nat /\ 12 <= size /\ Reading(12)
    BY <1>1, Offsets DEF Header, kHeaderSize
  <2> QED
    BY <2>1, Offsets, Read
<1>3. left' \in Nat
  BY <1>1, Offsets, Counts
<1>4. pos' \in 0..size /\ section' \in 1..4
  BY <1>1, Offsets
<1>5. jumped' \in BOOLEAN
  BY Zenon DEF Header, names, IInv, Bounded, TypeOK
<1>6. Bounded'
  <2>1. /\ buf' = buf /\ why' = why /\ pc' = "item" /\ from' = from /\ npos' = npos
        /\ consumed' = consumed /\ loop_count' = loop_count
    BY Zenon DEF Header, names, message
  <2> QED
    BY <2>1, <1>2, <1>3, <1>4, <1>5, Offsets, Kept DEF IInv
<1>7. Busy' /\ Shape'
  BY DEF Header, Busy, Shape
<1> QED
  BY <1>6, <1>7 DEF IInv

\* The counts of the next section are read from the header.
LEMMA StepNextSection ==
  ASSUME IInv, NextSection
  PROVE  IInv'
<1>1. /\ buf' = buf /\ why' = why /\ from' = from /\ npos' = npos /\ pos' = pos
      /\ consumed' = consumed /\ loop_count' = loop_count /\ high' = high
      /\ jumped' = jumped
  BY Zenon DEF NextSection, names, message
<1>2. section' \in 1..4 /\ left' \in Nat /\ pc' \in {"item", "done"}
  <2>1. CASE section < 4
    <3>1. section' = section + 1 /\ left' = SectionCount(section + 1) /\ pc' = "item"
      BY <2>1 DEF NextSection
    <3>2. section + 1 \in 1..4
      BY <2>1, Offsets
    <3> QED
      BY <3>1, <3>2, Offsets, Counts
  <2>2. CASE ~(section < 4)
    BY <2>2, Offsets DEF NextSection
  <2> QED
    BY <2>1, <2>2
<1>3. jumped' \in BOOLEAN
  BY <1>1, Zenon DEF IInv, Bounded, TypeOK
<1>4. Bounded'
  BY <1>1, <1>2, <1>3, Offsets, Kept DEF IInv
<1>5. Busy' /\ Shape'
  BY <1>2 DEF Busy, Shape
<1> QED
  BY <1>4, <1>5 DEF IInv

\* parse_qname is entered at an offset inside the datagram.
LEMMA StepStartItem ==
  ASSUME IInv, StartItem
  PROVE  IInv'
<1>1. /\ buf' = buf /\ why' = why /\ from' = pos /\ npos' = pos /\ pos' = pos
      /\ consumed' = pos /\ loop_count' = 0 /\ high' = high /\ pc' = "name"
      /\ section' = section /\ left' = left /\ left > 0
  BY Zenon DEF StartItem, names, message
<1>2. jumped' \in BOOLEAN
  BY Zenon DEF StartItem
<1>3. 0 \in 0..size
  BY Offsets
<1>4. Bounded'
  BY <1>1, <1>2, <1>3, Offsets, Kept DEF IInv
<1>5. Busy' /\ Shape'
  BY <1>1 DEF StartItem, Busy, Shape
<1> QED
  BY <1>4, <1>5 DEF IInv

-----------------------------------------------------------------------------
(* parse_qname.                                                            *)

\* The loop body runs only at an offset inside the datagram, and no more
\* often than the datagram has bytes.
LEMMA Inside ==
  ASSUME Bounded, Iterating
  PROVE  /\ npos + 1 \in 0..size /\ npos \in Nat
         /\ loop_count + 1 \in 0..size
         /\ LabelLen \in 0..255
<1>1. npos < size /\ loop_count + 1 <= size
  BY DEF Iterating, LoopLimit
<1>2. npos \in Nat
  BY BoundedOffsets
<1>3. LabelLen \in 0..255
  BY <1>2, BoundedOffsets, Bytes DEF LabelLen, Byte
<1> QED
  BY <1>1, <1>2, <1>3, BoundedOffsets

\* The end of a name gives an offset inside, jumped or not.
LEMMA StepEndOfName ==
  ASSUME IInv, EndOfName
  PROVE  IInv'
<1>1. /\ buf' = buf /\ why' = why /\ from' = from /\ npos' = npos /\ pc' = "fields"
      /\ section' = section /\ left' = left /\ jumped' = jumped
      /\ loop_count' = loop_count + 1 /\ consumed' = pos'
      /\ pos' = (IF jumped THEN consumed ELSE npos + 1)
      /\ pc = "name" /\ Reading(npos + 1)
  BY Zenon DEF EndOfName, Iterating, message
<1>2. npos + 1 \in 0..size /\ loop_count + 1 \in 0..size
  BY Inside DEF EndOfName, IInv
<1>3. high' \in Nat /\ high' <= size
  <2>1. npos + 1 \in Nat /\ npos + 1 <= size
    BY <1>2, Offsets
  <2> QED
    BY <2>1, <1>1, Offsets, Read
<1>4. pos' \in 0..size
  BY <1>1, <1>2, Offsets, Zenon
<1>5. jumped' \in BOOLEAN
  BY <1>1, Zenon DEF IInv, Bounded, TypeOK
<1>6. Bounded'
  BY <1>1, <1>2, <1>3, <1>4, <1>5, Offsets, Kept DEF IInv
<1>7. Busy'
  BY <1>1 DEF IInv, Busy
<1>8. Shape'
  <2>1. fields' = <<>>
    BY <1>1 DEF EndOfName, IInv, Shape
  <2>2. fields' \in Seq(Seq(Byte)) /\ Len(fields') = 0
    BY <2>1
  <2> QED
    BY <2>2, <1>1 DEF Shape
<1> QED
  BY <1>6, <1>7, <1>8 DEF IInv

\* A pointer that is followed points inside.
LEMMA JumpInside ==
  ASSUME Bounded, Jump
  PROVE  Bounded'
<1>1. /\ buf' = buf /\ why' = why /\ from' = from /\ pos' = pos /\ pc' = pc
      /\ section' = section /\ left' = left /\ jumped' = TRUE
      /\ loop_count' = loop_count + 1 /\ npos' = PointerTarget
      /\ consumed' = (IF jumped THEN consumed ELSE npos + 2)
      /\ npos + 1 < size /\ PointerTarget < size
      /\ pc = "name" /\ Reading(npos + 2)
  BY Zenon DEF Jump, Iterating, message, cursor, PointerFits, TargetInside, AfterPointer
<1>2. npos \in Nat /\ loop_count + 1 \in 0..size
  BY Inside DEF Jump
<1>3. npos + 2 \in 0..size
  BY <1>1, <1>2, BoundedOffsets
<1>4. high' \in Nat /\ high' <= size
  <2>1. npos + 2 \in Nat /\ npos + 2 <= size
    BY <1>3, BoundedOffsets
  <2> QED
    BY <2>1, <1>1, BoundedOffsets, Read
<1>5. npos' \in 0..size
  <2>1. PointerTarget \in Nat
    BY <1>2, BoundedOffsets, Targets
  <2> QED
    BY <2>1, <1>1, BoundedOffsets
<1>6. consumed' \in 0..size
  BY <1>1, <1>3, BoundedOffsets, Zenon
<1>7. jumped' \in BOOLEAN /\ pc' \in {"header", "item", "name", "fields", "done", "throw"}
  BY <1>1
<1> QED
  BY <1>1, <1>2, <1>4, <1>5, <1>6, <1>7, BoundedOffsets, Kept

\* So does decode().
LEMMA StepJump ==
  ASSUME IInv, Jump
  PROVE  IInv'
<1>1. Bounded'
  BY JumpInside DEF IInv
<1>2. left' = left /\ fields' = fields /\ pc = "name" /\ pc' = "name"
  BY DEF Jump, Iterating, cursor
<1>3. Busy' /\ Shape'
  BY <1>2 DEF IInv, Busy, Shape
<1> QED
  BY <1>1, <1>3 DEF IInv

\* A label that is taken lies inside.
LEMMA LabelInside ==
  ASSUME Bounded, Label
  PROVE  Bounded'
<1>1. /\ buf' = buf /\ why' = why /\ from' = from /\ pos' = pos /\ pc' = pc
      /\ section' = section /\ left' = left /\ jumped' = jumped
      /\ loop_count' = loop_count + 1 /\ npos' = npos + 1 + LabelLen
      /\ consumed' = (IF jumped THEN consumed ELSE npos')
      /\ npos + 1 + LabelLen <= size
      /\ pc = "name" /\ Reading(npos + 1 + LabelLen)
  BY Zenon DEF Label, Iterating, message, cursor, LabelFits
<1>2. npos \in Nat /\ loop_count + 1 \in 0..size /\ LabelLen \in 0..255
  BY Inside DEF Label
<1>3. npos + 1 + LabelLen \in 0..size
  BY <1>1, <1>2, BoundedOffsets
<1>4. high' \in Nat /\ high' <= size
  <2>1. npos + 1 + LabelLen \in Nat
    BY <1>2
  <2> QED
    BY <2>1, <1>1, BoundedOffsets, Read
<1>5. consumed' \in 0..size
  BY <1>1, <1>3, BoundedOffsets, Zenon
<1>6. jumped' \in BOOLEAN
  BY <1>1, Zenon DEF Bounded, TypeOK
<1>7. pc' \in {"header", "item", "name", "fields", "done", "throw"}
  BY <1>1
<1> QED
  BY <1>1, <1>2, <1>3, <1>4, <1>5, <1>6, <1>7, BoundedOffsets, Kept

\* So does decode().
LEMMA StepLabel ==
  ASSUME IInv, Label
  PROVE  IInv'
<1>1. Bounded'
  BY LabelInside DEF IInv
<1>2. left' = left /\ fields' = fields /\ pc = "name" /\ pc' = "name"
  BY DEF Label, Iterating, cursor
<1>3. Busy' /\ Shape'
  BY <1>2 DEF IInv, Busy, Shape
<1> QED
  BY <1>1, <1>3 DEF IInv

\* A name ends or is refused; a refusal has read inside the datagram too.
LEMMA StepName ==
  ASSUME IInv, Name
  PROVE  IInv'
<1>1. CASE Unterminated
  BY <1>1, Offsets, Thrown DEF Unterminated
<1>2. CASE Runaway
  BY <1>2, Offsets, Thrown DEF Runaway
<1>3. CASE Iterating /\ Reading(npos + 1) /\ (PointerTruncated \/ BadLabel \/ LabelPastEnd)
  <2>1. npos + 1 \in Nat /\ npos + 1 <= size
    BY <1>3, Inside, Offsets DEF IInv
  <2>2. high' \in Nat /\ high' <= size
    BY <2>1, <1>3, Offsets, Read
  <2> QED
    BY <1>3, <2>2, Thrown DEF PointerTruncated, BadLabel, LabelPastEnd
<1>4. CASE PointerOutside
  <2>0. npos + 1 < size /\ Reading(npos + 2)
    BY <1>4, Zenon DEF PointerOutside, PointerFits
  <2>1. npos \in Nat /\ npos + 1 < size /\ Reading(npos + 2)
    BY <2>0, Offsets
  <2>2. npos + 2 \in Nat /\ npos + 2 <= size
    BY <2>1, Offsets
  <2>3. high' \in Nat /\ high' <= size
    BY <2>1, <2>2, Offsets, Read
  <2> QED
    BY <1>4, <2>3, Thrown DEF PointerOutside
<1>5. CASE EndOfName \/ Jump \/ Label
  BY <1>5, StepEndOfName, StepJump, StepLabel
<1> QED
  BY <1>1, <1>2, <1>3, <1>4, <1>5, Zenon
     DEF Name, PointerTruncated, BadLabel, LabelPastEnd

-----------------------------------------------------------------------------
(* The fields, the section loops and the whole of decode().                *)

\* Reading a field of the width it has leaves the fields in their shape.
LEMMA FieldShape ==
  ASSUME IInv, Field, pc' = "fields"
  PROVE  Shape'
<1>1. pc = "fields" /\ fields' = Append(fields, SubSeq(buf, pos + 1, pos + Width))
      /\ pos + Width <= size /\ section' = section
  BY DEF Field, Readable
<1>2. ~FieldsRead /\ ~(section = 1 /\ Len(fields) = 1)
  BY DEF Field, ItemDone
<1>3. /\ fields \in Seq(Seq(Byte)) /\ Len(fields) \in Nat
      /\ (section = 1 => Len(fields) <= 1) /\ (section # 1 => Len(fields) <= 4)
  BY <1>1 DEF IInv, Shape
<1>4. Width \in Nat /\ (section # 1 /\ Len(fields) = 3 => Width = 2)
      /\ (FieldsRead <=> (section # 1 /\ Len(fields) = 4))
  BY <1>1, Wide
<1>5. pos \in Nat /\ buf \in Seq(Byte)
  BY Offsets
<1>6. pos + Width \in Nat /\ pos + Width <= Len(buf)
  BY <1>1, <1>4, <1>5 DEF size
<1> DEFINE field == SubSeq(buf, pos + 1, pos + Width)
<1>7. field \in Seq(Byte) /\ Len(field) = Width
  BY <1>4, <1>5, <1>6, SubSeqProperties
<1>8. fields' = Append(fields, field)
  BY <1>1
<1> HIDE DEF field
<1>9. /\ fields' \in Seq(Seq(Byte)) /\ Len(fields') = Len(fields) + 1
      /\ fields'[Len(fields) + 1] = field
  BY <1>3, <1>7, <1>8, AppendProperties, Zenon
<1>10. Len(fields') <= (IF section' = 1 THEN 1 ELSE 4)
  <2>1. CASE section = 1
    <3>1. \A n \in Nat : n <= 1 /\ n # 1 => n + 1 <= 1
      OBVIOUS
    <3>2. Len(fields') <= 1
      BY <3>1, <2>1, <1>2, <1>3, <1>9, Zenon
    <3> QED
      BY <3>2, <2>1, <1>1
  <2>2. CASE section # 1
    <3>1. Len(fields) # 4
      BY <2>2, <1>2, <1>4
    <3>2. \A n \in Nat : n <= 4 /\ n # 4 => n + 1 <= 4
      OBVIOUS
    <3>3. Len(fields') <= 4
      BY <3>1, <3>2, <2>2, <1>3, <1>9, Zenon
    <3> QED
      BY <3>3, <2>2, <1>1
  <2> QED
    BY <2>1, <2>2
<1>11. Len(fields') = 4 => Len(fields'[4]) = 2
  <2>1. SUFFICES ASSUME Len(fields') = 4 PROVE Len(fields'[4]) = 2
    OBVIOUS
  <2>a. \A n \in Nat : n + 1 = 4 => n = 3
    OBVIOUS
  <2>2. Len(fields) = 3
    BY <2>a, <2>1, <1>3, <1>9, Zenon
  <2>3. section # 1
    BY <2>2, <1>3
  <2>4. fields'[4] = field
    BY <2>2, <1>9
  <2> QED
    BY <2>2, <2>3, <2>4, <1>4, <1>7, Zenon
<1> QED
  BY <1>9, <1>10, <1>11 DEF Shape

\* A field that is read lies inside, and has the width the code reads.
LEMMA StepField ==
  ASSUME IInv, Field
  PROVE  IInv'
<1>1. /\ buf' = buf /\ why' = why /\ from' = from /\ npos' = npos
      /\ section' = section /\ jumped' = jumped /\ consumed' = consumed
      /\ loop_count' = loop_count /\ pos' = pos + Width
      /\ pc = "fields" /\ pos + Width <= size /\ Reading(pos + Width)
  BY Zenon DEF Field, names, Readable
<1>2. (left' = left - 1 /\ pc' = "item") \/ (left' = left /\ pc' = pc)
  BY Zenon DEF Field, ItemDone
<1>3. left > 0
  BY <1>1 DEF IInv, Busy
<1>4. left' \in Nat
  BY <1>2, <1>3, Offsets
<1>5. pos + Width \in 0..size /\ pos + Width \in Nat
  <2>1. Width \in Nat
    BY <1>1, Wide
  <2> QED
    BY <2>1, <1>1, Offsets
<1>6. high' \in Nat /\ high' <= size
  BY <1>1, <1>5, Offsets, Read
<1>7. pc' \in {"header", "item", "name", "fields", "done", "throw"}
  BY <1>1, <1>2
<1>8. jumped' \in BOOLEAN
  BY <1>1, Zenon DEF IInv, Bounded, TypeOK
<1>9. Bounded'
  BY <1>1, <1>4, <1>5, <1>6, <1>7, <1>8, Offsets, Kept DEF IInv
<1>10. Busy'
  BY <1>1, <1>2, <1>3 DEF Busy
<1>11. Shape'
  <2>1. CASE pc' = "fields"
    BY <2>1, FieldShape
  <2>2. CASE pc' = "item"
    BY <2>2 DEF Shape
  <2> QED
    BY <1>1, <1>2, <2>1, <2>2
<1> QED
  BY <1>9, <1>10, <1>11 DEF IInv

\* A step that changes nothing keeps the invariant.
LEMMA Stutter ==
  ASSUME IInv, UNCHANGED vars
  PROVE  IInv'
<1>1. /\ buf' = buf /\ pc' = pc /\ why' = why /\ section' = section /\ left' = left
      /\ from' = from /\ pos' = pos /\ npos' = npos /\ consumed' = consumed
      /\ jumped' = jumped /\ loop_count' = loop_count /\ fields' = fields
      /\ high' = high
  BY Zenon DEF vars, message, names, cursor
<1>2. /\ pc' \in {"header", "item", "name", "fields", "done", "throw"}
      /\ jumped' \in BOOLEAN
  BY <1>1, Zenon DEF IInv, Bounded, TypeOK
<1>3. Bounded'
  BY <1>1, <1>2, Offsets, Kept, Zenon DEF IInv
<1>4. Busy'
  BY <1>1, Zenon DEF IInv, Busy
<1>5. Shape'
  BY <1>1, Zenon DEF IInv, Shape
<1> QED
  BY <1>3, <1>4, <1>5, Zenon DEF IInv

\* No step of decode() breaks the invariant.
LEMMA StepKeeps ==
  ASSUME IInv, [Next]_vars
  PROVE  IInv'
<1>1. CASE ShortHeader \/ ItemPastEnd \/ FieldPastEnd
  BY <1>1, Offsets, Thrown DEF ShortHeader, ItemPastEnd, FieldPastEnd
<1>2. CASE Header \/ NextSection \/ StartItem
  BY <1>2, StepHeader, StepNextSection, StepStartItem
<1>3. CASE Name
  BY <1>3, StepName
<1>4. CASE Field
  BY <1>4, StepField
<1>5. CASE UNCHANGED vars
  BY <1>5, Stutter
<1> QED
  BY <1>1, <1>2, <1>3, <1>4, <1>5 DEF Next

\* decode() keeps every offset inside the datagram and every name within as
\* many iterations as the datagram has bytes (TypeOK), and reads no byte
\* outside the datagram, whatever the datagram holds (ReadsInBounds).
THEOREM Inductive == Spec => []IInv
BY Initially, StepKeeps, PTL DEF Spec

\* Every offset decode() and parse_qname hold lies inside the datagram.
THEOREM OffsetsInside == Spec => []TypeOK
<1>1. IInv => TypeOK
  BY DEF IInv, Bounded
<1> QED
  BY Inductive, <1>1, PTL

\* No datagram makes the decoder read a byte outside it.
THEOREM NoReadOutside == Spec => []ReadsInBounds
<1>1. IInv => ReadsInBounds
  BY DEF IInv, Bounded
<1> QED
  BY Inductive, <1>1, PTL

-----------------------------------------------------------------------------
(* What is read is what the datagram says: the invariant *)

\* parse_qname, entered at p, has gone through loop_count offsets of the chain
\* from p and is at the next; `consumed' is behind the first pointer, if any.
WalksFrom(p) ==
  LET at == Chain(p)
  IN  /\ npos = at[loop_count + 1] /\ name = Texts(p)[loop_count]
      /\ \A i \in 1..loop_count : Moves(at[i])
      /\ jumped => \E k \in 1..loop_count :
           /\ PointerAt(at[k]) /\ consumed = at[k] + 2
           /\ \A i \in 1..(k - 1) : ~PointerAt(at[i])
      /\ ~jumped => /\ consumed = npos
                    /\ \A i \in 1..loop_count : ~PointerAt(at[i])

NameSoFar == pc = "name" => WalksFrom(from)

\* The name has been read, and the fields read so far lie behind it.
FieldStart(e, n) == e + <<0, 2, 4, 8, 10>>[n]
FieldsSoFar ==
  pc = "fields" =>
    LET e == NameEnd(from)
    IN  /\ Ends(from) /\ name = TextAt(from) /\ e \in Nat
        /\ pos = FieldStart(e, Len(fields) + 1)
        /\ \A k \in 1..Len(fields) : fields[k] = BytesAt(FieldStart(e, k), <<2, 2, 4, 2>>[k])

\* A loop is a loop, and the exception is the last thing that happens.
Looped == (why = "loop" => Cyclic(from)) /\ (why # "none" => pc = "throw")

Items == msg[1] \o msg[2] \o msg[3] \o msg[4]
EndOf(items) == IF items = <<>> THEN kHeaderSize ELSE items[Len(items)].to
Contiguous(items) ==
  \A k \in 1..Len(items) :
    items[k].from = IF k = 1 THEN kHeaderSize ELSE items[k - 1].to

Item == [from : Nat, to : Nat, name : Seq(Byte), fields : Seq(Seq(Byte))]

ItemsAreWire ==
  /\ msg \in [1..4 -> Seq(Item)]
  /\ \A s \in 1..4 : \A k \in 1..Len(msg[s]) : IsWire(s, msg[s][k])
  /\ \A s \in 1..4 : \A k \in 1..Len(msg[s]) : msg[s][k].to <= size
  /\ Contiguous(Items)

\* The sections before the one being parsed are complete and those behind it
\* are empty; the item being parsed, or the next one, starts where the last
\* one ended.
Complete(s) == Len(msg[s]) = SectionCount(s)
Progress ==
  /\ pc = "header" => \A s \in 1..4 : msg[s] = <<>>
  /\ pc \in {"item", "name", "fields"} =>
       /\ \A s \in 1..4 : s < section => Complete(s)
       /\ \A s \in 1..4 : s > section => msg[s] = <<>>
       /\ Len(msg[section]) + left = SectionCount(section)
  /\ pc = "done" => \A s \in 1..4 : Complete(s)
  /\ pc \in {"item", "done"} => pos = EndOf(Items)
  /\ pc \in {"name", "fields"} => from = EndOf(Items)

\* The inductive invariant.
WInv ==
  /\ IInv /\ name \in Seq(Byte)
  /\ NameSoFar /\ FieldsSoFar /\ Looped /\ ItemsAreWire /\ Progress


-----------------------------------------------------------------------------
(* The reference reading: its recursive definitions have solutions *)

\* c is the first m offsets from p.
IsChain(c, p, m) ==
  c = [n \in 1..m |-> IF n = 1 THEN p ELSE Hop(c[n - 1])]

\* The chain of any length exists.
LEMMA ChainExists ==
  ASSUME NEW p, NEW m \in Nat
  PROVE  \E c : IsChain(c, p, m)
<1> DEFINE T == {k \in Nat : ~\E c : IsChain(c, p, k)}
<1>. SUFFICES ASSUME T # {} PROVE FALSE
  OBVIOUS
<1>1. PICK k \in T : \A j \in T : k <= j
  BY LeastNatural
<1>2. CASE k = 0
  <2>1. IsChain([n \in 1..0 |-> p], p, 0)
    BY DEF IsChain
  <2>. QED BY <1>2, <2>1
<1>3. CASE k # 0
  <2>1. k - 1 \in Nat /\ k - 1 \notin T
    BY <1>1, <1>3
  <2>2. PICK g : IsChain(g, p, k - 1)
    BY <2>1
  <2> DEFINE c == [n \in 1..k |-> IF n = 1 THEN p ELSE Hop(g[n - 1])]
  <2>3. ASSUME NEW n \in 1..k
        PROVE  c[n] = IF n = 1 THEN p ELSE Hop(c[n - 1])
    <3>1. CASE n # 1
      <4>1. n - 1 \in 1..(k - 1) /\ n - 1 \in 1..k
        BY <2>1, <3>1
      <4>2. g[n - 1] = IF n - 1 = 1 THEN p ELSE Hop(g[(n - 1) - 1])
        BY <2>2, <4>1 DEF IsChain
      <4>3. c[n - 1] = g[n - 1]
        BY <4>1, <4>2
      <4>. QED BY <3>1, <4>3
    <3>. QED BY <3>1
  <2>4. IsChain(c, p, k)
    BY <2>3 DEF IsChain
  <2>. QED BY <1>1, <2>4
<1>. QED BY <1>2, <1>3

\* The chain from p, offset by offset.
LEMMA ChainSteps ==
  ASSUME size \in Nat, NEW p
  PROVE  /\ DOMAIN Chain(p) = 1..(size + 1) /\ Len(Chain(p)) = size + 1
         /\ Last(Chain(p)) = Chain(p)[size + 1]
         /\ Chain(p)[1] = p
         /\ \A n \in 1..size : Chain(p)[n + 1] = Hop(Chain(p)[n])
<1> DEFINE c == CHOOSE d : IsChain(d, p, size + 1)
<1>1. IsChain(c, p, size + 1)
  BY ChainExists
<1>2. Chain(p) = c
  BY DEF Chain, IsChain
<1> HIDE DEF c
<1>3. /\ DOMAIN c = 1..(size + 1)
      /\ c = [n \in 1..(size + 1) |-> c[n]]
      /\ c[1] = p /\ \A n \in 1..size : c[n + 1] = Hop(c[n])
  BY <1>1 DEF IsChain
<1>4. Len(c) = size + 1
  <2> DEFINE S == {c[n] : n \in 1..(size + 1)}
  <2>1. c \in [1..(size + 1) -> S]
    BY <1>3
  <2>2. c \in Seq(S)
    BY <2>1, SeqDef
  <2>3. DOMAIN c = 1..Len(c) /\ Len(c) \in Nat
    BY <2>2, LenProperties
  <2>. QED BY <1>3, <2>3
<1>. QED BY <1>2, <1>3, <1>4 DEF Last

\* t is the text after each of the first m offsets of c.
TextAfter(c, n, text) == IF LabelAt(c[n]) THEN Dotted(text, LabelText(c[n])) ELSE text
AreTexts(t, c, m) ==
  t = [n \in 0..m |-> IF n = 0 THEN <<>> ELSE TextAfter(c, n, t[n - 1])]

\* The texts along any chain exist.
LEMMA TextsExist ==
  ASSUME NEW c, NEW m \in Nat
  PROVE  \E t : AreTexts(t, c, m)
<1> DEFINE T == {k \in Nat : ~\E t : AreTexts(t, c, k)}
<1>. SUFFICES ASSUME T # {} PROVE FALSE
  OBVIOUS
<1>1. PICK k \in T : \A j \in T : k <= j
  BY LeastNatural
<1>2. CASE k = 0
  <2>1. AreTexts([n \in 0..0 |-> <<>>], c, 0)
    BY DEF AreTexts
  <2>. QED BY <1>2, <2>1
<1>3. CASE k # 0
  <2>1. k - 1 \in Nat /\ k - 1 \notin T
    BY <1>1, <1>3
  <2>2. PICK g : AreTexts(g, c, k - 1)
    BY <2>1
  <2> DEFINE t == [n \in 0..k |-> IF n = 0 THEN <<>> ELSE TextAfter(c, n, g[n - 1])]
  <2>3. ASSUME NEW n \in 0..k
        PROVE  t[n] = IF n = 0 THEN <<>> ELSE TextAfter(c, n, t[n - 1])
    <3>1. CASE n # 0
      <4>1. n - 1 \in 0..(k - 1) /\ n - 1 \in 0..k
        BY <2>1, <3>1
      <4>2. g[n - 1] = IF n - 1 = 0 THEN <<>> ELSE TextAfter(c, n - 1, g[(n - 1) - 1])
        BY <2>2, <4>1 DEF AreTexts
      <4>3. t[n - 1] = g[n - 1]
        BY <4>1, <4>2
      <4>. QED BY <3>1, <4>3
    <3>. QED BY <3>1
  <2>4. AreTexts(t, c, k)
    BY <2>3 DEF AreTexts
  <2>. QED BY <1>1, <2>4
<1>. QED BY <1>2, <1>3

\* The texts of the name at p, label by label.
LEMMA TextSteps ==
  ASSUME size \in Nat, NEW p
  PROVE  /\ Texts(p)[0] = <<>>
         /\ \A n \in 1..(size + 1) :
              Texts(p)[n] = IF LabelAt(Chain(p)[n])
                            THEN Dotted(Texts(p)[n - 1], LabelText(Chain(p)[n]))
                            ELSE Texts(p)[n - 1]
<1> DEFINE c == Chain(p)
           t == CHOOSE s : AreTexts(s, c, size + 1)
<1>1. AreTexts(t, c, size + 1)
  BY TextsExist
<1>2. Texts(p) = t
  BY DEF Texts, AreTexts, TextAfter
<1> HIDE DEF c, t
<1>3. /\ t[0] = <<>>
      /\ \A n \in 1..(size + 1) : t[n] = IF LabelAt(c[n]) THEN Dotted(t[n - 1], LabelText(c[n]))
                                         ELSE t[n - 1]
  BY <1>1 DEF AreTexts, TextAfter
<1>. QED BY <1>2, <1>3 DEF c

\* The reference reading looks at the datagram and at nothing else.
LEMMA SameDatagram ==
  ASSUME buf' = buf
  PROVE  /\ size' = size
         /\ \A p : /\ Chain(p)' = Chain(p) /\ Texts(p)' = Texts(p)
                   /\ NameEnd(p)' = NameEnd(p) /\ TextAt(p)' = TextAt(p)
                   /\ Ends(p)' = Ends(p) /\ Cyclic(p)' = Cyclic(p)
                   /\ Moves(p)' = Moves(p) /\ PointerAt(p)' = PointerAt(p)
         /\ \A s, e : FieldsAt(s, e)' = FieldsAt(s, e) /\ FieldsEnd(s, e)' = FieldsEnd(s, e)
         /\ \A e, n : BytesAt(e, n)' = BytesAt(e, n)
         /\ \A s : SectionCount(s)' = SectionCount(s)
<1>1. size' = size
  BY DEF size
<1>2. \A p : ByteAt(p)' = ByteAt(p)
  BY <1>1 DEF ByteAt
<1>3. \A p : /\ PointerAt(p)' = PointerAt(p) /\ Pointee(p)' = Pointee(p)
             /\ LabelAt(p)' = LabelAt(p) /\ EndAt(p)' = EndAt(p)
  BY <1>1, <1>2 DEF PointerAt, Pointee, LabelAt, EndAt
<1>4. \A p : Hop(p)' = Hop(p) /\ Moves(p)' = Moves(p)
  BY <1>2, <1>3 DEF Hop, Moves
<1>5. \A p : Chain(p)' = Chain(p)
  BY <1>1, <1>4 DEF Chain
<1>6. \A e, n : BytesAt(e, n)' = BytesAt(e, n)
  BY DEF BytesAt
<1>7. \A p : LabelText(p)' = LabelText(p)
  BY <1>2, <1>6 DEF LabelText
<1>8. \A p : Texts(p)' = Texts(p)
  BY <1>1, <1>3, <1>5, <1>7 DEF Texts
<1>9. \A p : TextAt(p)' = TextAt(p)
  BY <1>1, <1>8 DEF TextAt
<1>10. \A p : Ends(p)' = Ends(p) /\ Cyclic(p)' = Cyclic(p)
  BY <1>1, <1>3, <1>4, <1>5 DEF Ends, Cyclic
<1>11. \A p : NameEnd(p)' = NameEnd(p)
  BY <1>3, <1>5 DEF NameEnd, SelectInSeq
<1>12. \A e : U16At(e)' = U16At(e)
  BY <1>2 DEF U16At
<1>13. \A s, e : FieldsAt(s, e)' = FieldsAt(s, e) /\ FieldsEnd(s, e)' = FieldsEnd(s, e)
  BY <1>6, <1>12 DEF FieldsAt, FieldsEnd
<1>14. \A s : SectionCount(s)' = SectionCount(s)
  BY <1>12 DEF SectionCount
<1>. QED BY <1>1, <1>3, <1>4, <1>5, <1>6, <1>8, <1>9, <1>10, <1>11, <1>13, <1>14

\* The name at p stops behind the first pointer or terminator of its chain.
LEMMA NameStops ==
  ASSUME size \in Nat, NEW p, NEW k \in 1..(size + 1),
         PointerAt(Chain(p)[k]) \/ EndAt(Chain(p)[k]),
         \A i \in 1..(k - 1) : ~PointerAt(Chain(p)[i]) /\ ~EndAt(Chain(p)[i])
  PROVE  NameEnd(p) = Chain(p)[k] + (IF PointerAt(Chain(p)[k]) THEN 2 ELSE 1)
<1> DEFINE c == Chain(p)
           I == {i \in 1..Len(c) : PointerAt(c[i]) \/ EndAt(c[i])}
<1>1. Len(c) = size + 1
  BY ChainSteps
<1>2. k \in I /\ I \subseteq Int /\ \A i \in I : k <= i
  BY <1>1
<1>3. SelectInSeq(c, LAMBDA o : PointerAt(o) \/ EndAt(o)) = IF I # {} THEN Min(I) ELSE 0
  BY DEF SelectInSeq
<1> HIDE DEF I
<1>4. Min(I) = k
  <2>1. \A x \in I : (\A y \in I : x <= y) => x = k
    BY <1>2
  <2>. QED BY <1>2, <2>1 DEF Min
<1>. QED BY <1>2, <1>3, <1>4 DEF NameEnd

-----------------------------------------------------------------------------
(* Where a chain ends, and where it does not *)

\* Each place in a name is of one kind.
LEMMA Kinds ==
  ASSUME NEW o
  PROVE  /\ EndAt(o) => ~Moves(o) /\ ~PointerAt(o) /\ ~LabelAt(o) /\ Hop(o) = o
         /\ PointerAt(o) => Hop(o) = Pointee(o) /\ ~LabelAt(o)
         /\ LabelAt(o) => Hop(o) = o + 1 + ByteAt(o) /\ ~PointerAt(o)
<1>1. EndAt(o) => ~PointerAt(o) /\ ~LabelAt(o)
  BY DEF EndAt, PointerAt, LabelAt, Terminator
<1>2. LabelAt(o) => ~PointerAt(o)
  BY DEF LabelAt, PointerAt
<1>. QED BY <1>1, <1>2 DEF Hop, Moves

\* A chain of offsets is a chain of numbers.
LEMMA ChainType ==
  ASSUME buf \in Seq(Byte), NEW p \in Nat
  PROVE  \A n \in 1..(size + 1) : Chain(p)[n] \in Nat
<1> DEFINE c == Chain(p)
           T == {n \in 1..(size + 1) : c[n] \notin Nat}
<1>0. size \in Nat
  BY DEF size
<1>1. c[1] = p /\ \A n \in 1..size : c[n + 1] = Hop(c[n])
  BY <1>0, ChainSteps
<1>2. ASSUME NEW o \in Nat PROVE Hop(o) \in Nat
  <2>1. ByteAt(o) \in 0..255 /\ ByteAt(o + 1) \in 0..255
    BY Bytes DEF Byte
  <2>2. \A a, b \in 0..255 : a >= 192 => (a - 192) * 256 + b \in Nat
    OBVIOUS
  <2>3. PointerAt(o) => Pointee(o) \in Nat
    BY <2>1, <2>2 DEF PointerAt, Pointee
  <2>4. \A a \in Nat, b \in 0..255 : a + 1 + b \in Nat
    OBVIOUS
  <2>5. o + 1 + ByteAt(o) \in Nat
    BY <2>1, <2>4
  <2>. QED BY <2>3, <2>5 DEF Hop
<1> HIDE DEF c
<1>. SUFFICES ASSUME T # {} PROVE FALSE
  BY DEF c
<1>3. PICK n \in T : \A k \in T : n <= k
  <2>1. T \subseteq Nat
    BY <1>0
  <2>. QED BY <2>1, LeastNatural
<1>4. n # 1
  BY <1>1, <1>3
<1>5. n - 1 \in 1..size /\ n - 1 \in 1..(size + 1) /\ (n - 1) + 1 = n /\ n - 1 < n
  BY <1>0, <1>3, <1>4
<1>6. c[n - 1] \in Nat
  BY <1>3, <1>5
<1>. QED BY <1>1, <1>2, <1>3, <1>5, <1>6

\* A reader who has come to the terminator, or to what is no name, stays there
\* and reads no more.
LEMMA EndStays ==
  ASSUME size \in Nat, NEW p, NEW k \in 1..(size + 1), ~Moves(Chain(p)[k])
  PROVE  \A n \in k..(size + 1) : /\ Chain(p)[n] = Chain(p)[k]
                                  /\ Texts(p)[n] = Texts(p)[k - 1]
<1> DEFINE c == Chain(p)
           t == Texts(p)
           T == {n \in k..(size + 1) : ~(c[n] = c[k] /\ t[n] = t[k - 1])}
<1>1. /\ \A n \in 1..size : c[n + 1] = Hop(c[n])
      /\ \A n \in 1..(size + 1) : ~LabelAt(c[n]) => t[n] = t[n - 1]
  BY ChainSteps, TextSteps
<1>2. Hop(c[k]) = c[k] /\ ~LabelAt(c[k])
  BY DEF Hop, Moves
<1> HIDE DEF c, t
<1>. SUFFICES ASSUME T # {} PROVE FALSE
  BY DEF c, t
<1>3. PICK n \in T : \A m \in T : n <= m
  <2>1. T \subseteq Nat
    OBVIOUS
  <2>. QED BY <2>1, LeastNatural
<1>4. n # k
  BY <1>1, <1>2, <1>3
<1>5. /\ n - 1 \in 1..size /\ n - 1 \in k..(size + 1) /\ (n - 1) + 1 = n
      /\ n - 1 < n /\ n \in 1..(size + 1)
  BY <1>3, <1>4
<1>6. c[n - 1] = c[k] /\ t[n - 1] = t[k - 1]
  BY <1>3, <1>5
<1>7. c[n] = c[k]
  BY <1>1, <1>2, <1>5, <1>6
<1>8. t[n] = t[n - 1]
  BY <1>1, <1>2, <1>5, <1>7
<1>. QED BY <1>3, <1>6, <1>7, <1>8

\* A name that comes to a terminator ends, is no loop, and has been read.
LEMMA NameIsRead ==
  ASSUME size \in Nat, NEW p, NEW k \in 1..(size + 1), EndAt(Chain(p)[k])
  PROVE  Ends(p) /\ ~Cyclic(p) /\ TextAt(p) = Texts(p)[k - 1]
<1>1. size + 1 \in k..(size + 1)
  OBVIOUS
<1>2. /\ Chain(p)[size + 1] = Chain(p)[k]
      /\ Texts(p)[size + 1] = Texts(p)[k - 1]
  BY <1>1, Kinds, EndStays
<1>3. /\ Last(Chain(p)) = Chain(p)[k]
      /\ TextAt(p) = Texts(p)[k - 1]
  BY <1>2, ChainSteps DEF TextAt
<1>. QED BY <1>3, Kinds DEF Ends, Cyclic

\* A name that comes to what is neither a label, a pointer nor a terminator
\* does not end.
LEMMA NameIsStuck ==
  ASSUME size \in Nat, NEW p, NEW k \in 1..(size + 1),
         ~Moves(Chain(p)[k]), ~EndAt(Chain(p)[k])
  PROVE  ~Ends(p)
<1>1. size + 1 \in k..(size + 1)
  OBVIOUS
<1>2. Chain(p)[size + 1] = Chain(p)[k]
  BY <1>1, EndStays
<1>. QED BY <1>2, ChainSteps DEF Ends

\* A name of more moves than the datagram has bytes comes back to an offset it
\* has been at (two of the offsets are the same), and so never ends.
LEMMA NameLoops ==
  ASSUME buf \in Seq(Byte), NEW p \in Nat,
         \A n \in 1..size : Moves(Chain(p)[n]), Chain(p)[size + 1] < size
  PROVE  Cyclic(p)
<1> DEFINE c == Chain(p)
<1>0. size \in Nat
  BY DEF size
<1>1. Last(c) = c[size + 1] /\ \A n \in 1..size : c[n + 1] = Hop(c[n])
  BY <1>0, ChainSteps
<1>2. \A n \in 1..(size + 1) : c[n] \in Nat
  BY ChainType
<1>3. \A n \in 1..size : Moves(c[n])
  OBVIOUS
<1>4. c[size + 1] < size
  OBVIOUS
<1> HIDE DEF c
<1>5. \A n \in 1..(size + 1) : c[n] \in 0..(size - 1)
  <2>1. \A o \in Nat : Moves(o) => o < size
    BY <1>0 DEF Moves, LabelAt, PointerAt
  <2>. QED BY <1>0, <1>2, <1>3, <1>4, <2>1
<1>6. PICK i, j \in 1..(size + 1) : i < j /\ c[i] = c[j]
  <2> DEFINE S == 1..(size + 1)
             U == 0..(size - 1)
             f == [n \in S |-> c[n]]
  <2>1. /\ IsFiniteSet(S) /\ Cardinality(S) = size + 1
        /\ IsFiniteSet(U) /\ Cardinality(U) = size
    <3>1. \A a, b \in Int : /\ IsFiniteSet(a..b)
                            /\ Cardinality(a..b) = IF a > b THEN 0 ELSE b - a + 1
      BY FS_Interval
    <3>2. 1 \in Int /\ size + 1 \in Int /\ 0 \in Int /\ size - 1 \in Int
      BY <1>0
    <3>3. Cardinality(1..(size + 1)) = size + 1 /\ Cardinality(0..(size - 1)) = size
      BY <1>0, <3>1, <3>2
    <3>. QED BY <3>1, <3>2, <3>3
  <2>2. f \in [S -> U]
    BY <1>5
  <2>3. Cardinality(U) < Cardinality(S)
    BY <1>0, <2>1
  <2> HIDE DEF S, U, f
  <2>4. PICK x, y \in S : x # y /\ f[x] = f[y]
    BY <2>1, <2>2, <2>3, FS_PigeonHole
  <2>5. c[x] = c[y]
    BY <2>4 DEF f
  <2>6. x < y \/ y < x
    BY <1>0, <2>4 DEF S
  <2>. QED BY <2>4, <2>5, <2>6 DEF S
<1> DEFINE d == j - i
           T == {n \in i..(size + 1 - d) : c[n + d] # c[n]}
<1>7. d \in Nat /\ 1 <= d /\ i + d = j /\ i \in Nat /\ 1 <= i
  BY <1>0, <1>6
<1>8. T = {}
  <2> HIDE DEF d
  <2>. SUFFICES ASSUME T # {} PROVE FALSE
    OBVIOUS
  <2>1. PICK n \in T : \A m \in T : n <= m
    <3>1. T \subseteq Nat
      BY <1>0, <1>7
    <3>. QED BY <3>1, LeastNatural
  <2>2. n # i
    BY <1>6, <1>7, <2>1
  <2>3. /\ n - 1 \in i..(size + 1 - d) /\ n - 1 < n
        /\ n - 1 \in 1..size /\ (n - 1) + d \in 1..size
        /\ (n - 1) + 1 = n /\ ((n - 1) + d) + 1 = n + d
    BY <1>0, <1>7, <2>1, <2>2
  <2>4. c[(n - 1) + d] = c[n - 1]
    BY <2>1, <2>3
  <2>5. c[n + d] = c[n]
    BY <1>1, <2>3, <2>4
  <2>. QED BY <2>1, <2>5
<1>9. /\ size + 1 - d \in 1..size /\ size + 1 - d \in i..(size + 1 - d)
      /\ (size + 1 - d) + d = size + 1
  BY <1>0, <1>6, <1>7
<1>10. c[size + 1] = c[size + 1 - d]
  BY <1>8, <1>9
<1>11. Moves(Last(c)) /\ \E n \in 1..size : c[n] = Last(c)
  BY <1>1, <1>3, <1>9, <1>10
<1>. QED BY <1>11 DEF Cyclic, c

-----------------------------------------------------------------------------
(* parse_qname goes along the chain *)

\* parse_qname begins at the first offset of the chain.
LEMMA WalkBegins ==
  ASSUME size \in Nat, buf' = buf, NEW p,
         npos' = p, consumed' = p, jumped' = FALSE, loop_count' = 0, name' = <<>>
  PROVE  WalksFrom(p)'
<1>1. /\ Chain(p)' = Chain(p) /\ Texts(p)' = Texts(p)
  BY SameDatagram
<1>2. Chain(p)[1] = p /\ Texts(p)[0] = <<>>
  BY ChainSteps, TextSteps
<1>. QED BY <1>1, <1>2 DEF WalksFrom

\* The loop body is at the next offset of the chain.
LEMMA WalkIterates ==
  ASSUME Bounded, NEW p, WalksFrom(p), Iterating
  PROVE  /\ size \in Nat /\ loop_count \in Nat /\ loop_count + 1 \in 1..size
         /\ npos \in Nat /\ npos < size /\ npos = Chain(p)[loop_count + 1]
         /\ LabelLen \in 0..255
         /\ Chain(p)[loop_count + 2] = Hop(npos)
         /\ Texts(p)[loop_count + 1] = IF LabelAt(npos)
                                       THEN Dotted(Texts(p)[loop_count], LabelText(npos))
                                       ELSE Texts(p)[loop_count]
<1>1. /\ size \in Nat /\ loop_count \in Nat /\ loop_count + 1 \in 1..size
      /\ npos \in Nat /\ npos < size /\ LabelLen \in 0..255
  <2>1. npos + 1 \in 0..size /\ npos \in Nat /\ loop_count + 1 \in 0..size /\ LabelLen \in 0..255
    BY Inside
  <2>2. size \in Nat /\ loop_count \in 0..size
    BY BoundedOffsets
  <2>. QED BY <2>1, <2>2
<1>2. npos = Chain(p)[loop_count + 1]
  BY DEF WalksFrom
<1>3. (loop_count + 1) + 1 = loop_count + 2 /\ (loop_count + 1) - 1 = loop_count
      /\ loop_count + 1 \in 1..(size + 1)
  BY <1>1
<1>4. Chain(p)[(loop_count + 1) + 1] = Hop(npos)
  BY <1>1, <1>2, ChainSteps
<1>5. Texts(p)[loop_count + 1] = IF LabelAt(npos)
                                 THEN Dotted(Texts(p)[(loop_count + 1) - 1], LabelText(npos))
                                 ELSE Texts(p)[(loop_count + 1) - 1]
  BY <1>1, <1>2, <1>3, TextSteps
<1>. QED BY <1>1, <1>2, <1>3, <1>4, <1>5

\* A pointer followed is a hop of the chain; `consumed' is behind the first.
LEMMA WalkJump ==
  ASSUME Bounded, NEW p, WalksFrom(p), Jump
  PROVE  WalksFrom(p)'
<1> DEFINE at == Chain(p)
           n == loop_count
<1>1. /\ buf' = buf /\ loop_count' = n + 1 /\ jumped' = TRUE /\ name' = name
      /\ npos' = PointerTarget /\ consumed' = IF jumped THEN consumed ELSE npos + 2
      /\ Iterating /\ LabelLen >= 192 /\ npos + 1 < size
  BY DEF Jump, message, AfterPointer, IsPointer, PointerFits
<1>2. /\ size \in Nat /\ n \in Nat /\ n + 1 \in 1..size
      /\ npos \in Nat /\ npos < size /\ npos = at[n + 1] /\ LabelLen \in 0..255
      /\ at[n + 2] = Hop(npos)
      /\ Texts(p)[n + 1] = IF LabelAt(npos) THEN Dotted(Texts(p)[n], LabelText(npos))
                           ELSE Texts(p)[n]
  BY <1>1, WalkIterates
<1>3. PointerAt(npos)
  BY <1>1, <1>2 DEF PointerAt, LabelLen
<1>4. Hop(npos) = PointerTarget
  <2>1. \A a \in 0..255 : a >= 192 => a % 64 = a - 192
    OBVIOUS
  <2>2. LabelLen % 64 = LabelLen - 192
    BY <1>1, <1>2, <2>1
  <2>3. Pointee(npos) = PointerTarget
    BY <2>2 DEF Pointee, PointerTarget, LabelLen
  <2>. QED BY <1>3, <2>3, Kinds
<1>5. Texts(p)[n + 1] = name
  <2>1. ~LabelAt(npos)
    BY <1>3, Kinds
  <2>. QED BY <1>2, <2>1 DEF WalksFrom
<1>6. /\ \A i \in 1..n : Moves(at[i])
      /\ jumped => \E k \in 1..n : /\ PointerAt(at[k]) /\ consumed = at[k] + 2
                                   /\ \A i \in 1..(k - 1) : ~PointerAt(at[i])
      /\ ~jumped => \A i \in 1..n : ~PointerAt(at[i])
      /\ jumped \in BOOLEAN
  BY DEF WalksFrom, Bounded, TypeOK
<1>7. /\ Chain(p)' = at /\ Texts(p)' = Texts(p)
      /\ \A o : Moves(o)' = Moves(o) /\ PointerAt(o)' = PointerAt(o)
  BY <1>1, SameDatagram
<1> HIDE DEF at, n
<1>8. 1..(n + 1) = 1..n \cup {n + 1} /\ (n + 1) - 1 = n /\ (n + 1) + 1 = n + 2
  BY <1>2
<1>9. Moves(at[n + 1]) /\ PointerAt(at[n + 1])
  BY <1>2, <1>3 DEF Moves
<1>10. \E k \in 1..(n + 1) : /\ PointerAt(at[k]) /\ consumed' = at[k] + 2
                             /\ \A i \in 1..(k - 1) : ~PointerAt(at[i])
  <2>1. CASE jumped
    BY <1>1, <1>6, <1>8, <2>1
  <2>2. CASE ~jumped
    <3>1. consumed' = at[n + 1] + 2 /\ \A i \in 1..((n + 1) - 1) : ~PointerAt(at[i])
      BY <1>1, <1>2, <1>6, <1>8, <2>2
    <3>2. n + 1 \in 1..(n + 1)
      BY <1>2
    <3>. QED BY <1>9, <3>1, <3>2
  <2>. QED BY <1>6, <2>1, <2>2
<1>11. \A i \in 1..(n + 1) : Moves(at[i])
  BY <1>6, <1>8, <1>9
<1>12. npos' = at[(n + 1) + 1] /\ name' = Texts(p)[n + 1]
  BY <1>1, <1>2, <1>4, <1>5, <1>8
<1>. QED BY <1>1, <1>7, <1>10, <1>11, <1>12 DEF WalksFrom

\* So is a label taken, whose text is joined to the name.
LEMMA WalkLabel ==
  ASSUME Bounded, NEW p, WalksFrom(p), Label
  PROVE  WalksFrom(p)'
<1> DEFINE at == Chain(p)
           n == loop_count
<1>1. /\ buf' = buf /\ loop_count' = n + 1 /\ jumped' = jumped
      /\ name' = Dotted(name, SubSeq(buf, npos + 2, npos + 1 + LabelLen))
      /\ npos' = npos + 1 + LabelLen /\ consumed' = IF jumped THEN consumed ELSE npos'
      /\ Iterating /\ LabelLen \in 1..63
  BY DEF Label, message, IsLabel
<1>2. /\ size \in Nat /\ n \in Nat /\ n + 1 \in 1..size
      /\ npos \in Nat /\ npos < size /\ npos = at[n + 1] /\ LabelLen \in 0..255
      /\ at[n + 2] = Hop(npos)
      /\ Texts(p)[n + 1] = IF LabelAt(npos) THEN Dotted(Texts(p)[n], LabelText(npos))
                           ELSE Texts(p)[n]
  BY <1>1, WalkIterates
<1>3. LabelAt(npos)
  BY <1>1, <1>2 DEF LabelAt, LabelLen
<1>4. Hop(npos) = npos + 1 + LabelLen /\ ~PointerAt(npos)
  BY <1>3, Kinds DEF LabelLen
<1>5. Texts(p)[n + 1] = Dotted(name, SubSeq(buf, npos + 2, npos + 1 + LabelLen))
  <2>1. npos + 1 + 1 = npos + 2
    BY <1>2
  <2>2. LabelText(npos) = SubSeq(buf, npos + 2, npos + 1 + LabelLen)
    BY <2>1 DEF LabelText, BytesAt, LabelLen
  <2>. QED BY <1>2, <1>3, <2>2 DEF WalksFrom
<1>6. /\ \A i \in 1..n : Moves(at[i])
      /\ jumped => \E k \in 1..n : /\ PointerAt(at[k]) /\ consumed = at[k] + 2
                                   /\ \A i \in 1..(k - 1) : ~PointerAt(at[i])
      /\ ~jumped => \A i \in 1..n : ~PointerAt(at[i])
      /\ jumped \in BOOLEAN
  BY DEF WalksFrom, Bounded, TypeOK
<1>7. /\ Chain(p)' = at /\ Texts(p)' = Texts(p)
      /\ \A o : Moves(o)' = Moves(o) /\ PointerAt(o)' = PointerAt(o)
  BY <1>1, SameDatagram
<1> HIDE DEF at, n
<1>8. 1..(n + 1) = 1..n \cup {n + 1} /\ (n + 1) + 1 = n + 2
  BY <1>2
<1>9. Moves(at[n + 1]) /\ ~PointerAt(at[n + 1])
  BY <1>2, <1>3, <1>4 DEF Moves
<1>10. jumped => \E k \in 1..(n + 1) : /\ PointerAt(at[k]) /\ consumed' = at[k] + 2
                                       /\ \A i \in 1..(k - 1) : ~PointerAt(at[i])
  BY <1>1, <1>6, <1>8
<1>11. /\ \A i \in 1..(n + 1) : Moves(at[i])
       /\ ~jumped => consumed' = npos' /\ \A i \in 1..(n + 1) : ~PointerAt(at[i])
  BY <1>1, <1>6, <1>8, <1>9
<1>12. npos' = at[(n + 1) + 1] /\ name' = Texts(p)[n + 1]
  BY <1>1, <1>2, <1>4, <1>5, <1>8
<1>. QED BY <1>1, <1>7, <1>10, <1>11, <1>12 DEF WalksFrom

\* The terminator is where the chain ends: parse_qname returns the text of the
\* reference reading, and the offset behind the bytes of the name.
LEMMA WalkEnds ==
  ASSUME Bounded, NEW p, WalksFrom(p), Iterating, LabelLen = Terminator
  PROVE  /\ Ends(p) /\ ~Cyclic(p) /\ name = TextAt(p)
         /\ NameEnd(p) = IF jumped THEN consumed ELSE npos + 1
<1> DEFINE at == Chain(p)
           n == loop_count
<1>1. /\ size \in Nat /\ n \in Nat /\ n + 1 \in 1..size
      /\ npos \in Nat /\ npos < size /\ npos = at[n + 1]
  BY WalkIterates
<1>2. EndAt(at[n + 1])
  BY <1>1 DEF EndAt, LabelLen
<1>3. n + 1 \in 1..(size + 1) /\ (n + 1) - 1 = n
  BY <1>1
<1>4. Ends(p) /\ ~Cyclic(p) /\ TextAt(p) = Texts(p)[n]
  BY <1>1, <1>2, <1>3, NameIsRead
<1>5. /\ name = Texts(p)[n]
      /\ \A i \in 1..n : Moves(at[i])
      /\ jumped => \E k \in 1..n : /\ PointerAt(at[k]) /\ consumed = at[k] + 2
                                   /\ \A i \in 1..(k - 1) : ~PointerAt(at[i])
      /\ ~jumped => \A i \in 1..n : ~PointerAt(at[i])
  BY DEF WalksFrom
<1>6. \A i \in 1..n : ~EndAt(at[i])
  BY <1>5, Kinds
<1>7. CASE jumped
  <2>1. PICK k \in 1..n : /\ PointerAt(at[k]) /\ consumed = at[k] + 2
                          /\ \A i \in 1..(k - 1) : ~PointerAt(at[i])
    BY <1>5, <1>7
  <2>2. k \in 1..(size + 1) /\ \A i \in 1..(k - 1) : i \in 1..n
    BY <1>1
  <2>3. NameEnd(p) = at[k] + (IF PointerAt(at[k]) THEN 2 ELSE 1)
    BY <1>1, <1>6, <2>1, <2>2, NameStops
  <2>. QED BY <1>4, <1>5, <1>7, <2>1, <2>3
<1>8. CASE ~jumped
  <2>1. \A i \in 1..((n + 1) - 1) : ~PointerAt(at[i]) /\ ~EndAt(at[i])
    BY <1>3, <1>5, <1>6, <1>8
  <2>2. NameEnd(p) = at[n + 1] + (IF PointerAt(at[n + 1]) THEN 2 ELSE 1)
    BY <1>1, <1>2, <1>3, <2>1, NameStops
  <2>3. ~PointerAt(at[n + 1])
    BY <1>2, Kinds
  <2>. QED BY <1>1, <1>4, <1>5, <1>8, <2>2, <2>3
<1>. QED BY <1>7, <1>8

\* A name of more iterations than the datagram has bytes is a loop.
LEMMA WalkLoops ==
  ASSUME Bounded, NEW p \in Nat, WalksFrom(p), Runaway
  PROVE  Cyclic(p)
<1>1. /\ buf \in Seq(Byte) /\ size \in Nat /\ loop_count \in 0..size
      /\ npos < size /\ loop_count + 1 > size
  BY BoundedOffsets DEF Runaway, LoopLimit
<1>2. loop_count = size
  BY <1>1
<1>. QED BY <1>1, <1>2, NameLoops DEF WalksFrom

-----------------------------------------------------------------------------
(* The message *)

\* An item of the datagram stays one.
LEMMA WireStays ==
  ASSUME buf' = buf
  PROVE  \A s, item : IsWire(s, item)' = IsWire(s, item)
BY SameDatagram DEF IsWire

\* What has been decoded stays as it is when no item is added.
LEMMA ItemsStay ==
  ASSUME ItemsAreWire, buf' = buf, msg' = msg
  PROVE  ItemsAreWire' /\ Items' = Items
<1>1. Items' = Items
  BY DEF Items
<1>2. size' = size
  BY DEF size
<1>. QED BY <1>1, <1>2, WireStays DEF ItemsAreWire, Contiguous

\* An exception leaves the message, and the name it was about.
LEMMA ThrowKeeps ==
  ASSUME WInv, IInv', NEW reason, Throw(reason), reason = "loop" => Cyclic(from)
  PROVE  WInv'
<1>1. /\ buf' = buf /\ msg' = msg /\ name' = name /\ from' = from
      /\ pc' = "throw" /\ why' = reason
  BY DEF Throw, message, names, cursor
<1>2. ItemsAreWire'
  BY <1>1, ItemsStay DEF WInv
<1>3. Looped'
  BY <1>1, SameDatagram DEF Looped
<1>4. name' \in Seq(Byte) /\ NameSoFar' /\ FieldsSoFar' /\ Progress'
  BY <1>1 DEF WInv, NameSoFar, FieldsSoFar, Progress
<1>. QED BY <1>2, <1>3, <1>4 DEF WInv

\* The message is empty before the header has been read.
LEMMA NoItems ==
  ASSUME \A s \in 1..4 : msg[s] = <<>>
  PROVE  Items = <<>> /\ EndOf(Items) = kHeaderSize
<1>1. <<>> \o <<>> = <<>>
  BY EmptySeq, ConcatEmptySeq
<1>2. /\ 1 \in 1..4 /\ 2 \in 1..4 /\ 3 \in 1..4 /\ 4 \in 1..4
  OBVIOUS
<1>3. Items = ((<<>> \o <<>>) \o <<>>) \o <<>>
  BY <1>2 DEF Items
<1>. QED BY <1>1, <1>3 DEF EndOf

\* What is appended to the end of two sequences is appended to the second.
LEMMA AppendToConcat ==
  ASSUME NEW S, NEW x \in Seq(S), NEW y \in Seq(S), NEW e \in S
  PROVE  x \o y \in Seq(S) /\ x \o Append(y, e) = Append(x \o y, e)
<1> DEFINE one == <<e>>
<1>1. x \o y \in Seq(S) /\ one \in Seq(S)
  BY ConcatProperties
<1>2. Append(y, e) = y \o one /\ Append(x \o y, e) = (x \o y) \o one
  BY <1>1, AppendIsConcat
<1> HIDE DEF one
<1>3. (x \o y) \o one = x \o (y \o one)
  BY <1>1, ConcatAssociative
<1>. QED BY <1>1, <1>2, <1>3

\* So is an item.
LEMMA ItemToConcat ==
  \A item \in Item, x, y \in Seq(Item) :
    x \o y \in Seq(Item) /\ x \o Append(y, item) = Append(x \o y, item)
BY AppendToConcat

\* An item of section s is the last of the message if the sections behind are
\* empty.
LEMMA ItemAdded ==
  ASSUME msg \in [1..4 -> Seq(Item)], NEW s \in 1..4, NEW item \in Item,
         \A r \in 1..4 : r > s => msg[r] = <<>>,
         msg' = [msg EXCEPT ![s] = Append(@, item)]
  PROVE  /\ Items \in Seq(Item) /\ Items' = Append(Items, item)
         /\ msg' \in [1..4 -> Seq(Item)]
<1>1. \A x, y \in Seq(Item) :
        x \o y \in Seq(Item) /\ x \o Append(y, item) = Append(x \o y, item)
  BY ItemToConcat
<1>2. \A x \in Seq(Item) : x \o <<>> = x /\ Append(x, item) \in Seq(Item)
  BY ConcatEmptySeq, AppendProperties
<1> DEFINE a == msg[1]
           b == msg[2]
           c == msg[3]
           d == msg[4]
<1>3. a \in Seq(Item) /\ b \in Seq(Item) /\ c \in Seq(Item) /\ d \in Seq(Item)
  <2>1. 1 \in 1..4 /\ 2 \in 1..4 /\ 3 \in 1..4 /\ 4 \in 1..4
    OBVIOUS
  <2>. QED BY <2>1
<1>4. a \o b \in Seq(Item) /\ (a \o b) \o c \in Seq(Item) /\ ((a \o b) \o c) \o d \in Seq(Item)
  BY <1>1, <1>3
<1>5. /\ msg' \in [1..4 -> Seq(Item)]
      /\ \A r \in 1..4 : msg'[r] = IF r = s THEN Append(msg[r], item) ELSE msg[r]
  BY <1>2
<1>6. Items = ((a \o b) \o c) \o d
  BY DEF Items
<1>7. CASE s = 1
  <2>1. /\ msg'[1] = Append(a, item) /\ msg'[2] = <<>> /\ msg'[3] = <<>> /\ msg'[4] = <<>>
        /\ b = <<>> /\ c = <<>> /\ d = <<>>
    BY <1>5, <1>7
  <2>2. Items' = ((Append(a, item) \o <<>>) \o <<>>) \o <<>> /\ Items = ((a \o <<>>) \o <<>>) \o <<>>
    BY <1>6, <2>1 DEF Items
  <2>. QED BY <1>2, <1>3, <1>5, <2>2
<1>8. CASE s = 2
  <2>1. /\ msg'[1] = a /\ msg'[2] = Append(b, item) /\ msg'[3] = <<>> /\ msg'[4] = <<>>
        /\ c = <<>> /\ d = <<>>
    BY <1>5, <1>8
  <2>2. Items' = ((a \o Append(b, item)) \o <<>>) \o <<>> /\ Items = ((a \o b) \o <<>>) \o <<>>
    BY <1>6, <2>1 DEF Items
  <2>3. a \o Append(b, item) = Append(a \o b, item)
    BY <1>1, <1>3
  <2>. QED BY <1>2, <1>3, <1>4, <1>5, <2>2, <2>3
<1>9. CASE s = 3
  <2>1. /\ msg'[1] = a /\ msg'[2] = b /\ msg'[3] = Append(c, item) /\ msg'[4] = <<>>
        /\ d = <<>>
    BY <1>5, <1>9
  <2>2. Items' = ((a \o b) \o Append(c, item)) \o <<>> /\ Items = ((a \o b) \o c) \o <<>>
    BY <1>6, <2>1 DEF Items
  <2>3. (a \o b) \o Append(c, item) = Append((a \o b) \o c, item)
    BY <1>1, <1>3, <1>4
  <2>. QED BY <1>2, <1>3, <1>4, <1>5, <2>2, <2>3
<1>10. CASE s = 4
  <2>1. msg'[1] = a /\ msg'[2] = b /\ msg'[3] = c /\ msg'[4] = Append(d, item)
    BY <1>5, <1>10
  <2>2. Items' = ((a \o b) \o c) \o Append(d, item)
    BY <2>1 DEF Items
  <2>3. ((a \o b) \o c) \o Append(d, item) = Append(((a \o b) \o c) \o d, item)
    BY <1>1, <1>3, <1>4
  <2>. QED BY <1>4, <1>5, <1>6, <2>2, <2>3
<1>. QED BY <1>7, <1>8, <1>9, <1>10

-----------------------------------------------------------------------------
(* Every step keeps the invariant *)

\* decode() starts with an empty message.
LEMMA WInvInit == Init => WInv
<1>. SUFFICES ASSUME Init PROVE WInv
  OBVIOUS
<1>1. IInv
  BY Initially
<1>2. /\ msg = [s \in 1..4 |-> <<>>] /\ pc = "header" /\ why = "none" /\ name = <<>>
  BY DEF Init
<1>3. \A s \in 1..4 : msg[s] = <<>>
  BY <1>2
<1>4. Items = <<>>
  BY <1>3, NoItems
<1>5. ItemsAreWire
  BY <1>2, <1>3, <1>4 DEF ItemsAreWire, Contiguous
<1>6. name \in Seq(Byte) /\ NameSoFar /\ FieldsSoFar /\ Looped /\ Progress
  BY <1>2, <1>3 DEF NameSoFar, FieldsSoFar, Looped, Progress
<1>. QED BY <1>1, <1>5, <1>6 DEF WInv

\* The header is read: the first section begins.
LEMMA HeaderWire == ASSUME WInv, Header, IInv' PROVE WInv'
<1>1. /\ buf' = buf /\ msg' = msg /\ why' = why /\ name' = name /\ pc = "header"
      /\ pc' = "item" /\ pos' = kHeaderSize /\ section' = 1 /\ left' = SectionCount(1)
  BY DEF Header, message, names
<1>2. ItemsAreWire' /\ Items' = Items
  BY <1>1, ItemsStay DEF WInv
<1>3. \A s \in 1..4 : msg[s] = <<>>
  BY <1>1 DEF WInv, Progress
<1>4. Items' = <<>> /\ EndOf(Items') = kHeaderSize
  BY <1>2, <1>3, NoItems DEF EndOf
<1>5. SectionCount(1)' = SectionCount(1) /\ SectionCount(1) \in Nat
  BY <1>1, SameDatagram, Counts DEF WInv, IInv, Bounded, TypeOK
<1>6. Len(msg'[1]) + left' = SectionCount(1)'
  BY <1>1, <1>3, <1>5
<1>7. Progress'
  <2>1. EndOf(Items)' = EndOf(Items')
    BY DEF EndOf
  <2>2. \A s \in 1..4 : ~(s < section') /\ msg'[s] = <<>>
    BY <1>1, <1>3
  <2>. QED BY <1>1, <1>4, <1>5, <1>6, <2>1, <2>2 DEF Progress
<1>8. name' \in Seq(Byte) /\ NameSoFar' /\ FieldsSoFar' /\ Looped'
  BY <1>1 DEF WInv, NameSoFar, FieldsSoFar, Looped
<1>. QED BY <1>2, <1>7, <1>8 DEF WInv

\* A section is complete when nothing of it is left.
LEMMA NextSectionWire == ASSUME WInv, NextSection, IInv' PROVE WInv'
<1>1. /\ buf' = buf /\ msg' = msg /\ why' = why /\ name' = name /\ pos' = pos
      /\ pc = "item" /\ left = 0 /\ section \in 1..4
      /\ \/ section < 4 /\ section' = section + 1 /\ left' = SectionCount(section + 1) /\ pc' = "item"
         \/ section = 4 /\ pc' = "done"
  <2>1. section \in 1..4
    BY Offsets DEF WInv
  <2>2. section < 4 \/ section = 4
    BY <2>1
  <2>. QED BY <2>1, <2>2 DEF NextSection, message, names
<1>2. ItemsAreWire' /\ Items' = Items
  BY <1>1, ItemsStay DEF WInv
<1>3. /\ \A s \in 1..4 : s < section => Len(msg[s]) = SectionCount(s)
      /\ \A s \in 1..4 : s > section => msg[s] = <<>>
      /\ Len(msg[section]) + left = SectionCount(section)
      /\ pos = EndOf(Items)
  BY <1>1 DEF WInv, Progress, Complete
<1>4. \A s : SectionCount(s)' = SectionCount(s)
  BY <1>1, SameDatagram
<1>5. \A s \in 1..4 : Len(msg[s]) \in Nat /\ SectionCount(s) \in Nat
  <2>1. \A s \in 1..4 : msg[s] \in Seq(Item)
    BY DEF WInv, ItemsAreWire
  <2>. QED BY <2>1, LenProperties, Counts DEF WInv, IInv, Bounded, TypeOK
<1>6. \A s \in 1..4 : s <= section => Len(msg[s]) = SectionCount(s)
  BY <1>1, <1>3, <1>5
<1>7. Progress'
  <2>1. EndOf(Items)' = EndOf(Items)
    BY <1>2 DEF EndOf
  <2>2. CASE section = 4 /\ pc' = "done"
    BY <1>1, <1>3, <1>4, <1>6, <2>1, <2>2 DEF Progress, Complete
  <2>3. CASE section < 4 /\ section' = section + 1 /\ left' = SectionCount(section + 1) /\ pc' = "item"
    <3>1. section + 1 \in 1..4 /\ msg[section + 1] = <<>>
      BY <1>1, <1>3, <2>3
    <3>2. Len(msg[section + 1]) + SectionCount(section + 1) = SectionCount(section + 1)
      BY <1>5, <3>1
    <3>3. \A s \in 1..4 : /\ s < section + 1 => Len(msg[s]) = SectionCount(s)
                          /\ s > section + 1 => msg[s] = <<>>
      BY <1>1, <1>3, <1>6
    <3>. QED BY <1>1, <1>3, <1>4, <2>1, <2>3, <3>2, <3>3 DEF Progress, Complete
  <2>. QED BY <1>1, <2>2, <2>3
<1>8. name' \in Seq(Byte) /\ NameSoFar' /\ FieldsSoFar' /\ Looped'
  BY <1>1 DEF WInv, NameSoFar, FieldsSoFar, Looped
<1>. QED BY <1>2, <1>7, <1>8 DEF WInv

\* An item begins where the last one ended.
LEMMA StartItemWire == ASSUME WInv, StartItem, IInv' PROVE WInv'
<1>1. /\ buf' = buf /\ msg' = msg /\ why' = why /\ name' = <<>> /\ pos' = pos
      /\ pc = "item" /\ pc' = "name" /\ section' = section /\ left' = left
      /\ from' = pos /\ npos' = pos /\ consumed' = pos /\ jumped' = FALSE /\ loop_count' = 0
  BY DEF StartItem, message, names
<1>2. ItemsAreWire' /\ Items' = Items
  BY <1>1, ItemsStay DEF WInv
<1>3. \A s : SectionCount(s)' = SectionCount(s)
  BY <1>1, SameDatagram
<1>4. Progress'
  <2>1. EndOf(Items)' = EndOf(Items)
    BY <1>2 DEF EndOf
  <2>. QED BY <1>1, <1>3, <2>1 DEF WInv, Progress, Complete
<1>5. NameSoFar'
  <2>1. PICK p : p = pos
    OBVIOUS
  <2>2. WalksFrom(p)'
    BY <1>1, <2>1, Offsets, WalkBegins DEF WInv
  <2>3. from' = p
    BY <1>1, <2>1
  <2>. QED BY <2>2, <2>3 DEF NameSoFar, WalksFrom
<1>6. name' \in Seq(Byte) /\ FieldsSoFar' /\ Looped'
  BY <1>1 DEF WInv, FieldsSoFar, Looped
<1>. QED BY <1>2, <1>4, <1>5, <1>6 DEF WInv

\* The name stays a text.
LEMMA NameStaysText ==
  ASSUME Bounded, name \in Seq(Byte), Jump \/ Label
  PROVE  name' \in Seq(Byte)
<1>1. CASE Jump
  BY <1>1 DEF Jump
<1>2. CASE Label
  <2>1. npos \in Nat /\ LabelLen \in 0..255 /\ npos + 1 + LabelLen <= size /\ buf \in Seq(Byte)
    BY <1>2, Inside, BoundedOffsets DEF Label, LabelFits
  <2> DEFINE label == SubSeq(buf, npos + 2, npos + 1 + LabelLen)
  <2>2. label \in Seq(Byte)
    <3>1. npos + 2 \in Int /\ npos + 1 + LabelLen \in Int
      BY <2>1
    <3>2. \A i \in (npos + 2)..(npos + 1 + LabelLen) : i \in 1..Len(buf)
      BY <2>1 DEF size
    <3>3. \A i \in (npos + 2)..(npos + 1 + LabelLen) : buf[i] \in Byte
      BY <2>1, <3>2, ElementOfSeq
    <3>. QED BY <3>1, <3>3, SubSeqProperties
  <2>3. name' = Dotted(name, label)
    BY <1>2 DEF Label
  <2> HIDE DEF label
  <2>4. name \in Seq(Byte) /\ Dot \in Byte
    BY DEF Dot, Byte
  <2>5. Append(name, Dot) \in Seq(Byte) /\ <<>> \in Seq(Byte)
    BY <2>4, AppendProperties, EmptySeq
  <2>. QED BY <2>2, <2>3, <2>5, ConcatProperties DEF Dotted
<1>. QED BY <1>1, <1>2

\* A pointer or a label changes the walk only.
LEMMA WalkWire == ASSUME WInv, Jump \/ Label, IInv' PROVE WInv'
<1>1. /\ buf' = buf /\ msg' = msg /\ why' = why /\ from' = from /\ pos' = pos
      /\ section' = section /\ left' = left /\ pc = "name" /\ pc' = "name"
  BY DEF Jump, Label, Iterating, message, cursor
<1>2. ItemsAreWire' /\ Items' = Items
  BY <1>1, ItemsStay DEF WInv
<1>3. \A s : SectionCount(s)' = SectionCount(s)
  BY <1>1, SameDatagram
<1>4. Progress'
  <2>1. EndOf(Items)' = EndOf(Items)
    BY <1>2 DEF EndOf
  <2>. QED BY <1>1, <1>3, <2>1 DEF WInv, Progress, Complete
<1>5. NameSoFar'
  <2>1. PICK p : p = from
    OBVIOUS
  <2>2. WalksFrom(p)
    BY <1>1, <2>1 DEF WInv, NameSoFar, WalksFrom
  <2>3. WalksFrom(p)'
    BY <2>2, WalkJump, WalkLabel DEF WInv, IInv
  <2>4. from' = p
    BY <1>1, <2>1
  <2>. QED BY <2>3, <2>4 DEF NameSoFar, WalksFrom
<1>6. name' \in Seq(Byte)
  BY NameStaysText DEF WInv, IInv
<1>7. FieldsSoFar' /\ Looped'
  BY <1>1 DEF WInv, FieldsSoFar, Looped
<1>. QED BY <1>2, <1>4, <1>5, <1>6, <1>7 DEF WInv

\* The name is read, and no field yet.
LEMMA EndOfNameWire == ASSUME WInv, EndOfName, IInv' PROVE WInv'
<1>1. /\ buf' = buf /\ msg' = msg /\ why' = why /\ from' = from /\ name' = name
      /\ section' = section /\ left' = left /\ pc = "name" /\ pc' = "fields"
      /\ pos' = (IF jumped THEN consumed ELSE npos + 1)
      /\ fields' = fields /\ Iterating /\ LabelLen = Terminator
  BY DEF EndOfName, Iterating, message
<1>2. ItemsAreWire' /\ Items' = Items
  BY <1>1, ItemsStay DEF WInv
<1>3. \A s : SectionCount(s)' = SectionCount(s)
  BY <1>1, SameDatagram
<1>4. Progress'
  <2>1. EndOf(Items)' = EndOf(Items)
    BY <1>2 DEF EndOf
  <2>. QED BY <1>1, <1>3, <2>1 DEF WInv, Progress, Complete
<1>5. FieldsSoFar'
  <2>1. PICK p : p = from
    OBVIOUS
  <2>2. WalksFrom(p)
    BY <1>1, <2>1 DEF WInv, NameSoFar, WalksFrom
  <2>3. /\ Ends(p) /\ name = TextAt(p)
        /\ NameEnd(p) = IF jumped THEN consumed ELSE npos + 1
    BY <1>1, <2>2, WalkEnds DEF WInv, IInv
  <2>4. fields = <<>>
    BY <1>1 DEF WInv, IInv, Shape
  <2>5. Len(fields') = 0 /\ Len(fields') + 1 = 1
    BY <1>1, <2>4
  <2>6. NameEnd(p) \in Nat
    BY <2>3, Inside, <1>1, Offsets DEF WInv, IInv
  <2>7. pos' = FieldStart(NameEnd(p), Len(fields') + 1)
    BY <1>1, <2>3, <2>5, <2>6 DEF FieldStart
  <2>8. /\ Ends(p)' = Ends(p) /\ TextAt(p)' = TextAt(p) /\ NameEnd(p)' = NameEnd(p)
    BY <1>1, SameDatagram
  <2>9. from' = p
    BY <1>1, <2>1
  <2>. QED BY <1>1, <2>3, <2>5, <2>6, <2>7, <2>8, <2>9 DEF FieldsSoFar, FieldStart
<1>6. name' \in Seq(Byte) /\ NameSoFar' /\ Looped'
  BY <1>1 DEF WInv, NameSoFar, Looped
<1>. QED BY <1>2, <1>4, <1>5, <1>6 DEF WInv

\* Where the fields behind a name start.
LEMMA Starts ==
  ASSUME NEW e \in Nat
  PROVE  /\ FieldStart(e, 1) = e /\ FieldStart(e, 2) = e + 2 /\ FieldStart(e, 3) = e + 4
         /\ FieldStart(e, 4) = e + 8 /\ FieldStart(e, 5) = e + 10
BY DEF FieldStart

\* A field is read at its place and with its width; the length of RDATA is
\* what the datagram has in front of it.
LEMMA FieldIsRead ==
  ASSUME WInv, Field
  PROVE  LET e == NameEnd(from)
             n == Len(fields)
         IN  /\ e \in Nat /\ n \in 0..4 /\ (section = 1 => n \in 0..1)
             /\ pos = FieldStart(e, n + 1)
             /\ n < 4 => Width = <<2, 2, 4, 2>>[n + 1]
             /\ n = 4 => Width = U16At(e + 8)
             /\ FieldsRead <=> (section # 1 /\ n = 4)
             /\ fields' \in Seq(Seq(Byte)) /\ Len(fields') = n + 1
             /\ fields'[n + 1] = BytesAt(pos, Width)
             /\ \A k \in 1..n : fields'[k] = BytesAt(FieldStart(e, k), <<2, 2, 4, 2>>[k])
<1> DEFINE e == NameEnd(from)
           n == Len(fields)
<1>1. /\ pc = "fields" /\ fields' = Append(fields, BytesAt(pos, Width))
      /\ pos + Width <= size /\ IInv
  BY DEF Field, Readable, BytesAt, WInv
<1>2. /\ e \in Nat /\ pos = FieldStart(e, n + 1)
      /\ \A k \in 1..n : fields[k] = BytesAt(FieldStart(e, k), <<2, 2, 4, 2>>[k])
  BY <1>1 DEF WInv, FieldsSoFar
<1>3. /\ fields \in Seq(Seq(Byte)) /\ n \in 0..4 /\ (section = 1 => n \in 0..1)
      /\ n = 4 => Len(fields[4]) = 2
  <2>1. /\ fields \in Seq(Seq(Byte)) /\ n \in Nat
        /\ n <= (IF section = 1 THEN 1 ELSE 4)
        /\ n = 4 => Len(fields[4]) = 2
    BY <1>1 DEF IInv, Shape
  <2>2. n <= 4 /\ (section = 1 => n <= 1)
    BY <2>1
  <2>3. \A m \in Nat : (m <= 4 => m \in 0..4) /\ (m <= 1 => m \in 0..1)
    OBVIOUS
  <2>4. n \in 0..4 /\ (section = 1 => n \in 0..1)
    BY <2>1, <2>2, <2>3
  <2>. QED BY <2>1, <2>4
<1>4. Width \in Nat /\ (FieldsRead <=> (section # 1 /\ n = 4))
  BY <1>1, Wide
<1>5. BytesAt(pos, Width) \in Seq(Byte)
  <2>1. pos \in Nat /\ buf \in Seq(Byte) /\ pos + Width <= Len(buf)
    BY <1>1, Offsets DEF size
  <2>2. \A i \in (pos + 1)..(pos + Width) : i \in 1..Len(buf)
    BY <1>4, <2>1
  <2>3. \A i \in (pos + 1)..(pos + Width) : buf[i] \in Byte
    BY <2>1, <2>2, ElementOfSeq
  <2>4. pos + 1 \in Int /\ pos + Width \in Int
    BY <1>4, <2>1
  <2>. QED BY <2>3, <2>4, SubSeqProperties DEF BytesAt
<1>6. /\ fields' \in Seq(Seq(Byte)) /\ Len(fields') = n + 1
      /\ fields'[n + 1] = BytesAt(pos, Width)
      /\ \A k \in 1..n : fields'[k] = fields[k]
  BY <1>1, <1>3, <1>5, AppendProperties
<1>7. n < 4 => Width = <<2, 2, 4, 2>>[n + 1]
  <2>. SUFFICES ASSUME n < 4 PROVE Width = <<2, 2, 4, 2>>[n + 1]
    OBVIOUS
  <2>1. ~FieldsRead
    BY <1>4
  <2>2. Width = Widths[n + 1]
    BY <2>1 DEF Width
  <2>3. CASE section = 1
    <3>1. Widths = <<2, 2>>
      BY <2>3 DEF Widths
    <3>2. n = 0 \/ n = 1
      BY <1>3, <2>3
    <3>3. \A m : m = 0 \/ m = 1 => <<2, 2>>[m + 1] = <<2, 2, 4, 2>>[m + 1]
      OBVIOUS
    <3>4. <<2, 2>>[n + 1] = <<2, 2, 4, 2>>[n + 1]
      BY <3>2, <3>3
    <3>. QED BY <2>2, <3>1, <3>4, Zenon
  <2>4. CASE section # 1
    <3>1. Widths = <<2, 2, 4, 2>>
      BY <2>4 DEF Widths
    <3>. QED BY <2>2, <3>1
  <2>. QED BY <2>3, <2>4
<1>8. n = 4 => Width = U16At(e + 8)
  <2>. SUFFICES ASSUME n = 4 PROVE Width = U16At(e + 8)
    OBVIOUS
  <2>1. section # 1
    BY <1>3
  <2>2. Width = RdLength
    BY <1>4, <2>1 DEF Width
  <2>3. pos = e + 10 /\ fields[4] = BytesAt(e + 8, 2)
    <3>1. 4 \in 1..n /\ <<2, 2, 4, 2>>[4] = 2 /\ n + 1 = 5
      OBVIOUS
    <3>. QED BY <1>2, <3>1, Starts
  <2>4. e + 8 < size /\ e + 9 < size /\ e + 9 \in 1..Len(buf) /\ e + 10 \in 1..Len(buf)
    <3>1. /\ e + 10 + Width <= size /\ Width \in Nat /\ e \in Nat /\ size \in Nat
          /\ size = Len(buf)
      BY <1>1, <1>2, <1>4, <2>3, Offsets DEF size
    <3>2. \A a, w, z \in Nat : a + 10 + w <= z =>
            a + 8 < z /\ a + 9 < z /\ a + 9 \in 1..z /\ a + 10 \in 1..z
      OBVIOUS
    <3>. QED BY <3>1, <3>2
  <2>5. fields[4] = SubSeq(buf, e + 9, e + 10)
    BY <1>2, <2>3 DEF BytesAt
  <2>6. fields[4][1] = buf[e + 9] /\ fields[4][2] = buf[e + 10]
    <3>1. \A i \in (e + 9)..(e + 10) : buf[i] \in Byte
      <4>1. buf \in Seq(Byte)
        BY Offsets, <1>1
      <4>2. \A i \in (e + 9)..(e + 10) : i \in 1..Len(buf)
        BY <1>2, <2>4
      <4>. QED BY <4>1, <4>2, ElementOfSeq
    <3>2. e + 9 \in Int /\ e + 10 \in Int /\ e + 9 <= e + 10 /\ (e + 10) - (e + 9) + 1 = 2
          /\ (e + 9) + 1 - 1 = e + 9 /\ (e + 9) + 2 - 1 = e + 10
      BY <1>2
    <3>3. \A i \in 1..2 : SubSeq(buf, e + 9, e + 10)[i] = buf[(e + 9) + i - 1]
      BY <3>1, <3>2, SubSeqProperties
    <3>. QED BY <2>5, <3>2, <3>3
  <2>7. ByteAt(e + 8) = buf[e + 9] /\ ByteAt(e + 9) = buf[e + 10]
    <3>1. (e + 8) + 1 = e + 9 /\ (e + 9) + 1 = e + 10
      BY <1>2
    <3>. QED BY <2>4, <3>1 DEF ByteAt
  <2>8. (e + 8) + 1 = e + 9
    BY <1>2
  <2>. QED BY <2>2, <2>6, <2>7, <2>8 DEF RdLength, U16At
<1>. QED BY <1>2, <1>3, <1>4, <1>6, <1>7, <1>8

\* A sequence of two, or of five, is the tuple of its elements.
LEMMA Tuples ==
  ASSUME NEW S, NEW q \in Seq(S)
  PROVE  /\ Len(q) = 2 => q = <<q[1], q[2]>>
         /\ Len(q) = 5 => q = <<q[1], q[2], q[3], q[4], q[5]>>
<1>1. ASSUME Len(q) = 2 PROVE q = <<q[1], q[2]>>
  <2> DEFINE t == <<q[1], q[2]>>
  <2>1. q[1] \in S /\ q[2] \in S
    BY <1>1, ElementOfSeq
  <2>2. t \in Seq(S) /\ Len(t) = 2 /\ \A i \in 1..2 : t[i] = q[i]
    BY <2>1
  <2> HIDE DEF t
  <2>3. q = t
    BY <1>1, <2>2, SeqEqual
  <2>. QED BY <2>3 DEF t
<1>2. ASSUME Len(q) = 5 PROVE q = <<q[1], q[2], q[3], q[4], q[5]>>
  <2> DEFINE t == <<q[1], q[2], q[3], q[4], q[5]>>
  <2>0. \A i \in 1..5 : q[i] \in S
    BY <1>2, ElementOfSeq
  <2>1. q[1] \in S /\ q[2] \in S /\ q[3] \in S /\ q[4] \in S /\ q[5] \in S
    BY <2>0
  <2>2. t \in Seq(S) /\ Len(t) = 5 /\ \A i \in 1..5 : t[i] = q[i]
    BY <2>1
  <2> HIDE DEF t
  <2>3. q = t
    BY <1>2, <2>2, SeqEqual
  <2>. QED BY <2>3 DEF t
<1>. QED BY <1>1, <1>2

\* The fields of a complete item are those of the datagram.
LEMMA ItemIsRead ==
  ASSUME WInv, Field, pc' = "item"
  PROVE  /\ fields' = FieldsAt(section, NameEnd(from)) /\ fields' \in Seq(Seq(Byte))
         /\ pos' = FieldsEnd(section, NameEnd(from)) /\ pos' \in Nat
<1> DEFINE e == NameEnd(from)
           n == Len(fields)
<1>1. pos' = pos + Width /\ pc = "fields" /\ (FieldsRead \/ (section = 1 /\ n = 1))
  BY DEF Field
<1>2. /\ e \in Nat /\ n \in 0..4 /\ (section = 1 => n \in 0..1)
      /\ pos = FieldStart(e, n + 1)
      /\ n < 4 => Width = <<2, 2, 4, 2>>[n + 1]
      /\ n = 4 => Width = U16At(e + 8)
      /\ FieldsRead <=> (section # 1 /\ n = 4)
      /\ fields' \in Seq(Seq(Byte)) /\ Len(fields') = n + 1
      /\ fields'[n + 1] = BytesAt(pos, Width)
      /\ \A k \in 1..n : fields'[k] = BytesAt(FieldStart(e, k), <<2, 2, 4, 2>>[k])
  BY FieldIsRead
<1>3. /\ FieldStart(e, 1) = e /\ FieldStart(e, 2) = e + 2 /\ FieldStart(e, 3) = e + 4
      /\ FieldStart(e, 4) = e + 8 /\ FieldStart(e, 5) = e + 10
  BY <1>2, Starts
<1>4. pos' \in Nat
  <2>1. Width \in Nat /\ pos \in Nat
    BY <1>1, Wide, Offsets DEF WInv
  <2>. QED BY <1>1, <2>1
<1>5. CASE section = 1 /\ n = 1
  <2>1. pos = e + 2 /\ Width = 2 /\ Len(fields') = 2 /\ fields'[2] = BytesAt(pos, Width)
    BY <1>2, <1>3, <1>5
  <2>2. fields'[1] = BytesAt(e, 2)
    BY <1>2, <1>3, <1>5
  <2>3. fields' = <<fields'[1], fields'[2]>>
    BY <1>2, <2>1, Tuples
  <2>4. pos' = e + 4
    BY <1>1, <1>2, <2>1
  <2>. QED BY <1>2, <1>4, <1>5, <2>1, <2>2, <2>3, <2>4 DEF FieldsAt, FieldsEnd
<1>6. CASE section # 1 /\ n = 4
  <2>1. /\ pos = e + 10 /\ Width = U16At(e + 8) /\ Len(fields') = 5
        /\ fields'[5] = BytesAt(pos, Width)
    BY <1>2, <1>3, <1>6
  <2>2. /\ fields'[1] = BytesAt(e, 2) /\ fields'[2] = BytesAt(e + 2, 2)
        /\ fields'[3] = BytesAt(e + 4, 4) /\ fields'[4] = BytesAt(e + 8, 2)
    <3>1. 1 \in 1..n /\ 2 \in 1..n /\ 3 \in 1..n /\ 4 \in 1..n
      BY <1>6
    <3>. QED BY <1>2, <1>3, <3>1
  <2>3. fields' = <<fields'[1], fields'[2], fields'[3], fields'[4], fields'[5]>>
    BY <1>2, <2>1, Tuples
  <2>4. pos' = e + 10 + U16At(e + 8)
    BY <1>1, <2>1
  <2>. QED BY <1>2, <1>4, <1>6, <2>1, <2>2, <2>3, <2>4 DEF FieldsAt, FieldsEnd
<1>. QED BY <1>1, <1>2, <1>5, <1>6

\* A field that is not the last one leaves the item as it is.
LEMMA FieldGoesOn ==
  ASSUME WInv, Field, pc' # "item", IInv'
  PROVE  WInv'
<1> DEFINE n == Len(fields)
<1>1. /\ buf' = buf /\ msg' = msg /\ why' = why /\ from' = from /\ name' = name
      /\ section' = section /\ left' = left /\ pc = "fields" /\ pc' = "fields"
      /\ pos' = pos + Width /\ ~FieldsRead /\ ~(section = 1 /\ n = 1)
  BY DEF Field, ItemDone, names
<1>2. PICK e : e = NameEnd(from)
  OBVIOUS
<1>3. /\ e \in Nat /\ n \in 0..4 /\ (section = 1 => n \in 0..1)
      /\ pos = FieldStart(e, n + 1)
      /\ n < 4 => Width = <<2, 2, 4, 2>>[n + 1]
      /\ FieldsRead <=> (section # 1 /\ n = 4)
      /\ Len(fields') = n + 1 /\ fields'[n + 1] = BytesAt(pos, Width)
      /\ \A k \in 1..n : fields'[k] = BytesAt(FieldStart(e, k), <<2, 2, 4, 2>>[k])
  BY <1>2, FieldIsRead
<1>4. n \in 0..3
  BY <1>1, <1>3
<1>5. pos' = FieldStart(e, n + 2) /\ pos' = FieldStart(e, Len(fields') + 1)
  <2>0. \A m \in 0..3 : m < 4 /\ (m + 1) + 1 = m + 2
    OBVIOUS
  <2>1. n < 4 /\ Len(fields') + 1 = n + 2
    BY <1>3, <1>4, <2>0, Zenon
  <2>2. pos' = FieldStart(e, n + 1) + <<2, 2, 4, 2>>[n + 1]
    BY <1>1, <1>3, <2>1
  <2>3. \A m \in 0..3 : FieldStart(e, m + 1) + <<2, 2, 4, 2>>[m + 1] = FieldStart(e, m + 2)
    <3>1. \A m \in 0..3 : m = 0 \/ m = 1 \/ m = 2 \/ m = 3
      OBVIOUS
    <3>2. /\ FieldStart(e, 0 + 1) + <<2, 2, 4, 2>>[0 + 1] = FieldStart(e, 0 + 2)
          /\ FieldStart(e, 1 + 1) + <<2, 2, 4, 2>>[1 + 1] = FieldStart(e, 1 + 2)
          /\ FieldStart(e, 2 + 1) + <<2, 2, 4, 2>>[2 + 1] = FieldStart(e, 2 + 2)
          /\ FieldStart(e, 3 + 1) + <<2, 2, 4, 2>>[3 + 1] = FieldStart(e, 3 + 2)
      BY <1>3 DEF FieldStart
    <3>. QED BY <3>1, <3>2
  <2>. QED BY <1>4, <2>1, <2>2, <2>3
<1>6. \A k \in 1..Len(fields') : fields'[k] = BytesAt(FieldStart(e, k), <<2, 2, 4, 2>>[k])
  <2>0. \A m \in 0..3 : m < 4
    OBVIOUS
  <2>1. fields'[n + 1] = BytesAt(FieldStart(e, n + 1), <<2, 2, 4, 2>>[n + 1])
    BY <1>3, <1>4, <2>0, Zenon
  <2>2. \A k \in 1..(n + 1) : k \in 1..n \/ k = n + 1
    BY <1>4
  <2>. QED BY <1>3, <2>1, <2>2
<1>7. FieldsSoFar'
  <2>1. PICK p : p = from
    OBVIOUS
  <2>2. Ends(p) /\ name = TextAt(p) /\ NameEnd(p) = e
    BY <1>1, <1>2, <2>1 DEF WInv, FieldsSoFar
  <2>3. Ends(p)' /\ TextAt(p)' = TextAt(p) /\ NameEnd(p)' = e
    BY <1>1, <2>2, SameDatagram
  <2>4. from' = p
    BY <1>1, <2>1
  <2>5. \A k \in 1..Len(fields') :
          fields'[k] = BytesAt(FieldStart(e, k), <<2, 2, 4, 2>>[k])'
    BY <1>1, <1>6, SameDatagram DEF BytesAt, FieldStart
  <2>. QED BY <1>1, <1>3, <1>5, <2>2, <2>3, <2>4, <2>5 DEF FieldsSoFar, FieldStart
<1>8. ItemsAreWire' /\ Items' = Items
  BY <1>1, ItemsStay DEF WInv
<1>9. Progress'
  <2>1. EndOf(Items)' = EndOf(Items)
    BY <1>8 DEF EndOf
  <2>2. \A s : SectionCount(s)' = SectionCount(s)
    BY <1>1, SameDatagram
  <2>. QED BY <1>1, <2>1, <2>2 DEF WInv, Progress, Complete
<1>10. name' \in Seq(Byte) /\ NameSoFar' /\ Looped'
  BY <1>1 DEF WInv, NameSoFar, Looped
<1>. QED BY <1>7, <1>8, <1>9, <1>10 DEF WInv

\* What is appended where the items end leaves them side by side.
LEMMA Adjoined ==
  ASSUME NEW items \in Seq(Item), NEW item \in Item, Contiguous(items),
         item.from = EndOf(items)
  PROVE  Contiguous(Append(items, item)) /\ EndOf(Append(items, item)) = item.to
<1> DEFINE n == Len(items)
           new == Append(items, item)
<1>1. /\ n \in Nat /\ new \in Seq(Item) /\ Len(new) = n + 1 /\ new # <<>>
      /\ \A k \in 1..n : new[k] = items[k]
      /\ new[n + 1] = item
  BY AppendProperties, LenProperties
<1>2. EndOf(new) = item.to
  BY <1>1 DEF EndOf
<1>3. ASSUME NEW k \in 1..n
      PROVE  new[k].from = IF k = 1 THEN kHeaderSize ELSE new[k - 1].to
  <2>1. items[k].from = IF k = 1 THEN kHeaderSize ELSE items[k - 1].to
    BY DEF Contiguous
  <2>2. k # 1 => k - 1 \in 1..n
    BY <1>1
  <2>. QED BY <1>1, <2>1, <2>2
<1>4. new[n + 1].from = IF n + 1 = 1 THEN kHeaderSize ELSE new[(n + 1) - 1].to
  <2>1. CASE n = 0
    BY <1>1, <2>1 DEF EndOf
  <2>2. CASE n # 0
    <3>1. n \in 1..n /\ (n + 1) - 1 = n /\ n + 1 # 1 /\ items # <<>>
      BY <1>1, <2>2
    <3>. QED BY <1>1, <3>1 DEF EndOf
  <2>. QED BY <2>1, <2>2
<1>5. \A k \in 1..(n + 1) : k \in 1..n \/ k = n + 1
  BY <1>1
<1>6. Contiguous(new)
  <2>1. \A k \in 1..(n + 1) : new[k].from = IF k = 1 THEN kHeaderSize ELSE new[k - 1].to
    BY <1>3, <1>4, <1>5
  <2> HIDE DEF new
  <2>. QED BY <1>1, <2>1 DEF Contiguous
<1>. QED BY <1>2, <1>6

\* An item that is complete is one of the datagram, and lies behind the others.
LEMMA ItemEnds ==
  ASSUME WInv, Field, pc' = "item", IInv'
  PROVE  WInv'
<1> DEFINE item == [from |-> from, to |-> pos', name |-> name, fields |-> fields']
<1>1. /\ buf' = buf /\ why' = why /\ from' = from /\ name' = name
      /\ section' = section /\ pc = "fields" /\ left' = left - 1
      /\ msg' = [msg EXCEPT ![section] = Append(@, item)]
  BY DEF Field, ItemDone, names
<1>2. /\ fields' = FieldsAt(section, NameEnd(from)) /\ fields' \in Seq(Seq(Byte))
      /\ pos' = FieldsEnd(section, NameEnd(from)) /\ pos' \in Nat
  BY ItemIsRead
<1>3. /\ section \in 1..4 /\ left \in Nat /\ left > 0 /\ from \in Nat
      /\ name \in Seq(Byte) /\ buf \in Seq(Byte)
  BY <1>1, Offsets DEF WInv, IInv, Busy
<1>4. item \in Item
  BY <1>2, <1>3 DEF Item
<1>5. IsWire(section, item)
  <2>1. Ends(from) /\ name = TextAt(from)
    BY <1>1 DEF WInv, FieldsSoFar
  <2>. QED BY <1>2, <2>1 DEF IsWire
<1>6. item.from = from /\ item.to = pos'
  OBVIOUS
<1> HIDE DEF item
<1>7. /\ msg \in [1..4 -> Seq(Item)] /\ Contiguous(Items)
      /\ \A s \in 1..4 : \A k \in 1..Len(msg[s]) : IsWire(s, msg[s][k]) /\ msg[s][k].to <= size
  BY DEF WInv, ItemsAreWire
<1>8. /\ \A s \in 1..4 : s < section => Len(msg[s]) = SectionCount(s)
      /\ \A s \in 1..4 : s > section => msg[s] = <<>>
      /\ Len(msg[section]) + left = SectionCount(section)
      /\ from = EndOf(Items)
  BY <1>1 DEF WInv, Progress, Complete
<1>9. /\ Items \in Seq(Item) /\ Items' = Append(Items, item)
      /\ msg' \in [1..4 -> Seq(Item)]
  BY <1>1, <1>3, <1>4, <1>7, <1>8, ItemAdded
<1>10. Contiguous(Items)' /\ EndOf(Items)' = pos'
  <2>1. Contiguous(Append(Items, item)) /\ EndOf(Append(Items, item)) = pos'
    BY <1>4, <1>6, <1>7, <1>8, <1>9, Adjoined
  <2>. QED BY <1>9, <2>1 DEF Contiguous, EndOf
<1>11. /\ \A s \in 1..4 : s # section => msg'[s] = msg[s]
       /\ msg'[section] = Append(msg[section], item)
  BY <1>1, <1>3, <1>7
<1>12. /\ Len(msg[section]) \in Nat /\ Len(msg'[section]) = Len(msg[section]) + 1
       /\ \A k \in 1..Len(msg[section]) : msg'[section][k] = msg[section][k]
       /\ msg'[section][Len(msg[section]) + 1] = item
  <2>1. msg[section] \in Seq(Item)
    BY <1>3, <1>7
  <2>. QED BY <1>4, <1>11, <2>1, AppendProperties, LenProperties
<1>12a. size' = size /\ item.to <= size
  <2>1. size' = size
    BY <1>1 DEF size
  <2>2. pos' <= size'
    <3>1. pos' \in 0..size'
      BY DEF IInv, Bounded, TypeOK
    <3>2. size \in Nat
      BY Offsets DEF WInv
    <3>. QED BY <2>1, <3>1, <3>2
  <2>. QED BY <1>6, <2>1, <2>2
<1>13. \A s \in 1..4 : \A k \in 1..Len(msg'[s]) : IsWire(s, msg'[s][k]) /\ msg'[s][k].to <= size
  <2>1. ASSUME NEW k \in 1..Len(msg'[section])
        PROVE  IsWire(section, msg'[section][k]) /\ msg'[section][k].to <= size
    <3>1. k \in 1..Len(msg[section]) \/ k = Len(msg[section]) + 1
      BY <1>12
    <3>. QED BY <1>3, <1>5, <1>7, <1>12, <1>12a, <3>1
  <2>2. ASSUME NEW s \in 1..4, s # section, NEW k \in 1..Len(msg'[s])
        PROVE  IsWire(s, msg'[s][k]) /\ msg'[s][k].to <= size
    BY <1>7, <1>11, <2>2
  <2>. QED BY <2>1, <2>2
<1>14. ItemsAreWire'
  <2>1. \A s, x : IsWire(s, x)' = IsWire(s, x)
    BY <1>1, WireStays
  <2>. QED BY <1>9, <1>10, <1>12a, <1>13, <2>1 DEF ItemsAreWire
<1>15. Progress'
  <2>1. \A s : SectionCount(s)' = SectionCount(s)
    BY <1>1, SameDatagram
  <2>2. Len(msg'[section]) + left' = SectionCount(section)
    <3>1. \A m, l \in Nat : (m + 1) + (l - 1) = m + l
      OBVIOUS
    <3>. QED BY <1>1, <1>3, <1>8, <1>12, <3>1
  <2>3. \A s \in 1..4 : (s < section => s # section) /\ (s > section => s # section)
    BY <1>3
  <2>. QED BY <1>1, <1>8, <1>10, <1>11, <2>1, <2>2, <2>3 DEF Progress, Complete
<1>16. name' \in Seq(Byte) /\ NameSoFar' /\ FieldsSoFar' /\ Looped'
  BY <1>1 DEF WInv, NameSoFar, FieldsSoFar, Looped
<1>. QED BY <1>14, <1>15, <1>16 DEF WInv

\* Of the exceptions, only that of the iteration bound says "loop".
LEMMA ThrowWire ==
  ASSUME WInv, IInv',
         \/ ShortHeader \/ ItemPastEnd \/ FieldPastEnd
         \/ Unterminated \/ Runaway \/ PointerTruncated \/ PointerOutside
         \/ BadLabel \/ LabelPastEnd
  PROVE  WInv'
<1>1. CASE Runaway
  <2>1. PICK p : p = from
    OBVIOUS
  <2>2. p \in Nat /\ WalksFrom(p) /\ Throw("loop")
    BY <1>1, <2>1, Offsets DEF WInv, NameSoFar, WalksFrom, Runaway
  <2>3. Cyclic(from)
    BY <1>1, <2>1, <2>2, WalkLoops DEF WInv, IInv
  <2>. QED BY <2>2, <2>3, ThrowKeeps
<1>2. CASE ~Runaway
  <2>1. \/ Throw("header") \/ Throw("item") \/ Throw("field") \/ Throw("unterminated")
        \/ Throw("pointer truncated") \/ Throw("pointer outside") \/ Throw("label")
        \/ Throw("label past end")
    BY <1>2 DEF ShortHeader, ItemPastEnd, FieldPastEnd, Unterminated, PointerTruncated,
                PointerOutside, BadLabel, LabelPastEnd
  <2>. QED BY <2>1, ThrowKeeps
<1>. QED BY <1>1, <1>2

\* A step that changes nothing keeps the invariant.
LEMMA StutterWire == ASSUME WInv, UNCHANGED vars, IInv' PROVE WInv'
<1>1. /\ buf' = buf /\ msg' = msg /\ pc' = pc /\ why' = why /\ section' = section
      /\ left' = left /\ from' = from /\ pos' = pos /\ npos' = npos
      /\ consumed' = consumed /\ jumped' = jumped /\ loop_count' = loop_count
      /\ name' = name /\ fields' = fields
  BY DEF vars, message, names, cursor
<1>2. PICK p : p = from
  OBVIOUS
<1>3. ItemsAreWire' /\ Items' = Items
  BY <1>1, ItemsStay DEF WInv
<1>4. NameSoFar'
  BY <1>1, <1>2, SameDatagram DEF WInv, NameSoFar, WalksFrom
<1>5. FieldsSoFar'
  BY <1>1, <1>2, SameDatagram DEF WInv, FieldsSoFar, FieldStart
<1>6. Looped'
  BY <1>1, <1>2, SameDatagram DEF WInv, Looped
<1>7. Progress'
  <2>1. EndOf(Items)' = EndOf(Items)
    BY <1>3 DEF EndOf
  <2>. QED BY <1>1, <2>1, SameDatagram DEF WInv, Progress, Complete
<1>. QED BY <1>1, <1>3, <1>4, <1>5, <1>6, <1>7 DEF WInv

\* No step of decode() breaks the invariant.
LEMMA WireKeeps == ASSUME WInv, [Next]_vars PROVE WInv'
<1>1. IInv'
  BY StepKeeps DEF WInv
<1>2. CASE Header \/ NextSection \/ StartItem
  BY <1>1, <1>2, HeaderWire, NextSectionWire, StartItemWire
<1>3. CASE Jump \/ Label
  BY <1>1, <1>3, WalkWire
<1>4. CASE EndOfName
  BY <1>1, <1>4, EndOfNameWire
<1>5. CASE Field
  BY <1>1, <1>5, FieldGoesOn, ItemEnds
<1>6. CASE \/ ShortHeader \/ ItemPastEnd \/ FieldPastEnd
           \/ Unterminated \/ Runaway \/ PointerTruncated \/ PointerOutside
           \/ BadLabel \/ LabelPastEnd
  BY <1>1, <1>6, ThrowWire
<1>7. CASE UNCHANGED vars
  BY <1>1, <1>7, StutterWire
<1>. QED BY <1>2, <1>3, <1>4, <1>5, <1>6, <1>7 DEF Next, Name

\* A loop is reported of an endless name, and such a name is never read.
LEMMA LoopsAreVerdicts == WInv => LoopVerdict
<1>. SUFFICES ASSUME WInv PROVE LoopVerdict
  OBVIOUS
<1>1. why = "loop" => Cyclic(from)
  BY DEF WInv, Looped
<1>2. pc = "fields" => ~Cyclic(from)
  <2>1. pc = "fields" => EndAt(Last(Chain(from)))
    BY DEF WInv, FieldsSoFar, Ends
  <2>. QED BY <2>1, Kinds DEF Cyclic
<1>. QED BY <1>1, <1>2 DEF LoopVerdict

\* The message decoded so far is what the datagram says.
LEMMA WireIsMessage == WInv => MessageIsWire
<1>. SUFFICES ASSUME WInv PROVE MessageIsWire
  OBVIOUS
<1>1. \A s \in 1..4 : \A k \in 1..Len(msg[s]) : IsWire(s, msg[s][k])
  BY DEF WInv, ItemsAreWire
<1>2. \A k \in 1..Len(Items) :
        Items[k].from = IF k = 1 THEN kHeaderSize ELSE Items[k - 1].to
  BY DEF WInv, ItemsAreWire, Contiguous
<1>3. pc \in {"item", "done"} =>
        pos = IF Items = <<>> THEN kHeaderSize ELSE Items[Len(Items)].to
  BY DEF WInv, Progress, EndOf
<1>4. pc = "done" => \A s \in 1..4 : Len(msg[s]) = SectionCount(s)
  BY DEF WInv, Progress, Complete
<1>. QED BY <1>1, <1>2, <1>3, <1>4 DEF MessageIsWire, Items

-----------------------------------------------------------------------------
(* The theorems *)

\* At every moment of decode(), whatever the datagram: parse_qname is on the
\* chain of offsets of the name it reads, the fields behind the name are read
\* in their places, and the items so far are those of the datagram.
THEOREM WireInvariance == Spec => []WInv
BY WInvInit, WireKeeps, PTL DEF Spec

\* parse_qname reports a loop only of a name that never ends, and reads no
\* such name as a finite one, in a datagram of any length.
THEOREM LoopsAreLoops == Spec => []LoopVerdict
BY WireInvariance, LoopsAreVerdicts, PTL

\* The message decode() returns is what the datagram says: every item with the
\* name and the fields that lie in its place, side by side, as many as the
\* header announces, in a datagram of any length and contents.
THEOREM MessageReadAsSent == Spec => []MessageIsWire
BY WireInvariance, WireIsMessage, PTL

-----------------------------------------------------------------------------
(* The texts of the records: parse_qname entered again from inside the     *)
(* RDATA (RecordText)                                                      *)

\* A record as the datagram has it.
IsRecord(rr) == rr \in Item /\ IsWire(2, rr) /\ rr.to <= size

\* The text a record should have.
TextOf(rr) ==
  CASE ~HasName(rr) -> PlainText(rr)
    [] HasName(rr) /\ Ends(NameStart(rr)) -> NamedText(rr, TextAt(NameStart(rr)))
    [] HasName(rr) /\ ~Ends(NameStart(rr)) -> CaughtText(rr)

TextsSoFar ==
  /\ Len(texts) \in 0..Len(Records)
  /\ texts = [k \in 1..Len(texts) |-> TextOf(Records[k])]

\* decode() has returned the message the datagram is.
Decoded ==
  /\ name \in Seq(Byte) /\ why = "none" /\ ItemsAreWire
  /\ (\A s \in 1..4 : Complete(s)) /\ pos = EndOf(Items)

\* The formatter of a record with a name waits for parse_qname, which goes along
\* the chain from where the name starts.
InFormatter ==
  /\ caller = "formatter" /\ pc = "name" /\ Decoded
  /\ Len(texts) < Len(Records) /\ HasName(Current) /\ WalksFrom(NameStart(Current))

\* The inductive invariant: the decoder's while no formatter waits, and all the
\* same bounds while one does.
TInv ==
  /\ Bounded /\ TextsSoFar
  /\ \/ caller = "none" /\ WInv /\ (texts # <<>> => pc = "done")
     \/ InFormatter

\* The records are items of the datagram.
LEMMA RecordsAre ==
  ASSUME ItemsAreWire
  PROVE  Records \in Seq(Item) /\ \A k \in 1..Len(Records) : IsRecord(Records[k])
<1> DEFINE a == msg[2]
           b == msg[3]
           c == msg[4]
<1>1. a \in Seq(Item) /\ b \in Seq(Item) /\ c \in Seq(Item)
  <2>1. 2 \in 1..4 /\ 3 \in 1..4 /\ 4 \in 1..4
    OBVIOUS
  <2>. QED BY <2>1 DEF ItemsAreWire
<1>2. /\ \A k \in 1..Len(a) : IsRecord(a[k])
      /\ \A k \in 1..Len(b) : IsRecord(b[k])
      /\ \A k \in 1..Len(c) : IsRecord(c[k])
  <2>1. \A s, rr : s # 1 /\ IsWire(s, rr) => IsWire(2, rr)
    BY DEF IsWire, FieldsAt, FieldsEnd
  <2>2. ASSUME NEW s \in 2..4, NEW k \in 1..Len(msg[s]) PROVE IsRecord(msg[s][k])
    <3>1. s \in 1..4 /\ s # 1
      OBVIOUS
    <3>2. IsWire(2, msg[s][k]) /\ msg[s][k].to <= size /\ msg[s] \in Seq(Item)
      BY <2>1, <3>1 DEF ItemsAreWire
    <3>3. msg[s][k] \in Item
      BY <3>2, ElementOfSeq
    <3>. QED BY <3>2, <3>3 DEF IsRecord
  <2>3. 2 \in 2..4 /\ 3 \in 2..4 /\ 4 \in 2..4
    OBVIOUS
  <2>. QED BY <2>2, <2>3
<1>3. ASSUME NEW s \in Seq(Item), NEW t \in Seq(Item),
             \A k \in 1..Len(s) : IsRecord(s[k]), \A k \in 1..Len(t) : IsRecord(t[k])
      PROVE  s \o t \in Seq(Item) /\ \A k \in 1..Len(s \o t) : IsRecord((s \o t)[k])
  <2>1. /\ s \o t \in Seq(Item) /\ Len(s \o t) = Len(s) + Len(t)
        /\ \A k \in 1..(Len(s) + Len(t)) :
             (s \o t)[k] = IF k <= Len(s) THEN s[k] ELSE t[k - Len(s)]
    BY ConcatProperties
  <2>2. Len(s) \in Nat /\ Len(t) \in Nat
    BY LenProperties
  <2>3. ASSUME NEW k \in 1..(Len(s) + Len(t)) PROVE IsRecord((s \o t)[k])
    <3>1. k <= Len(s) => k \in 1..Len(s)
      BY <2>2
    <3>2. ~(k <= Len(s)) => k - Len(s) \in 1..Len(t)
      BY <2>2
    <3>. QED BY <1>3, <2>1, <3>1, <3>2
  <2>. QED BY <2>1, <2>3
<1> HIDE DEF a, b, c
<1>4. a \o b \in Seq(Item) /\ \A k \in 1..Len(a \o b) : IsRecord((a \o b)[k])
  BY <1>1, <1>2, <1>3
<1> DEFINE ab == a \o b
<1> HIDE DEF ab
<1>5. ab \o c \in Seq(Item) /\ \A k \in 1..Len(ab \o c) : IsRecord((ab \o c)[k])
  BY <1>1, <1>2, <1>3, <1>4 DEF ab
<1>6. Records = ab \o c
  BY DEF Records, ab, a, b, c
<1>. QED BY <1>5, <1>6

\* So they are, whenever the items are (RecordsAre, for the next state).
LEMMA RecordsTyped == ItemsAreWire => Records \in Seq(Item)
BY RecordsAre

\* The name that ends stops at an offset.
LEMMA NameEndIsOffset ==
  ASSUME buf \in Seq(Byte), NEW p \in Nat, Ends(p)
  PROVE  NameEnd(p) \in Nat
<1> DEFINE T == {k \in 1..(size + 1) : PointerAt(Chain(p)[k]) \/ EndAt(Chain(p)[k])}
<1>1. size \in Nat
  BY DEF size
<1>2. T # {} /\ T \subseteq Nat
  <2>1. size + 1 \in 1..(size + 1)
    BY <1>1
  <2>2. EndAt(Chain(p)[size + 1])
    BY <1>1, ChainSteps DEF Ends
  <2>. QED BY <1>1, <2>1, <2>2
<1>3. PICK k \in T : \A j \in T : k <= j
  BY <1>2, LeastNatural
<1>4. \A i \in 1..(k - 1) : ~PointerAt(Chain(p)[i]) /\ ~EndAt(Chain(p)[i])
  <2>1. \A i \in 1..(k - 1) : i \in 1..(size + 1) /\ ~(k <= i)
    BY <1>1, <1>3
  <2>. QED BY <1>3, <2>1
<1>5. NameEnd(p) = Chain(p)[k] + (IF PointerAt(Chain(p)[k]) THEN 2 ELSE 1)
  BY <1>1, <1>3, <1>4, NameStops
<1>6. Chain(p)[k] \in Nat
  BY <1>3, ChainType
<1>. QED BY <1>5, <1>6

\* The RDATA of a record lies behind the ten bytes of the other fields, and the
\* name in it, if there is one, starts inside the datagram.
LEMMA RdataIs ==
  ASSUME buf \in Seq(Byte), NEW rr, IsRecord(rr)
  PROVE  /\ NameEnd(rr.from) \in Nat
         /\ RdataOffset(rr) = NameEnd(rr.from) + 10
         /\ HasName(rr) => NameStart(rr) \in 0..size
<1> DEFINE e == NameEnd(rr.from)
           w == U16At(e + 8)
           q == Rdata(rr)
<1>1. /\ rr.from \in Nat /\ rr.to \in Nat /\ rr.fields \in Seq(Seq(Byte))
      /\ Ends(rr.from) /\ rr.to <= size
      /\ rr.fields = FieldsAt(2, e) /\ rr.to = FieldsEnd(2, e)
  BY DEF IsRecord, IsWire, Item
<1>2. e \in Nat
  BY <1>1, NameEndIsOffset
<1>3. w \in Nat
  <2>1. e + 8 \in Nat /\ e + 8 + 1 \in Nat
    BY <1>2
  <2>2. ByteAt(e + 8) \in 0..255 /\ ByteAt(e + 8 + 1) \in 0..255
    BY <2>1, Bytes DEF Byte
  <2>3. \A a, b \in 0..255 : a * 256 + b \in Nat
    OBVIOUS
  <2>. QED BY <2>2, <2>3 DEF U16At
<1>4. rr.to = e + 10 + w /\ q = BytesAt(e + 10, w)
  BY <1>1 DEF FieldsAt, FieldsEnd, Rdata
<1>5. Len(q) = w
  <2>1. e + 10 + w <= Len(buf) /\ Len(buf) \in Nat
    BY <1>1, <1>4 DEF size
  <2>2. \A i \in (e + 10 + 1)..(e + 10 + w) : i \in 1..Len(buf)
    BY <1>2, <1>3, <2>1
  <2>3. \A i \in (e + 10 + 1)..(e + 10 + w) : buf[i] \in Byte
    BY <2>2, ElementOfSeq
  <2>4. e + 10 + 1 \in Int /\ e + 10 + w \in Int
    BY <1>2, <1>3
  <2>5. Len(SubSeq(buf, e + 10 + 1, e + 10 + w))
          = IF e + 10 + 1 <= e + 10 + w THEN (e + 10 + w) - (e + 10 + 1) + 1 ELSE 0
    BY <2>3, <2>4, SubSeqProperties
  <2>6. q = SubSeq(buf, e + 10 + 1, e + 10 + w)
    BY <1>4, Zenon DEF BytesAt
  <2> HIDE DEF e, w, q
  <2>. QED BY <1>2, <1>3, <2>5, <2>6
<1>6. RdataOffset(rr) = e + 10
  <2>1. RdataOffset(rr) = rr.to - Len(q)
    BY DEF RdataOffset
  <2> HIDE DEF e, w, q
  <2>. QED BY <1>2, <1>3, <1>4, <1>5, <2>1
<1>7. HasName(rr) => NameStart(rr) \in 0..size
  <2>1. HasName(rr) => (TypeOf(rr) = SRV_TYPE => w > 6)
    BY <1>5 DEF HasName, PTR_TYPE, SRV_TYPE
  <2>2. size \in Nat
    BY DEF size
  <2> HIDE DEF e, w, q
  <2>. QED BY <1>1, <1>2, <1>3, <1>4, <1>6, <2>1, <2>2 DEF NameStart
<1>. QED BY <1>2, <1>6, <1>7

\* A text is made of the datagram and of nothing else.
LEMMA SameTexts ==
  ASSUME buf' = buf, msg' = msg
  PROVE  Records' = Records /\ \A rr : TextOf(rr)' = TextOf(rr)
<1>1. Records' = Records
  BY DEF Records
<1>2. ASSUME NEW rr PROVE TextOf(rr)' = TextOf(rr)
  <2>1. PICK p : p = NameStart(rr)
    OBVIOUS
  <2>2. /\ Ends(NameStart(rr))' = Ends(NameStart(rr))
        /\ TextAt(NameStart(rr))' = TextAt(NameStart(rr))
    BY SameDatagram
  <2>. QED BY <2>2 DEF TextOf
<1>. QED BY <1>1, <1>2

\* The texts stay as they are when none is added.
LEMMA TextsStay ==
  ASSUME TextsSoFar, buf' = buf, msg' = msg, texts' = texts
  PROVE  TextsSoFar'
BY SameTexts DEF TextsSoFar

\* The text of the next record is the next text.
LEMMA TextAdded ==
  ASSUME TextsSoFar, ItemsAreWire, buf' = buf, msg' = msg,
         Len(texts) < Len(Records), texts' = Append(texts, TextOf(Current))
  PROVE  TextsSoFar'
<1> DEFINE n == Len(texts)
           S == {TextOf(Records[k]) : k \in 1..(n + 1)}
<1>1. n \in Nat /\ Len(Records) \in Nat /\ n + 1 \in 0..Len(Records)
  <2>1. Len(Records) \in Nat
    BY RecordsAre, LenProperties
  <2>. QED BY <2>1 DEF TextsSoFar
<1>2. texts = [k \in 1..n |-> TextOf(Records[k])]
  BY DEF TextsSoFar
<1>3. texts \in Seq(S)
  <2>1. \A k \in 1..n : k \in 1..(n + 1)
    BY <1>1
  <2>2. texts \in [1..n -> S]
    BY <1>2, <2>1
  <2>. QED BY <1>1, <2>2, SeqDef
<1>4. TextOf(Current) \in S /\ TextOf(Current) = TextOf(Records[n + 1])
  <2>1. n + 1 \in 1..(n + 1)
    BY <1>1
  <2>. QED BY <2>1 DEF Current
<1> HIDE DEF S
<1>5. /\ texts' \in Seq(S) /\ Len(texts') = n + 1
      /\ \A k \in 1..n : texts'[k] = texts[k]
      /\ texts'[n + 1] = TextOf(Records[n + 1])
  BY <1>3, <1>4, AppendProperties
<1>6. \A k \in 1..(n + 1) : texts'[k] = TextOf(Records[k])
  <2>1. \A k \in 1..(n + 1) : k \in 1..n \/ k = n + 1
    BY <1>1
  <2>2. \A k \in 1..n : texts[k] = TextOf(Records[k])
    BY <1>2
  <2>. QED BY <1>5, <2>1, <2>2
<1>7. texts' = [k \in 1..(n + 1) |-> TextOf(Records[k])]
  <2>1. DOMAIN texts' = 1..(n + 1) /\ texts' = [k \in DOMAIN texts' |-> texts'[k]]
    BY <1>5, LenProperties
  <2>. QED BY <1>6, <2>1
<1>8. Records' = Records /\ \A rr : TextOf(rr)' = TextOf(rr)
  BY SameTexts
<1>. QED BY <1>1, <1>5, <1>7, <1>8 DEF TextsSoFar

\* decode() has returned the message: that is its invariant, and what is left
\* of it while a formatter runs.
LEMMA DecodedIsDone == pc = "done" /\ Bounded => (WInv <=> Decoded)
<1>. SUFFICES ASSUME pc = "done", Bounded PROVE WInv <=> Decoded
  OBVIOUS
<1>1. Busy /\ Shape /\ NameSoFar /\ FieldsSoFar
  BY DEF Busy, Shape, NameSoFar, FieldsSoFar
<1>2. Looped <=> why = "none"
  BY DEF Looped
<1>3. Progress <=> (\A s \in 1..4 : Complete(s)) /\ pos = EndOf(Items)
  BY DEF Progress
<1>. QED BY <1>1, <1>2, <1>3 DEF WInv, IInv, Decoded

\* The message stays what it is.
LEMMA DecodedStays ==
  ASSUME Decoded, buf' = buf, msg' = msg, why' = why, pos' = pos, name' \in Seq(Byte)
  PROVE  Decoded'
<1>1. ItemsAreWire' /\ Items' = Items
  BY ItemsStay DEF Decoded
<1>2. EndOf(Items)' = EndOf(Items)
  BY <1>1 DEF EndOf
<1>3. \A s : SectionCount(s)' = SectionCount(s)
  BY SameDatagram
<1>. QED BY <1>1, <1>2, <1>3 DEF Decoded, Complete

\* A formatter that returns, with the text its record should have, leaves the
\* message as decode() did.
LEMMA ReturnKeeps ==
  ASSUME TInv, caller = "formatter", NEW text, Return(text), text = TextOf(Current),
         high' \in Nat, high' <= size
  PROVE  TInv'
<1>1. /\ buf' = buf /\ msg' = msg /\ why' = why /\ name' = name /\ pos' = pos
      /\ npos' = npos /\ consumed' = consumed /\ jumped' = jumped
      /\ loop_count' = loop_count /\ section' = section /\ left' = left /\ from' = from
      /\ pc' = "done" /\ caller' = "none" /\ texts' = Append(texts, text)
  BY DEF Return, message, names, cursor
<1>2. /\ Bounded /\ TextsSoFar /\ Decoded /\ Len(texts) < Len(Records)
  BY DEF TInv, InFormatter
<1>3. Bounded'
  <2>1. jumped' \in BOOLEAN
    BY <1>1, <1>2 DEF Bounded, TypeOK
  <2>2. pc' \in {"header", "item", "name", "fields", "done", "throw"}
    BY <1>1
  <2>. QED BY <1>1, <1>2, <2>1, <2>2, BoundedOffsets, Kept
<1>4. TextsSoFar'
  BY <1>1, <1>2, TextAdded DEF Decoded
<1>5. Decoded'
  BY <1>1, <1>2, DecodedStays DEF Decoded
<1>6. WInv'
  <2>1. (pc = "done")'
    BY <1>1
  <2>. QED BY <2>1, <1>3, <1>5, DecodedIsDone, PTL
<1>. QED BY <1>1, <1>3, <1>4, <1>6 DEF TInv

\* What a formatter has of the record it is at.
LEMMA FormatterIs ==
  ASSUME TInv, caller = "formatter"
  PROVE  /\ Bounded /\ TextsSoFar /\ InFormatter /\ Decoded
         /\ IsRecord(Current) /\ HasName(Current) /\ NameStart(Current) \in 0..size
<1>1. Bounded /\ TextsSoFar /\ InFormatter
  BY DEF TInv
<1>2. Decoded /\ HasName(Current) /\ Len(texts) < Len(Records)
  BY <1>1 DEF InFormatter
<1>3. IsRecord(Current)
  <2>1. Records \in Seq(Item) /\ \A k \in 1..Len(Records) : IsRecord(Records[k])
    BY <1>2, RecordsAre DEF Decoded
  <2>2. Len(texts) + 1 \in 1..Len(Records)
    <3>1. Len(texts) \in 0..Len(Records) /\ Len(Records) \in Nat
      BY <1>1, <2>1, LenProperties DEF TextsSoFar
    <3>. QED BY <1>2, <3>1
  <2>. QED BY <2>1, <2>2 DEF Current
<1>4. NameStart(Current) \in 0..size
  BY <1>1, <1>2, <1>3, BoundedOffsets, RdataIs
<1>. QED BY <1>1, <1>2, <1>3, <1>4

\* The terminator: the formatter gets the text of the chain it went along.
LEMMA NameEndsKeeps ==
  ASSUME TInv, NameEnds
  PROVE  TInv'
<1>1. /\ caller = "formatter" /\ Iterating /\ LabelLen = Terminator /\ Reading(npos + 1)
      /\ Return(NamedText(Current, name))
  BY DEF NameEnds
<1>2. PICK p : p = NameStart(Current)
  OBVIOUS
<1>3. Bounded /\ HasName(Current) /\ WalksFrom(p)
  BY <1>1, <1>2, FormatterIs DEF InFormatter, WalksFrom
<1>4. Ends(p) /\ name = TextAt(p)
  BY <1>1, <1>3, WalkEnds
<1>5. NamedText(Current, name) = TextOf(Current)
  BY <1>2, <1>3, <1>4 DEF TextOf
<1>6. high' \in Nat /\ high' <= size
  <2>1. npos + 1 \in Nat /\ npos + 1 <= size
    BY <1>1, <1>3, Inside, BoundedOffsets
  <2>. QED BY <1>1, <1>3, <2>1, BoundedOffsets, Read
<1>. QED BY <1>1, <1>5, <1>6, ReturnKeeps

\* What parse_qname refuses is a name that does not end: it is cut off, points
\* outside, holds what is no label, or never ends.
LEMMA RefusedIsEndless ==
  ASSUME Bounded, NEW p \in Nat, WalksFrom(p), pc = "name", Refused
  PROVE  ~Ends(p)
<1> DEFINE n == loop_count
           c == Chain(p)
<1>1. /\ buf \in Seq(Byte) /\ size \in Nat /\ n \in 0..size /\ npos \in 0..size
      /\ npos = c[n + 1]
  BY BoundedOffsets DEF WalksFrom
<1>2. n + 1 \in 1..(size + 1)
  BY <1>1
<1>3. CASE npos >= size
  <2>1. ~Moves(npos) /\ ~EndAt(npos)
    BY <1>1, <1>3 DEF Moves, LabelAt, PointerAt, EndAt
  <2>. QED BY <1>1, <1>2, <2>1, NameIsStuck
<1>4. CASE npos < size /\ n + 1 > LoopLimit
  <2>1. Cyclic(p)
    <3>1. n = size
      BY <1>1, <1>4 DEF LoopLimit
    <3>. QED BY <1>1, <1>4, <3>1, NameLoops DEF WalksFrom
  <2>2. Moves(Last(Chain(p)))
    BY <2>1 DEF Cyclic
  <2>. QED BY <2>2, Kinds DEF Ends
<1>5. CASE Iterating
  <2>1. /\ n + 1 \in 1..size /\ npos \in Nat /\ npos < size /\ LabelLen \in 0..255
        /\ c[n + 2] = Hop(npos)
    BY <1>5, WalkIterates
  <2>2. n + 2 \in 1..(size + 1)
    BY <1>1, <2>1
  <2>3. CASE IsPointer /\ ~PointerFits
    <3>1. LabelLen >= 192 /\ ~(npos + 1 < size)
      BY <2>3 DEF IsPointer, PointerFits
    <3>2. ~PointerAt(npos)
      BY <3>1 DEF PointerAt
    <3>3. ~LabelAt(npos) /\ ~EndAt(npos)
      BY <2>1, <3>1 DEF LabelAt, EndAt, LabelLen, Terminator
    <3>. QED BY <1>1, <1>2, <3>2, <3>3, NameIsStuck DEF Moves
  <2>4. CASE IsPointer /\ PointerFits /\ ~TargetInside
    <3>1. LabelLen >= 192 /\ npos + 1 < size /\ ~(PointerTarget < size)
      BY <2>4 DEF IsPointer, PointerFits, TargetInside
    <3>2. PointerAt(npos)
      BY <3>1 DEF PointerAt, LabelLen
    <3>3. Pointee(npos) = PointerTarget /\ PointerTarget \in Nat
      <4>1. \A a \in 0..255 : a >= 192 => a % 64 = a - 192
        OBVIOUS
      <4>2. LabelLen % 64 = LabelLen - 192
        BY <2>1, <3>1, <4>1
      <4>3. Pointee(npos) = PointerTarget
        BY <4>2 DEF Pointee, PointerTarget, LabelLen
      <4>. QED BY <1>1, <2>1, <4>3, Targets
    <3>4. c[n + 2] = PointerTarget
      BY <2>1, <3>2, <3>3, Kinds
    <3>5. ~Moves(PointerTarget) /\ ~EndAt(PointerTarget)
      BY <1>1, <3>1, <3>3 DEF Moves, LabelAt, PointerAt, EndAt
    <3>. QED BY <1>1, <2>2, <3>4, <3>5, NameIsStuck
  <2>5. CASE LabelLen \in 64..191
    <3>1. ~LabelAt(npos) /\ ~EndAt(npos) /\ ~PointerAt(npos)
      BY <2>5 DEF LabelAt, EndAt, PointerAt, LabelLen, Terminator
    <3>. QED BY <1>1, <1>2, <3>1, NameIsStuck DEF Moves
  <2>6. CASE IsLabel /\ ~LabelFits
    <3>1. LabelAt(npos)
      BY <2>1, <2>6 DEF IsLabel, LabelAt, LabelLen
    <3>2. c[n + 2] = npos + 1 + LabelLen
      BY <2>1, <3>1, Kinds DEF LabelLen
    <3>3. npos + 1 + LabelLen \in Nat /\ npos + 1 + LabelLen > size
      BY <1>1, <2>1, <2>6 DEF LabelFits
    <3>4. PICK o : o = npos + 1 + LabelLen
      OBVIOUS
    <3>5. ~Moves(o) /\ ~EndAt(o)
      BY <1>1, <3>3, <3>4 DEF Moves, LabelAt, PointerAt, EndAt
    <3>. QED BY <1>1, <2>2, <3>2, <3>4, <3>5, NameIsStuck
  <2>. QED BY <1>3, <1>4, <2>3, <2>4, <2>5, <2>6 DEF Refused
<1>. QED BY <1>3, <1>4, <1>5 DEF Refused

\* The formatter catches the exception, and says so exactly of such a name.
LEMMA NameCaughtKeeps ==
  ASSUME TInv, NameCaught
  PROVE  TInv'
<1>1. caller = "formatter" /\ Refused /\ Return(CaughtText(Current))
  BY DEF NameCaught
<1>2. PICK p : p = NameStart(Current)
  OBVIOUS
<1>3. Bounded /\ HasName(Current) /\ WalksFrom(p) /\ pc = "name" /\ p \in 0..size
  BY <1>1, <1>2, FormatterIs DEF InFormatter, WalksFrom
<1>4. ~Ends(p)
  BY <1>1, <1>3, BoundedOffsets, RefusedIsEndless
<1>5. CaughtText(Current) = TextOf(Current)
  BY <1>2, <1>3, <1>4 DEF TextOf
<1>6. high' \in Nat /\ high' <= size
  <2>1. CASE UNCHANGED high
    BY <1>3, <2>1, BoundedOffsets
  <2>2. CASE Iterating /\ Reading(npos + 1)
    <3>1. npos + 1 \in Nat /\ npos + 1 <= size
      BY <1>3, <2>2, Inside, BoundedOffsets
    <3>. QED BY <1>3, <2>2, <3>1, BoundedOffsets, Read
  <2>3. CASE PointerFits /\ Reading(npos + 2)
    <3>1. npos + 2 \in Nat /\ npos + 2 <= size
      BY <1>3, <2>3, BoundedOffsets DEF PointerFits
    <3>. QED BY <1>3, <2>3, <3>1, BoundedOffsets, Read
  <2>. QED BY <1>1, <2>1, <2>2, <2>3 DEF Refused
<1>. QED BY <1>1, <1>5, <1>6, ReturnKeeps

\* The iterations that go on are those of decode().
LEMMA NameGoesOnKeeps ==
  ASSUME TInv, NameGoesOn
  PROVE  TInv'
<1>1. /\ caller = "formatter" /\ (Jump \/ Label) /\ caller' = caller /\ texts' = texts
  BY DEF NameGoesOn
<1>2. /\ buf' = buf /\ msg' = msg /\ why' = why /\ pos' = pos /\ pc' = pc
  BY <1>1 DEF Jump, Label, message, cursor
<1>3. PICK p : p = NameStart(Current)
  OBVIOUS
<1>4. /\ Bounded /\ TextsSoFar /\ Decoded /\ HasName(Current) /\ WalksFrom(p)
      /\ pc = "name" /\ Len(texts) < Len(Records)
  BY <1>1, <1>3, FormatterIs DEF InFormatter, WalksFrom
<1>5. Bounded'
  BY <1>1, <1>4, JumpInside, LabelInside
<1>6. WalksFrom(p)'
  BY <1>1, <1>4, WalkJump, WalkLabel
<1>7. TextsSoFar'
  BY <1>1, <1>2, <1>4, TextsStay
<1>8. Current' = Current /\ Records' = Records
  BY <1>1, <1>2 DEF Current, Records
<1>9. Decoded'
  <2>1. name' \in Seq(Byte)
    BY <1>1, <1>4, NameStaysText DEF Decoded
  <2>. QED BY <1>2, <1>4, <2>1, DecodedStays
<1>10. InFormatter'
  <2>1. (caller = "formatter" /\ pc = "name" /\ Len(texts) < Len(Records))'
    BY <1>1, <1>2, <1>4, <1>8
  <2>2. HasName(Current)' /\ NameStart(Current)' = p
    BY <1>3, <1>4, <1>8
  <2>. QED BY <1>6, <1>9, <2>1, <2>2 DEF InFormatter, WalksFrom
<1>. QED BY <1>5, <1>7, <1>10 DEF TInv

\* A response that is to be formatted has been decoded.
LEMMA FormattingIs ==
  ASSUME TInv, Formatting
  PROVE  /\ caller = "none" /\ Bounded /\ TextsSoFar /\ WInv /\ Decoded /\ pc = "done"
         /\ Len(texts) < Len(Records) /\ IsRecord(Current)
<1>1. pc = "done" /\ Len(texts) < Len(Records)
  BY DEF Formatting
<1>2. caller = "none" /\ Bounded /\ TextsSoFar /\ WInv
  BY <1>1 DEF TInv, InFormatter
<1>3. Decoded
  BY <1>1, <1>2, DecodedIsDone
<1>4. IsRecord(Current)
  <2>1. Records \in Seq(Item) /\ \A k \in 1..Len(Records) : IsRecord(Records[k])
    BY <1>3, RecordsAre DEF Decoded
  <2>2. Len(texts) + 1 \in 1..Len(Records)
    <3>1. Len(texts) \in 0..Len(Records) /\ Len(Records) \in Nat
      BY <1>2, <2>1, LenProperties DEF TextsSoFar
    <3>. QED BY <1>1, <3>1
  <2>. QED BY <2>1, <2>2 DEF Current
<1>. QED BY <1>1, <1>2, <1>3, <1>4

\* A text that needs no name changes the texts only.
LEMMA FormatPlainKeeps ==
  ASSUME TInv, FormatPlain
  PROVE  TInv'
<1>1. /\ Formatting /\ ~HasName(Current) /\ UNCHANGED vars /\ caller' = caller
      /\ texts' = Append(texts, PlainText(Current))
  BY DEF FormatPlain
<1>2. /\ caller = "none" /\ TextsSoFar /\ WInv /\ Decoded /\ pc = "done"
      /\ Len(texts) < Len(Records)
  BY <1>1, FormattingIs
<1>3. PlainText(Current) = TextOf(Current)
  BY <1>1 DEF TextOf
<1>4. buf' = buf /\ msg' = msg /\ pc' = pc
  BY <1>1 DEF vars, message
<1>5. TextsSoFar'
  BY <1>1, <1>2, <1>3, <1>4, TextAdded DEF Decoded
<1>6. IInv'
  BY <1>1, <1>2, Stutter DEF WInv
<1>7. WInv'
  BY <1>1, <1>2, <1>6, StutterWire
<1>8. Bounded'
  BY <1>6 DEF IInv
<1>. QED BY <1>1, <1>2, <1>4, <1>5, <1>7, <1>8 DEF TInv

\* parse_qname is entered where the name of the record starts.
LEMMA FormatNameKeeps ==
  ASSUME TInv, FormatName
  PROVE  TInv'
<1>1. /\ Formatting /\ HasName(Current)
      /\ npos' = NameStart(Current) /\ consumed' = NameStart(Current) /\ jumped' = FALSE
      /\ loop_count' = 0 /\ name' = <<>> /\ pc' = "name" /\ caller' = "formatter"
      /\ buf' = buf /\ msg' = msg /\ why' = why /\ high' = high /\ texts' = texts
      /\ section' = section /\ left' = left /\ from' = from /\ pos' = pos
  BY DEF FormatName, message, cursor
<1>2. /\ Bounded /\ TextsSoFar /\ Decoded /\ Len(texts) < Len(Records) /\ IsRecord(Current)
  BY <1>1, FormattingIs
<1>3. PICK p : p = NameStart(Current)
  OBVIOUS
<1>4. p \in 0..size
  BY <1>1, <1>2, <1>3, BoundedOffsets, RdataIs
<1>5. Bounded'
  <2>1. 0 \in 0..size
    BY <1>2, BoundedOffsets
  <2>2. jumped' \in BOOLEAN /\ pc' \in {"header", "item", "name", "fields", "done", "throw"}
    BY <1>1
  <2>. QED BY <1>1, <1>2, <1>3, <1>4, <2>1, <2>2, BoundedOffsets, Kept
<1>6. WalksFrom(p)'
  BY <1>1, <1>2, <1>3, BoundedOffsets, WalkBegins
<1>7. TextsSoFar'
  BY <1>1, <1>2, TextsStay
<1>8. Decoded'
  <2>1. name' \in Seq(Byte)
    BY <1>1, EmptySeq
  <2>. QED BY <1>1, <1>2, <2>1, DecodedStays
<1>9. InFormatter'
  <2>1. Current' = Current /\ Records' = Records
    BY <1>1 DEF Current, Records
  <2>2. (caller = "formatter" /\ pc = "name" /\ Len(texts) < Len(Records))'
    BY <1>1, <1>2, <2>1
  <2>3. HasName(Current)' /\ NameStart(Current)' = p
    BY <1>1, <1>3, <2>1
  <2>. QED BY <1>6, <1>8, <2>2, <2>3 DEF InFormatter, WalksFrom
<1>. QED BY <1>5, <1>7, <1>9 DEF TInv

\* While decode() runs there are no texts.
LEMMA DecodingKeeps ==
  ASSUME TInv, Decoding
  PROVE  TInv'
<1>1. caller = "none" /\ Next /\ caller' = caller /\ texts' = texts
  BY DEF Decoding
<1>2. WInv /\ TextsSoFar /\ (texts # <<>> => pc = "done")
  BY <1>1 DEF TInv, InFormatter
<1>3. pc # "done"
  BY <1>1 DEF Next, ShortHeader, Header, NextSection, ItemPastEnd, StartItem, Name,
              Unterminated, Runaway, Iterating, EndOfName, PointerTruncated, PointerOutside,
              Jump, BadLabel, LabelPastEnd, Label, FieldPastEnd, Field
<1>4. texts' = <<>>
  BY <1>1, <1>2, <1>3
<1>5. WInv'
  BY <1>1, <1>2, WireKeeps
<1>6. Bounded'
  BY <1>5 DEF WInv, IInv
<1>7. TextsSoFar'
  <2>1. Len(Records)' \in Nat
    <3>1. ItemsAreWire'
      BY <1>5 DEF WInv
    <3>2. (Records \in Seq(Item))'
      BY <3>1, RecordsTyped, PTL
    <3>. QED BY <3>2, LenProperties
  <2>2. Len(<<>>) = 0 /\ <<>> = [k \in 1..0 |-> TextOf(Records[k])']
    BY EmptySeq
  <2>. QED BY <1>4, <2>1, <2>2 DEF TextsSoFar
<1>. QED BY <1>1, <1>4, <1>5, <1>6, <1>7 DEF TInv

\* A step that changes nothing.
LEMMA TextStutter ==
  ASSUME TInv, UNCHANGED textVars
  PROVE  TInv'
<1>1. UNCHANGED vars /\ caller' = caller /\ texts' = texts
  BY DEF textVars
<1>2. /\ buf' = buf /\ msg' = msg /\ pc' = pc /\ why' = why /\ section' = section
      /\ left' = left /\ from' = from /\ pos' = pos /\ npos' = npos
      /\ consumed' = consumed /\ jumped' = jumped /\ loop_count' = loop_count
      /\ name' = name /\ fields' = fields /\ high' = high
  BY <1>1 DEF vars, message, names, cursor
<1>3. Bounded /\ TextsSoFar
  BY DEF TInv
<1>4. TextsSoFar'
  BY <1>1, <1>2, <1>3, TextsStay
<1>5. Bounded'
  <2>1. jumped' \in BOOLEAN /\ pc' \in {"header", "item", "name", "fields", "done", "throw"}
    BY <1>2, <1>3 DEF Bounded, TypeOK
  <2>. QED BY <1>2, <1>3, <2>1, BoundedOffsets, Kept
<1>6. CASE caller = "none" /\ WInv /\ (texts # <<>> => pc = "done")
  <2>1. WInv'
    BY <1>1, <1>6, WireKeeps
  <2>. QED BY <1>1, <1>2, <1>4, <1>5, <1>6, <2>1 DEF TInv
<1>7. CASE InFormatter
  <2>1. PICK p : p = NameStart(Current)
    OBVIOUS
  <2>2. /\ Decoded /\ HasName(Current) /\ WalksFrom(p) /\ caller = "formatter"
        /\ pc = "name" /\ Len(texts) < Len(Records)
    BY <1>7, <2>1 DEF InFormatter, WalksFrom
  <2>3. WalksFrom(p)'
    BY <1>2, <2>2, SameDatagram DEF WalksFrom
  <2>4. Decoded'
    BY <1>2, <2>2, DecodedStays DEF Decoded
  <2>5. Current' = Current /\ Records' = Records
    BY <1>1, <1>2 DEF Current, Records
  <2>6. (caller = "formatter" /\ pc = "name" /\ Len(texts) < Len(Records))'
    BY <1>1, <1>2, <2>2, <2>5
  <2>7. HasName(Current)' /\ NameStart(Current)' = p
    BY <2>1, <2>2, <2>5
  <2>. QED BY <1>4, <1>5, <2>3, <2>4, <2>6, <2>7 DEF TInv, InFormatter, WalksFrom
<1>. QED BY <1>6, <1>7 DEF TInv

\* There are no texts before there are records.
LEMMA TInvInit == TextInit => TInv
<1>. SUFFICES ASSUME TextInit PROVE TInv
  OBVIOUS
<1>1. WInv /\ caller = "none" /\ texts = <<>>
  BY WInvInit DEF TextInit
<1>2. Len(Records) \in Nat
  BY <1>1, RecordsAre, LenProperties DEF WInv
<1>3. TextsSoFar
  BY <1>1, <1>2, EmptySeq DEF TextsSoFar
<1>. QED BY <1>1, <1>3 DEF TInv, WInv, IInv

-----------------------------------------------------------------------------
(* The theorems about decode() and the formatters behind it *)

\* At every moment from the first byte of a datagram to the text of its last
\* record, whatever the datagram: the decoder's invariant holds or a formatter
\* is on the chain of the name it reads, in bounds; and the texts so far are
\* those of the records.
THEOREM TextInvariance == TextSpec => []TInv
<1>1. TInv /\ [TextNext]_textVars => TInv'
  BY DecodingKeeps, FormatPlainKeeps, FormatNameKeeps, NameGoesOnKeeps, NameEndsKeeps,
     NameCaughtKeeps, TextStutter DEF TextNext
<1>. QED BY TInvInit, <1>1, PTL DEF TextSpec

\* What the runs of parse_qname for the formatters do keeps the offsets inside
\* and reads nothing outside, as decode() does, from wherever in the datagram
\* they start.
THEOREM FormattersStayInside == TextSpec => [](TypeOK /\ ReadsInBounds)
<1>1. TInv => TypeOK /\ ReadsInBounds
  BY DEF TInv, Bounded
<1>. QED BY TextInvariance, <1>1, PTL

\* Every record of a response has the text the datagram spells: the name in its
\* RDATA as RFC 1035 reads it, or "malformed" exactly when that name does not
\* end, and no record's text depends on the one before (rdata_str).
THEOREM TextsReadAsSent == TextSpec => []TextsAreWire
<1>1. TInv => TextsAreWire
  <2>. SUFFICES ASSUME TInv, pc = "done", NEW k \in 1..Len(texts)
                PROVE  LET rr == Records[k]
                           rdataStart == NameEnd(rr.from) + 10
                           start == IF TypeOf(rr) = SRV_TYPE THEN rdataStart + 6 ELSE rdataStart
                       IN  texts[k] = CASE ~HasName(rr) -> PlainText(rr)
                                        [] HasName(rr) /\ Ends(start) -> NamedText(rr, TextAt(start))
                                        [] HasName(rr) /\ ~Ends(start) -> CaughtText(rr)
    BY DEF TextsAreWire
  <2>1. /\ Bounded /\ WInv /\ Len(texts) \in 0..Len(Records)
        /\ texts[k] = TextOf(Records[k])
    BY DEF TInv, InFormatter, TextsSoFar
  <2>2. IsRecord(Records[k])
    <3>1. /\ Records \in Seq(Item)
          /\ \A i \in 1..Len(Records) : IsRecord(Records[i])
      BY <2>1, RecordsAre DEF WInv
    <3>2. k \in 1..Len(Records)
      BY <2>1, <3>1, LenProperties
    <3>. QED BY <3>1, <3>2
  <2>3. PICK rr : rr = Records[k]
    OBVIOUS
  <2>4. NameEnd(rr.from) \in Nat /\ RdataOffset(rr) = NameEnd(rr.from) + 10
    BY <2>1, <2>2, <2>3, BoundedOffsets, RdataIs
  <2> DEFINE start == IF TypeOf(rr) = SRV_TYPE THEN NameEnd(rr.from) + 10 + 6
                      ELSE NameEnd(rr.from) + 10
  <2>5. NameStart(rr) = start
    BY <2>4 DEF NameStart
  <2> HIDE DEF start
  <2>6. texts[k] = CASE ~HasName(rr) -> PlainText(rr)
                     [] HasName(rr) /\ Ends(start) -> NamedText(rr, TextAt(start))
                     [] HasName(rr) /\ ~Ends(start) -> CaughtText(rr)
    BY <2>1, <2>3, <2>5 DEF TextOf
  <2>. QED BY <2>3, <2>6 DEF start
<1>. QED BY TextInvariance, <1>1, PTL

\* The formatters leave the message as decode() returned it, and its verdicts
\* on names as they were.
THEOREM FormattersKeepMessage == TextSpec => [](MessageIsWire /\ LoopVerdict)
<1>1. TInv => MessageIsWire /\ LoopVerdict
  <2>1. WInv => MessageIsWire /\ LoopVerdict
    BY WireIsMessage, LoopsAreVerdicts
  <2>2. InFormatter => MessageIsWire /\ LoopVerdict
    BY DEF InFormatter, Decoded, MessageIsWire, LoopVerdict
  <2>. QED BY <2>1, <2>2 DEF TInv
<1>. QED BY TextInvariance, <1>1, PTL

-----------------------------------------------------------------------------
(* The scanner's queries: where decode() is in one, and what it has read   *)
(* of it                                                                   *)

\* An item is the question.
ReadAs(item, question) ==
  /\ item.name = Joined(LabelsOf(question.qname))
  /\ item.fields = <<<<High(question.qtype), Low(question.qtype)>>,
                     <<High(question.class_code), Low(question.class_code)>>>>

\* decode() of query q has read its first questions, is before or in the next
\* one, or behind the last, and has thrown nothing.
Reached == Len(msg[1]) + 1
NameSoFarIs(q) ==
  \E j \in 0..Len(Asked(q, Reached)) :
    /\ loop_count = j /\ npos = Place(q, Reached, j) /\ ~jumped
    /\ name = Joins(Asked(q, Reached))[j]
FieldsSoFarAre(q) ==
  /\ name = Joined(Asked(q, Reached))
  /\ pos = (Place(q, Reached, Len(Asked(q, Reached))) + 1) + 2 * Len(fields)
  /\ Len(fields) = 1 => fields[1] = <<High(q[Reached].qtype), Low(q[Reached].qtype)>>
QuestionsSoFar(q) ==
  /\ pc # "throw"
  /\ \A k \in 1..Len(msg[1]) : ReadAs(msg[1][k], q[k])
  /\ pc = "item" /\ section = 1 => pos = Start(q, Reached)
  /\ pc = "name" => NameSoFarIs(q)
  /\ pc = "fields" => FieldsSoFarAre(q)

\* The header of a query announces its questions and nothing else.
LEMMA QueryCounts ==
  ASSUME NEW q \in Queries, buf = Build(q)
  PROVE  /\ size \in Nat /\ 12 <= size
         /\ SectionCount(1) = Len(q) /\ \A s \in 2..4 : SectionCount(s) = 0
<1>1. /\ buf \in Seq(Byte) /\ size \in Nat /\ 12 <= size
      /\ buf[5] = High(Len(q)) /\ buf[6] = Low(Len(q)) /\ \A i \in 7..12 : buf[i] = 0
  BY BuildBytes, QuestionsLie, LenProperties DEF size
<1>2. \A i \in 0..11 : ByteAt(i) = buf[i + 1]
  BY <1>1 DEF ByteAt
<1>3. Len(q) \in Word
  BY QueriesAssumption
<1>4. SectionCount(1) = Len(q)
  <2>1. 2 + 2 * 1 = 4 /\ 4 \in 0..11 /\ 5 \in 0..11 /\ 4 + 1 = 5 /\ 5 + 1 = 6
    OBVIOUS
  <2>2. SectionCount(1) = ByteAt(4) * 256 + ByteAt(5)
    BY <2>1 DEF SectionCount, U16At
  <2>3. ByteAt(4) = High(Len(q)) /\ ByteAt(5) = Low(Len(q))
    BY <1>1, <1>2, <2>1
  <2>4. \A n \in Nat : 256 * (n \div 256) + (n % 256) = n
    BY SMT
  <2>5. Len(q) \in Nat /\ Len(q) \div 256 \in 0..255 /\ Len(q) % 256 \in 0..255
    BY <1>3, WordBytes, Zenon
  <2>6. PICK a, b \in 0..255 : a = Len(q) \div 256 /\ b = Len(q) % 256
    BY <2>5, Zenon
  <2>7. High(Len(q)) = a /\ Low(Len(q)) = b
    BY <2>6, Zenon DEF High, Low
  <2>8. 256 * a + b = Len(q)
    BY <2>4, <2>5, <2>6, Zenon
  <2>9. a * 256 + b = 256 * a + b
    OBVIOUS
  <2>. QED BY <2>2, <2>3, <2>7, <2>8, <2>9
<1>5. ASSUME NEW s \in 2..4
      PROVE  SectionCount(s) = 0
  <2>1. /\ 2 + 2 * s \in 0..11 /\ (2 + 2 * s) + 1 \in 0..11
        /\ (2 + 2 * s) + 1 \in 7..12 /\ ((2 + 2 * s) + 1) + 1 \in 7..12
    OBVIOUS
  <2>2. ByteAt(2 + 2 * s) = 0 /\ ByteAt((2 + 2 * s) + 1) = 0
    BY <1>1, <1>2, <2>1
  <2>. QED BY <2>2 DEF SectionCount, U16At
<1>. QED BY <1>1, <1>4, <1>5

\* So nothing is left behind the questions.
LEMMA OnlyQuestions ==
  ASSUME WInv, NEW q \in Queries, buf = Build(q)
  PROVE  /\ Len(msg[1]) \in Nat
         /\ pc = "header" => Len(msg[1]) = 0
         /\ pc \in {"item", "name", "fields"} =>
              /\ left > 0 => section = 1 /\ Reached \in 1..Len(q)
              /\ section = 1 => left = Len(q) - Len(msg[1])
         /\ pc = "done" => Len(msg[1]) = Len(q)
<1>1. msg \in [1..4 -> Seq(Item)] /\ section \in 1..4 /\ left \in Nat
  BY DEF WInv, IInv, Bounded, TypeOK, ItemsAreWire
<1>2. \A s \in 1..4 : msg[s] \in Seq(Item) /\ Len(msg[s]) \in Nat
  BY <1>1, LenProperties
<1>3. SectionCount(1) = Len(q) /\ \A s \in 2..4 : SectionCount(s) = 0
  BY QueryCounts
<1>4. pc = "header" => Len(msg[1]) = 0
  BY EmptySeq DEF WInv, Progress
<1>5. ASSUME pc \in {"item", "name", "fields"}
      PROVE  /\ left > 0 => section = 1 /\ Reached \in 1..Len(q)
             /\ section = 1 => left = Len(q) - Len(msg[1])
  <2>1. Len(msg[section]) + left = SectionCount(section)
    BY <1>5 DEF WInv, Progress
  <2>2. CASE section = 1
    <3>1. Len(msg[1]) + left = Len(q) /\ Len(msg[1]) \in Nat
      BY <1>2, <1>3, <2>1, <2>2
    <3>. QED BY <1>1, <2>2, <3>1 DEF Reached
  <2>3. CASE section # 1
    <3>1. section \in 2..4
      BY <1>1, <2>3
    <3>2. Len(msg[section]) + left = 0 /\ Len(msg[section]) \in Nat
      BY <1>2, <1>3, <2>1, <3>1
    <3>. QED BY <1>1, <2>3, <3>2
  <2>. QED BY <2>2, <2>3
<1>6. pc = "done" => Len(msg[1]) = Len(q)
  BY <1>3 DEF WInv, Progress, Complete
<1>. QED BY <1>2, <1>4, <1>5, <1>6

\* Where the name of a question is read, it lies.
LEMMA InQuestion ==
  ASSUME WInv, NEW q \in Queries, buf = Build(q), NEW k \in 1..Len(q)
  PROVE  /\ QuestionLies(buf, q, k) /\ size \in Nat
         /\ \A j \in 0..Len(Asked(q, k)) : Place(q, k, j) \in Nat /\ j <= Place(q, k, j) /\ Place(q, k, j) < size
         /\ ByteAt(Place(q, k, Len(Asked(q, k)))) = Terminator
         /\ \A j \in 0..(Len(Asked(q, k)) - 1) :
              LET p == Place(q, k, j)
                  label == Asked(q, k)[j + 1]
              IN  /\ ByteAt(p) = Len(label) /\ Len(label) \in 1..63 /\ (p + 1) + Len(label) <= size
                  /\ SubSeq(buf, p + 2, (p + 1) + Len(label)) = label
                  /\ Place(q, k, j + 1) = (p + 1) + Len(label)
<1> DEFINE labels == Asked(q, k)
<1>1. QuestionLies(buf, q, k) /\ buf \in Seq(Byte) /\ size \in Nat /\ size = Len(buf)
  BY QuestionsLie, BuildBytes, LenProperties DEF size
<1>2. /\ AreLabels(labels)
      /\ \A n \in 0..Len(labels) : Place(q, k, n) \in Nat /\ n <= Place(q, k, n)
      /\ \A n \in 1..Len(labels) :
           /\ LabelLies(buf, Place(q, k, n - 1), labels[n]) /\ Len(labels[n]) \in 1..63
           /\ Place(q, k, n) = (Place(q, k, n - 1) + 1) + Len(labels[n])
      /\ Place(q, k, Len(labels)) + 5 <= Len(buf)
      /\ buf[Place(q, k, Len(labels)) + 1] = Terminator
  BY <1>1 DEF QuestionLies
<1> HIDE DEF labels
<1>3. labels \in Seq(Seq(Byte)) /\ Len(labels) \in Nat
  BY <1>2, LenProperties DEF AreLabels
<1>4. Place(q, k, Len(labels)) \in Nat /\ Place(q, k, Len(labels)) < size
  <2>1. Len(labels) \in 0..Len(labels)
    BY <1>3
  <2>2. Place(q, k, Len(labels)) \in Nat
    BY <1>2, <2>1
  <2>. QED BY <1>1, <1>2, <2>2
<1>5. ByteAt(Place(q, k, Len(labels))) = Terminator
  BY <1>2, <1>4 DEF ByteAt
<1>6. ASSUME NEW j \in 0..(Len(labels) - 1), NEW p, p = Place(q, k, j), NEW label, label = labels[j + 1]
      PROVE  /\ p \in Nat /\ p < size
             /\ ByteAt(p) = Len(label) /\ Len(label) \in 1..63 /\ (p + 1) + Len(label) <= size
             /\ SubSeq(buf, p + 2, (p + 1) + Len(label)) = label
             /\ Place(q, k, j + 1) = (p + 1) + Len(label)
  <2>1. j + 1 \in 1..Len(labels) /\ (j + 1) - 1 = j /\ j \in 0..Len(labels)
    BY <1>3
  <2>2. /\ LabelLies(buf, p, label) /\ Len(label) \in 1..63
        /\ Place(q, k, j + 1) = (p + 1) + Len(label) /\ label \in Seq(Byte)
    BY <1>2, <1>3, <1>6, <2>1, ElementOfSeq
  <2>3. /\ p \in Nat /\ (p + 1) + Len(label) <= size
        /\ buf[p + 1] = Low(Len(label)) /\ \A i \in 1..Len(label) : buf[(p + 1) + i] = label[i]
    BY <1>1, <2>2 DEF LabelLies
  <2>4. p < size
    BY <1>1, <2>2, <2>3
  <2>5. ByteAt(p) = Len(label)
    <3>1. \A n \in 1..63 : n % 256 = n
      OBVIOUS
    <3>. QED BY <2>2, <2>3, <2>4, <3>1 DEF ByteAt, Low
  <2>6. SubSeq(buf, p + 2, (p + 1) + Len(label)) = label
    <3>1. PICK m, n \in Int : m = p + 2 /\ n = (p + 1) + Len(label)
      BY <2>2, <2>3
    <3>2. \A i \in m..n : i \in 1..Len(buf)
      BY <1>1, <2>2, <2>3, <3>1
    <3>3. \A i \in m..n : buf[i] \in Byte
      BY <1>1, <3>2, ElementOfSeq
    <3>4. PICK s : s = SubSeq(buf, m, n)
      OBVIOUS
    <3>5. /\ s \in Seq(Byte) /\ Len(s) = (IF m <= n THEN n - m + 1 ELSE 0)
          /\ \A i \in 1..(n - m + 1) : s[i] = buf[m + i - 1]
      BY <3>3, <3>4, SubSeqProperties
    <3>6. n - m + 1 = Len(label) /\ m <= n /\ \A i \in 1..Len(label) : m + i - 1 = (p + 1) + i
      <4>1. PICK a \in Nat : a = Len(label) /\ a >= 1
        <5>1. \A x \in 1..63 : x \in Nat /\ x >= 1
          OBVIOUS
        <5>. QED BY <2>2, <5>1, Zenon
      <4>2. /\ ((p + 1) + a) - (p + 2) + 1 = a /\ p + 2 <= (p + 1) + a
            /\ \A i \in 1..a : (p + 2) + i - 1 = (p + 1) + i
        BY <2>3, <4>1
      <4>. QED BY <3>1, <4>1, <4>2
    <3>7. Len(s) = Len(label) /\ \A i \in 1..Len(s) : s[i] = label[i]
      <4>1. \A i \in 1..Len(label) : buf[(p + 1) + i] = label[i]
        BY <2>3
      <4>2. Len(s) = Len(label) /\ \A i \in 1..Len(label) : s[i] = buf[m + i - 1]
        BY <3>5, <3>6
      <4>3. \A i \in 1..Len(label) : s[i] = buf[(p + 1) + i]
        BY <3>6, <4>2
      <4>. QED BY <4>1, <4>2, <4>3
    <3>8. s = label
      BY <2>2, <3>5, <3>7, SeqEqual
    <3>. QED BY <3>1, <3>4, <3>8
  <2>. QED BY <2>2, <2>3, <2>4, <2>5, <2>6
<1>7. ASSUME NEW j \in 0..Len(labels)
      PROVE  Place(q, k, j) \in Nat /\ j <= Place(q, k, j) /\ Place(q, k, j) < size
  <2>1. CASE j = Len(labels)
    BY <1>2, <1>4, <2>1
  <2>2. CASE j # Len(labels)
    <3>1. j \in 0..(Len(labels) - 1)
      BY <1>3, <2>2
    <3>. QED BY <1>2, <1>6, <3>1
  <2>. QED BY <2>1, <2>2
<1>. QED BY <1>1, <1>5, <1>6, <1>7 DEF labels

\* Two bytes of the datagram.
LEMMA TwoBytes ==
  ASSUME buf \in Seq(Byte), NEW p \in Nat, p + 2 <= Len(buf)
  PROVE  /\ SubSeq(buf, p + 1, p + 2) = <<buf[p + 1], buf[p + 2]>>
         /\ SubSeq(buf, p + 1, p + 2) \in Seq(Byte)
<1>1. \A i \in (p + 1)..(p + 2) : i \in 1..Len(buf)
  BY LenProperties
<1>2. \A i \in (p + 1)..(p + 2) : buf[i] \in Byte
  BY <1>1, ElementOfSeq
<1>3. PICK s : s = SubSeq(buf, p + 1, p + 2)
  OBVIOUS
<1>4. /\ s \in Seq(Byte) /\ Len(s) = (IF p + 1 <= p + 2 THEN (p + 2) - (p + 1) + 1 ELSE 0)
      /\ \A i \in 1..((p + 2) - (p + 1) + 1) : s[i] = buf[(p + 1) + i - 1]
  BY <1>2, <1>3, SubSeqProperties
<1>5. (p + 2) - (p + 1) + 1 = 2 /\ p + 1 <= p + 2 /\ (p + 1) + 1 - 1 = p + 1 /\ (p + 1) + 2 - 1 = p + 2
  OBVIOUS
<1>6. 1 \in 1..2 /\ 2 \in 1..2
  OBVIOUS
<1>7. Len(s) = 2 /\ s[1] = buf[p + 1] /\ s[2] = buf[p + 2]
  BY <1>4, <1>5, <1>6
<1>8. PICK a, b \in Byte : a = buf[p + 1] /\ b = buf[p + 2]
  <2>1. p + 1 \in (p + 1)..(p + 2) /\ p + 2 \in (p + 1)..(p + 2)
    OBVIOUS
  <2>. QED BY <1>2, <2>1
<1>9. PICK t : t = <<a, b>>
  OBVIOUS
<1>10. t \in Seq(Byte) /\ Len(t) = 2 /\ t[1] = a /\ t[2] = b
  BY <1>9
<1>11. \A i \in 1..2 : i = 1 \/ i = 2
  OBVIOUS
<1>12. s = t
  BY <1>4, <1>7, <1>8, <1>10, <1>11, SeqEqual
<1>. QED BY <1>3, <1>4, <1>8, <1>9, <1>12

-----------------------------------------------------------------------------
(* The scanner's queries: every step reads on in the question              *)

\* The decoder starts with nothing read.
LEMMA QueryBegins ==
  ASSUME Init, NEW q \in Queries, buf = Build(q)
  PROVE  QuestionsSoFar(q)
<1>1. Len(msg[1]) = 0
  BY EmptySeq DEF Init
<1>2. pc = "header"
  BY DEF Init
<1>. QED BY <1>1, <1>2 DEF QuestionsSoFar

\* What has been read stays when the message does.
LEMMA QuestionsStay ==
  ASSUME NEW q, QuestionsSoFar(q), UNCHANGED msg
  PROVE  /\ Reached' = Reached
         /\ \A k \in 1..Len(msg'[1]) : ReadAs(msg'[1][k], q[k])
BY DEF QuestionsSoFar, Reached

\* The header is there, and the questions begin behind it.
LEMMA HeaderQuery ==
  ASSUME WInv, NEW q \in Queries, buf = Build(q), QuestionsSoFar(q), Header
  PROVE  QuestionsSoFar(q)'
<1>1. pc' = "item" /\ pos' = 12 /\ section' = 1 /\ UNCHANGED msg
  BY DEF Header, message, kHeaderSize
<1>2. pc = "header"
  BY DEF Header
<1>3. Reached = 1
  BY <1>2, OnlyQuestions DEF Reached
<1>4. Start(q, 1) = 12
  BY QuestionsLie
<1>. QED BY <1>1, <1>3, <1>4, QuestionsStay DEF QuestionsSoFar, Start

\* The other sections are empty.
LEMMA NextSectionQuery ==
  ASSUME WInv, NEW q \in Queries, buf = Build(q), QuestionsSoFar(q), NextSection
  PROVE  QuestionsSoFar(q)'
<1>1. section \in 1..4
  BY DEF WInv, IInv, Bounded, TypeOK
<1>2. UNCHANGED msg /\ pc' \in {"item", "done"}
  BY DEF NextSection, message
<1>3. pc' = "item" => section' # 1
  BY <1>1 DEF NextSection
<1>. QED BY <1>2, <1>3, QuestionsStay DEF QuestionsSoFar

\* A question begins with its name.
LEMMA StartItemQuery ==
  ASSUME WInv, NEW q \in Queries, buf = Build(q), QuestionsSoFar(q), StartItem
  PROVE  QuestionsSoFar(q)'
<1>1. /\ pc = "item" /\ left > 0 /\ pc' = "name" /\ UNCHANGED msg
      /\ npos' = pos /\ ~jumped' /\ loop_count' = 0 /\ name' = <<>>
  BY DEF StartItem, message
<1>2. section = 1 /\ Reached \in 1..Len(q)
  BY <1>1, OnlyQuestions
<1>3. pos = Start(q, Reached)
  BY <1>1, <1>2 DEF QuestionsSoFar
<1>4. QuestionLies(buf, q, Reached)
  BY <1>2, InQuestion
<1>5. AreLabels(Asked(q, Reached)) /\ Start(q, Reached) = Place(q, Reached, 0)
  BY <1>4 DEF QuestionLies
<1>6. Joins(Asked(q, Reached))[0] = <<>> /\ 0 \in 0..Len(Asked(q, Reached))
  BY <1>5, JoinsAre, LenProperties DEF AreLabels
<1>7. Reached' = Reached
  BY <1>1 DEF Reached
<1>8. NameSoFarIs(q)'
  BY <1>1, <1>3, <1>5, <1>6, <1>7 DEF NameSoFarIs, Asked, Place
<1>. QED BY <1>1, <1>8, QuestionsStay DEF QuestionsSoFar

\* Where parse_qname is in the name of a question.
LEMMA AtLabel ==
  ASSUME WInv, NEW q \in Queries, buf = Build(q), QuestionsSoFar(q), pc = "name"
  PROVE  /\ section = 1 /\ Reached \in 1..Len(q) /\ ~jumped /\ fields = <<>>
         /\ npos < size /\ loop_count + 1 <= size
         /\ loop_count \in 0..Len(Asked(q, Reached))
         /\ npos = Place(q, Reached, loop_count) /\ npos \in Nat
         /\ name = Joins(Asked(q, Reached))[loop_count]
         /\ IF loop_count = Len(Asked(q, Reached)) THEN LabelLen = Terminator
            ELSE /\ IsLabel /\ LabelFits
                 /\ SubSeq(buf, npos + 2, npos + 1 + LabelLen) = Asked(q, Reached)[loop_count + 1]
                 /\ Place(q, Reached, loop_count + 1) = npos + 1 + LabelLen
<1>1. section = 1 /\ Reached \in 1..Len(q) /\ fields = <<>>
  <2>1. left > 0 /\ fields = <<>>
    BY DEF WInv, IInv, Busy, Shape
  <2>. QED BY <2>1, OnlyQuestions
<1> DEFINE labels == Asked(q, Reached)
           j == loop_count
<1>2. /\ j \in 0..Len(labels) /\ npos = Place(q, Reached, j) /\ ~jumped
      /\ name = Joins(labels)[j]
  BY DEF QuestionsSoFar, NameSoFarIs
<1>3. /\ Place(q, Reached, j) \in Nat /\ j <= Place(q, Reached, j) /\ Place(q, Reached, j) < size
      /\ size \in Nat
  BY <1>1, <1>2, InQuestion
<1>4. npos < size /\ j + 1 <= size /\ npos \in Nat
  BY <1>2, <1>3
<1>5. ASSUME j = Len(labels) PROVE LabelLen = Terminator
  BY <1>1, <1>2, <1>5, InQuestion DEF LabelLen
<1>6. ASSUME j # Len(labels)
      PROVE  /\ IsLabel /\ LabelFits
             /\ SubSeq(buf, npos + 2, npos + 1 + LabelLen) = labels[j + 1]
             /\ Place(q, Reached, j + 1) = npos + 1 + LabelLen
  <2>1. Len(labels) \in Nat
    <3>1. AreLabels(labels)
      BY <1>1, InQuestion DEF QuestionLies
    <3>. QED BY <3>1, LenProperties DEF AreLabels
  <2>2. j \in 0..(Len(labels) - 1)
    BY <1>2, <1>6, <2>1
  <2>3. PICK label : label = labels[j + 1]
    OBVIOUS
  <2>4. /\ ByteAt(npos) = Len(label) /\ Len(label) \in 1..63 /\ (npos + 1) + Len(label) <= size
        /\ SubSeq(buf, npos + 2, (npos + 1) + Len(label)) = label
        /\ Place(q, Reached, j + 1) = (npos + 1) + Len(label)
    BY <1>1, <1>2, <2>2, <2>3, InQuestion
  <2>. QED BY <2>3, <2>4 DEF IsLabel, LabelFits, LabelLen
<1>. QED BY <1>1, <1>2, <1>4, <1>5, <1>6

\* A label of the question is read.
LEMMA LabelQuery ==
  ASSUME WInv, NEW q \in Queries, buf = Build(q), QuestionsSoFar(q), Label
  PROVE  QuestionsSoFar(q)'
<1>1. /\ pc = "name" /\ pc' = "name" /\ UNCHANGED msg /\ UNCHANGED jumped
      /\ name' = Dotted(name, SubSeq(buf, npos + 2, npos + 1 + LabelLen))
      /\ npos' = npos + 1 + LabelLen /\ loop_count' = loop_count + 1
      /\ LabelLen # Terminator
  BY DEF Label, Iterating, IsLabel, Terminator, message
<1> DEFINE labels == Asked(q, Reached)
<1>2. /\ Reached \in 1..Len(q) /\ ~jumped
      /\ loop_count \in 0..Len(labels) /\ loop_count # Len(labels)
      /\ name = Joins(labels)[loop_count]
      /\ SubSeq(buf, npos + 2, npos + 1 + LabelLen) = labels[loop_count + 1]
      /\ Place(q, Reached, loop_count + 1) = npos + 1 + LabelLen
  BY <1>1, AtLabel
<1>3. labels \in Seq(Seq(Byte)) /\ Len(labels) \in Nat
  <2>1. AreLabels(labels)
    BY <1>2, InQuestion DEF QuestionLies
  <2>. QED BY <2>1, LenProperties DEF AreLabels
<1>4. /\ loop_count + 1 \in 1..Len(labels) /\ loop_count + 1 \in 0..Len(labels)
      /\ (loop_count + 1) - 1 = loop_count
  BY <1>2, <1>3
<1>5. Joins(labels)[loop_count + 1] = Dotted(Joins(labels)[loop_count], labels[loop_count + 1])
  BY <1>3, <1>4, JoinsAre
<1>6. Reached' = Reached
  BY <1>1 DEF Reached
<1>7. NameSoFarIs(q)'
  BY <1>1, <1>2, <1>4, <1>5, <1>6 DEF NameSoFarIs, Asked, Place
<1>. QED BY <1>1, <1>7, QuestionsStay DEF QuestionsSoFar

\* The name of the question has been read.
LEMMA EndOfNameQuery ==
  ASSUME WInv, NEW q \in Queries, buf = Build(q), QuestionsSoFar(q), EndOfName
  PROVE  QuestionsSoFar(q)'
<1>1. /\ pc = "name" /\ pc' = "fields" /\ UNCHANGED <<msg, name, fields>>
      /\ pos' = IF jumped THEN consumed ELSE npos + 1
      /\ LabelLen = Terminator
  BY DEF EndOfName, Iterating, message
<1> DEFINE labels == Asked(q, Reached)
<1>2. /\ ~jumped /\ fields = <<>> /\ loop_count = Len(labels)
      /\ npos = Place(q, Reached, loop_count) /\ npos \in Nat
      /\ name = Joins(labels)[loop_count]
  BY <1>1, AtLabel DEF IsLabel, Terminator
<1>3. Reached' = Reached
  BY <1>1 DEF Reached
<1>4. Len(fields') = 0
  BY <1>1, <1>2, EmptySeq
<1>5. pos' = (Place(q, Reached, Len(labels)) + 1) + 2 * 0
  BY <1>1, <1>2
<1>6. FieldsSoFarAre(q)'
  BY <1>1, <1>2, <1>3, <1>4, <1>5 DEF FieldsSoFarAre, Asked, Place, Joined
<1>. QED BY <1>1, <1>6, QuestionsStay DEF QuestionsSoFar

\* Where decode() is behind the name of a question.
LEMMA AtField ==
  ASSUME WInv, NEW q \in Queries, buf = Build(q), QuestionsSoFar(q), pc = "fields"
  PROVE  LET e == Place(q, Reached, Len(Asked(q, Reached)))
         IN  /\ section = 1 /\ Reached \in 1..Len(q) /\ e \in Nat
             /\ Len(fields) \in {0, 1} /\ ~FieldsRead /\ Width = 2
             /\ fields \in Seq(Seq(Byte))
             /\ pos = (e + 1) + 2 * Len(fields) /\ pos + 2 <= Len(buf)
             /\ SubSeq(buf, pos + 1, pos + 2) \in Seq(Byte)
             /\ SubSeq(buf, pos + 1, pos + 2) =
                  IF Len(fields) = 0 THEN <<High(q[Reached].qtype), Low(q[Reached].qtype)>>
                  ELSE <<High(q[Reached].class_code), Low(q[Reached].class_code)>>
             /\ Len(fields) = 1 => Start(q, Reached + 1) = pos + 2
<1> DEFINE e == Place(q, Reached, Len(Asked(q, Reached)))
<1>1. section = 1 /\ Reached \in 1..Len(q)
  <2>1. left > 0
    BY DEF WInv, IInv, Busy
  <2>. QED BY <2>1, OnlyQuestions
<1>2. fields \in Seq(Seq(Byte)) /\ Len(fields) \in {0, 1}
  <2>1. fields \in Seq(Seq(Byte)) /\ Len(fields) <= 1
    BY <1>1 DEF WInv, IInv, Shape
  <2>2. PICK n \in Nat : n = Len(fields)
    BY <2>1, LenProperties
  <2>3. n = 0 \/ n = 1
    BY <2>1, <2>2
  <2>. QED BY <2>1, <2>2, <2>3
<1>3. ~FieldsRead /\ Width = 2
  <2>1. ~FieldsRead
    BY <1>1, Wide DEF WInv
  <2>2. Widths = <<2, 2>>
    BY <1>1 DEF Widths
  <2>3. Len(fields) + 1 = 1 \/ Len(fields) + 1 = 2
    <3>1. Len(fields) = 0 \/ Len(fields) = 1
      BY <1>2
    <3>2. \A n : n = 0 \/ n = 1 => n + 1 = 1 \/ n + 1 = 2
      OBVIOUS
    <3>. QED BY <3>1, <3>2, Zenon
  <2>. QED BY <2>1, <2>2, <2>3 DEF Width
<1>4. /\ QuestionLies(buf, q, Reached) /\ buf \in Seq(Byte)
      /\ e \in Nat
  <2>1. QuestionLies(buf, q, Reached)
    BY <1>1, InQuestion
  <2>2. AreLabels(Asked(q, Reached))
    BY <2>1 DEF QuestionLies
  <2>3. Len(Asked(q, Reached)) \in 0..Len(Asked(q, Reached))
    BY <2>2, LenProperties DEF AreLabels
  <2>4. e \in Nat
    BY <1>1, <2>3, InQuestion
  <2>. QED BY <2>1, <2>4, BuildBytes
<1>5. pos = (e + 1) + 2 * Len(fields)
  BY DEF QuestionsSoFar, FieldsSoFarAre
<1>6. /\ e + 5 <= Len(buf) /\ Start(q, Reached + 1) = e + 5
      /\ buf[e + 2] = High(q[Reached].qtype) /\ buf[e + 3] = Low(q[Reached].qtype)
      /\ buf[e + 4] = High(q[Reached].class_code) /\ buf[e + 5] = Low(q[Reached].class_code)
  BY <1>4 DEF QuestionLies
<1> HIDE DEF e
<1>7. Len(buf) \in Nat /\ pos \in Nat /\ pos + 2 <= Len(buf)
  <2>1. Len(buf) \in Nat
    BY <1>4, LenProperties
  <2>2. Len(fields) = 0 \/ Len(fields) = 1
    BY <1>2
  <2>3. pos = (e + 1) + 2 * 0 \/ pos = (e + 1) + 2 * 1
    BY <1>5, <2>2
  <2>. QED BY <1>4, <1>6, <2>1, <2>3
<1>8. /\ SubSeq(buf, pos + 1, pos + 2) = <<buf[pos + 1], buf[pos + 2]>>
      /\ SubSeq(buf, pos + 1, pos + 2) \in Seq(Byte)
  BY <1>4, <1>7, TwoBytes
<1>9. CASE Len(fields) = 0
  <2>1. pos + 1 = e + 2 /\ pos + 2 = e + 3
    BY <1>4, <1>5, <1>9
  <2>. QED BY <1>1, <1>2, <1>3, <1>4, <1>5, <1>6, <1>7, <1>8, <1>9, <2>1 DEF e
<1>10. CASE Len(fields) = 1
  <2>1. pos + 1 = e + 4 /\ pos + 2 = e + 5
    BY <1>4, <1>5, <1>10
  <2>. QED BY <1>1, <1>2, <1>3, <1>4, <1>5, <1>6, <1>7, <1>8, <1>10, <2>1 DEF e
<1>. QED BY <1>2, <1>9, <1>10

\* A field of the question is read, and behind its class the next begins.
LEMMA FieldQuery ==
  ASSUME WInv, NEW q \in Queries, buf = Build(q), QuestionsSoFar(q), Field
  PROVE  QuestionsSoFar(q)'
<1>1. /\ pc = "fields" /\ fields' = Append(fields, SubSeq(buf, pos + 1, pos + Width))
      /\ pos' = pos + Width /\ UNCHANGED <<name, section, from>>
  BY DEF Field, names
<1>2. /\ section = 1 /\ Reached \in 1..Len(q)
      /\ Len(fields) \in {0, 1} /\ ~FieldsRead /\ Width = 2 /\ fields \in Seq(Seq(Byte))
      /\ pos = (Place(q, Reached, Len(Asked(q, Reached))) + 1) + 2 * Len(fields)
      /\ Place(q, Reached, Len(Asked(q, Reached))) \in Nat
      /\ SubSeq(buf, pos + 1, pos + 2) \in Seq(Byte)
      /\ SubSeq(buf, pos + 1, pos + 2) =
           IF Len(fields) = 0 THEN <<High(q[Reached].qtype), Low(q[Reached].qtype)>>
           ELSE <<High(q[Reached].class_code), Low(q[Reached].class_code)>>
      /\ Len(fields) = 1 => Start(q, Reached + 1) = pos + 2
  BY <1>1, AtField
<1>3. PICK f : f = SubSeq(buf, pos + 1, pos + 2)
  OBVIOUS
<1>4. fields' = Append(fields, f) /\ pos' = pos + 2
  BY <1>1, <1>2, <1>3
<1>5. name = Joined(Asked(q, Reached))
  BY <1>1 DEF QuestionsSoFar, FieldsSoFarAre
<1>6. CASE Len(fields) = 0
  <2>1. fields = <<>>
    BY <1>2, <1>6, EmptySeq
  <2>2. fields' = <<f>>
    BY <1>4, <2>1
  <2>3. UNCHANGED <<msg, pc>>
    BY <1>2, <1>6 DEF Field
  <2>4. Reached' = Reached
    BY <2>3 DEF Reached
  <2>5. Len(fields') = 1 /\ fields'[1] = f
    BY <2>2
  <2>6. f = <<High(q[Reached].qtype), Low(q[Reached].qtype)>>
    BY <1>2, <1>3, <1>6
  <2>7. pos' = (Place(q, Reached, Len(Asked(q, Reached))) + 1) + 2 * 1
    BY <1>2, <1>4, <1>6
  <2>8. FieldsSoFarAre(q)'
    BY <1>1, <1>5, <2>4, <2>5, <2>6, <2>7 DEF FieldsSoFarAre, Asked, Place
  <2>9. pc' = "fields"
    BY <1>1, <2>3
  <2>. QED BY <2>3, <2>8, <2>9, QuestionsStay DEF QuestionsSoFar
<1>7. CASE Len(fields) = 1
  <2>1. /\ msg' = [msg EXCEPT ![section] =
                     Append(@, [from |-> from, to |-> pos', name |-> name, fields |-> fields'])]
        /\ pc' = "item"
    BY <1>2, <1>7 DEF Field, ItemDone
  <2>2. PICK item : item = [from |-> from, to |-> pos', name |-> name, fields |-> fields']
    OBVIOUS
  <2>3. msg \in [1..4 -> Seq(Item)]
    BY DEF WInv, ItemsAreWire
  <2>4. msg'[1] = Append(msg[1], item)
    BY <1>2, <2>1, <2>2, <2>3
  <2>5. PICK m \in Seq(Item) : m = msg[1]
    BY <2>3
  <2>6. Len(m) \in Nat
    BY <2>5, LenProperties
  <2>7. fields' = <<<<High(q[Reached].qtype), Low(q[Reached].qtype)>>,
                    <<High(q[Reached].class_code), Low(q[Reached].class_code)>>>>
    <3>1. /\ fields' \in Seq(Seq(Byte)) /\ Len(fields') = Len(fields) + 1
          /\ \A i \in 1..Len(fields) : fields'[i] = fields[i]
          /\ fields'[Len(fields) + 1] = f
      <4>1. f \in Seq(Byte) /\ fields \in Seq(Seq(Byte))
        BY <1>2, <1>3, Zenon
      <4>. QED BY <1>4, <4>1, AppendProperties
    <3>2. Len(fields') = 2 /\ fields'[1] = fields[1] /\ fields'[2] = f
      BY <1>7, <3>1
    <3>3. fields' = <<fields'[1], fields'[2]>>
      BY <3>1, <3>2, Tuples
    <3>4. fields[1] = <<High(q[Reached].qtype), Low(q[Reached].qtype)>>
      BY <1>1, <1>7 DEF QuestionsSoFar, FieldsSoFarAre
    <3>5. f = <<High(q[Reached].class_code), Low(q[Reached].class_code)>>
      <4>1. Len(fields) # 0
        BY <1>7
      <4>. QED BY <1>2, <1>3, <4>1, Zenon
    <3>. QED BY <3>2, <3>3, <3>4, <3>5, Zenon
  <2>8. ReadAs(item, q[Reached])
    <3>1. item.name = name /\ item.fields = fields'
      BY <2>2
    <3>. QED BY <1>5, <2>7, <3>1 DEF ReadAs, Asked
  <2>9. Len(msg'[1]) = Len(m) + 1 /\ Reached = Len(m) + 1 /\ Reached' = Reached + 1
    BY <2>4, <2>5, <2>6, AppendProperties DEF Reached
  <2>10. \A k \in 1..Len(msg'[1]) : ReadAs(msg'[1][k], q[k])
    <3>. TAKE k \in 1..Len(msg'[1])
    <3>1. CASE k = Len(m) + 1
      BY <2>4, <2>5, <2>6, <2>8, <2>9, <3>1
    <3>2. CASE k # Len(m) + 1
      <4>1. k \in 1..Len(m)
        BY <2>6, <2>9, <3>2
      <4>2. msg'[1][k] = msg[1][k]
        BY <2>4, <2>5, <2>6, <4>1
      <4>. QED BY <2>5, <4>1, <4>2 DEF QuestionsSoFar
    <3>. QED BY <3>1, <3>2
  <2>11. pos' = Start(q, Reached')
    BY <1>2, <1>4, <1>7, <2>9
  <2>. QED BY <2>1, <2>10, <2>11 DEF QuestionsSoFar, Start
<1>. QED BY <1>2, <1>6, <1>7

\* decode() throws nothing.
LEMMA NothingThrown ==
  ASSUME WInv, NEW q \in Queries, buf = Build(q), QuestionsSoFar(q)
  PROVE  ~(\/ ShortHeader \/ ItemPastEnd \/ FieldPastEnd
           \/ Unterminated \/ Runaway \/ PointerTruncated \/ PointerOutside \/ Jump
           \/ BadLabel \/ LabelPastEnd)
<1>1. ~ShortHeader
  BY QueryCounts DEF ShortHeader, kHeaderSize
<1>2. ~ItemPastEnd
  <2>1. SUFFICES ASSUME ItemPastEnd PROVE FALSE
    OBVIOUS
  <2>2. pc = "item" /\ left > 0 /\ pos >= size
    BY <2>1 DEF ItemPastEnd
  <2>3. section = 1 /\ Reached \in 1..Len(q)
    BY <2>2, OnlyQuestions
  <2>4. pos = Place(q, Reached, 0)
    BY <2>2, <2>3, InQuestion DEF QuestionsSoFar, QuestionLies
  <2>5. 0 \in 0..Len(Asked(q, Reached))
    <3>1. AreLabels(Asked(q, Reached))
      BY <2>3, InQuestion DEF QuestionLies
    <3>. QED BY <3>1, LenProperties DEF AreLabels
  <2>6. Place(q, Reached, 0) < size /\ Place(q, Reached, 0) \in Nat /\ size \in Nat
    BY <2>3, <2>5, InQuestion
  <2>. QED BY <2>2, <2>4, <2>6
<1>3. ~FieldPastEnd
  <2>1. SUFFICES ASSUME FieldPastEnd PROVE FALSE
    OBVIOUS
  <2>2. pc = "fields" /\ ~(pos + Width <= size)
    BY <2>1 DEF FieldPastEnd, Readable
  <2>. QED BY <2>2, AtField DEF size
<1>4. ASSUME pc = "name"
      PROVE  ~(\/ Unterminated \/ Runaway \/ PointerTruncated \/ PointerOutside \/ Jump
               \/ BadLabel \/ LabelPastEnd)
  <2>1. /\ npos < size /\ loop_count + 1 <= size /\ npos \in Nat /\ loop_count \in Nat
        /\ LabelLen = Terminator \/ (IsLabel /\ LabelFits)
    BY <1>4, AtLabel
  <2>2. size \in Nat
    BY QueryCounts
  <2>3. ~Unterminated /\ ~Runaway
    BY <2>1, <2>2 DEF Unterminated, Runaway, LoopLimit
  <2>4. LabelLen \notin 64..191 /\ ~IsPointer /\ (IsLabel => LabelFits)
    BY <2>1 DEF IsLabel, IsPointer, Terminator
  <2>5. ~BadLabel /\ ~LabelPastEnd
    BY <2>4 DEF BadLabel, LabelPastEnd
  <2>6. ~PointerTruncated /\ ~PointerOutside /\ ~Jump
    BY <2>4 DEF PointerTruncated, PointerOutside, Jump
  <2>. QED BY <2>3, <2>5, <2>6
<1>5. (\/ Unterminated \/ Runaway \/ PointerTruncated \/ PointerOutside \/ Jump
       \/ BadLabel \/ LabelPastEnd) => pc = "name"
  BY DEF Unterminated, Runaway, PointerTruncated, PointerOutside, Jump, BadLabel, LabelPastEnd,
         Iterating
<1>. QED BY <1>1, <1>2, <1>3, <1>4, <1>5

\* Whatever query comes back is read, question by question.
QueriesAreRead == \A q \in Queries : buf = Build(q) => QuestionsSoFar(q)

\* Every step keeps that.
LEMMA QueriesKeep == ASSUME WInv, QueriesAreRead, [Next]_vars PROVE QueriesAreRead'
<1>1. buf' = buf
  BY DEF Next, Name, vars, message, ShortHeader, Header, NextSection, ItemPastEnd, StartItem,
         Unterminated, Runaway, EndOfName, PointerTruncated, PointerOutside, Jump, BadLabel,
         LabelPastEnd, Label, FieldPastEnd, Field, Throw
<1>. SUFFICES ASSUME NEW q \in Queries, buf = Build(q) PROVE QuestionsSoFar(q)'
  BY <1>1 DEF QueriesAreRead, Build, Built
<1>2. QuestionsSoFar(q)
  BY DEF QueriesAreRead
<1>3. CASE Header \/ NextSection \/ StartItem \/ Label \/ EndOfName \/ Field
  BY <1>2, <1>3, HeaderQuery, NextSectionQuery, StartItemQuery, LabelQuery, EndOfNameQuery, FieldQuery
<1>4. CASE UNCHANGED vars
  <2>1. UNCHANGED <<msg, pc, section, pos, loop_count, npos, jumped, name, fields>>
    BY <1>4 DEF vars, message, names, cursor
  <2>2. Reached' = Reached
    BY <2>1 DEF Reached
  <2>. QED BY <1>2, <2>1, <2>2 DEF QuestionsSoFar, NameSoFarIs, FieldsSoFarAre, Start, Asked, Place, Joined
<1>. QED BY <1>2, <1>3, <1>4, NothingThrown DEF Next, Name

-----------------------------------------------------------------------------
(* Asked as read: the labels of a name, and the text parse_qname joins     *)
(* them to                                                                 *)

\* w is the labels after each of the first m offsets of c.
LabelsAfter(c, n, labels) == IF LabelAt(c[n]) THEN Append(labels, LabelText(c[n])) ELSE labels
AreLabelsAlong(w, c, m) ==
  w = [n \in 0..m |-> IF n = 0 THEN <<>> ELSE LabelsAfter(c, n, w[n - 1])]

\* The labels along any chain exist.
LEMMA LabelsExist ==
  ASSUME NEW c, NEW m \in Nat
  PROVE  \E w : AreLabelsAlong(w, c, m)
<1> DEFINE T == {k \in Nat : ~\E w : AreLabelsAlong(w, c, k)}
<1>. SUFFICES ASSUME T # {} PROVE FALSE
  OBVIOUS
<1>1. PICK k \in T : \A j \in T : k <= j
  BY LeastNatural
<1>2. CASE k = 0
  <2>1. AreLabelsAlong([n \in 0..0 |-> <<>>], c, 0)
    BY DEF AreLabelsAlong
  <2>. QED BY <1>2, <2>1
<1>3. CASE k # 0
  <2>1. k - 1 \in Nat /\ k - 1 \notin T
    BY <1>1, <1>3
  <2>2. PICK g : AreLabelsAlong(g, c, k - 1)
    BY <2>1
  <2> DEFINE w == [n \in 0..k |-> IF n = 0 THEN <<>> ELSE LabelsAfter(c, n, g[n - 1])]
  <2>3. ASSUME NEW n \in 0..k
        PROVE  w[n] = IF n = 0 THEN <<>> ELSE LabelsAfter(c, n, w[n - 1])
    <3>1. CASE n # 0
      <4>1. n - 1 \in 0..(k - 1) /\ n - 1 \in 0..k
        BY <2>1, <3>1
      <4>2. g[n - 1] = IF n - 1 = 0 THEN <<>> ELSE LabelsAfter(c, n - 1, g[(n - 1) - 1])
        BY <2>2, <4>1 DEF AreLabelsAlong
      <4>3. w[n - 1] = g[n - 1]
        BY <4>1, <4>2
      <4>. QED BY <3>1, <4>3
    <3>. QED BY <3>1
  <2>4. AreLabelsAlong(w, c, k)
    BY <2>3 DEF AreLabelsAlong
  <2>. QED BY <1>1, <2>4
<1>. QED BY <1>2, <1>3

\* The labels of the name at p, one by one.
LEMMA LabelSteps ==
  ASSUME size \in Nat, NEW p
  PROVE  /\ Labels(p)[0] = <<>>
         /\ \A n \in 1..(size + 1) :
              Labels(p)[n] = IF LabelAt(Chain(p)[n])
                             THEN Append(Labels(p)[n - 1], LabelText(Chain(p)[n]))
                             ELSE Labels(p)[n - 1]
<1> DEFINE c == Chain(p)
           w == CHOOSE s : AreLabelsAlong(s, c, size + 1)
<1>1. AreLabelsAlong(w, c, size + 1)
  BY LabelsExist
<1>2. Labels(p) = w
  BY DEF Labels, AreLabelsAlong, LabelsAfter
<1> HIDE DEF c, w
<1>3. /\ w[0] = <<>>
      /\ \A n \in 1..(size + 1) : w[n] = IF LabelAt(c[n]) THEN Append(w[n - 1], LabelText(c[n]))
                                         ELSE w[n - 1]
  <2>1. \A n \in 0..(size + 1) : w[n] = IF n = 0 THEN <<>> ELSE LabelsAfter(c, n, w[n - 1])
    BY <1>1, Zenon DEF AreLabelsAlong
  <2>2. 0 \in 0..(size + 1) /\ \A n \in 1..(size + 1) : n \in 0..(size + 1) /\ n # 0
    OBVIOUS
  <2>. QED BY <2>1, <2>2, Zenon DEF LabelsAfter
<1>. QED BY <1>2, <1>3 DEF c

\* The labels of a name that ends lie in the datagram.
LEMMA LabelsInside ==
  ASSUME buf \in Seq(Byte), NEW p \in Nat, Ends(p), NEW n \in 1..(size + 1), LabelAt(Chain(p)[n])
  PROVE  LabelText(Chain(p)[n]) \in Seq(Byte) /\ LabelText(Chain(p)[n]) # <<>>
<1>0. size \in Nat /\ size = Len(buf)
  BY LenProperties DEF size
<1>1. PICK o \in Nat : o = Chain(p)[n]
  BY ChainType
<1>2. LabelAt(o) /\ o < size /\ ByteAt(o) \in 1..63 /\ Moves(o)
  BY <1>1 DEF LabelAt, Moves
<1>3. n # size + 1
  <2>1. n = size + 1 => ~Ends(p)
    BY <1>0, <1>1, <1>2, ChainSteps, Kinds DEF Ends
  <2>. QED BY <2>1
<1>4. n \in 1..size /\ n + 1 \in 1..(size + 1)
  BY <1>0, <1>3
<1>5. PICK b \in 1..63 : b = ByteAt(o)
  BY <1>2
<1>6. Chain(p)[n + 1] = o + 1 + b
  <2>1. Chain(p)[n + 1] = Hop(o)
    BY <1>0, <1>1, <1>4, ChainSteps
  <2>. QED BY <1>2, <1>5, <2>1, Kinds
<1>7. o + 1 + b <= size
  <2>. SUFFICES ASSUME ~(o + 1 + b <= size) PROVE FALSE
    OBVIOUS
  <2>1. ~(o + 1 + b < size) /\ ~((o + 1 + b) + 1 < size)
    BY <1>0
  <2>2. ~Moves(o + 1 + b) /\ ~EndAt(o + 1 + b)
    BY <2>1 DEF Moves, LabelAt, PointerAt, EndAt
  <2>3. ~Ends(p)
    BY <1>0, <1>4, <1>6, <2>2, NameIsStuck
  <2>. QED BY <2>3
<1>8. LabelText(o) = SubSeq(buf, (o + 1) + 1, (o + 1) + b)
  BY <1>5 DEF LabelText, BytesAt
<1>9. PICK x, y \in Int : x = (o + 1) + 1 /\ y = (o + 1) + b
  OBVIOUS
<1>10. \A i \in x..y : i \in 1..Len(buf)
  BY <1>0, <1>7, <1>9
<1>11. \A i \in x..y : buf[i] \in Byte
  BY <1>10, ElementOfSeq
<1>12. SubSeq(buf, x, y) \in Seq(Byte) /\ Len(SubSeq(buf, x, y)) = IF x <= y THEN y - x + 1 ELSE 0
  BY <1>11, SubSeqProperties
<1>13. y - x + 1 = b /\ x <= y /\ b # 0
  BY <1>9
<1>14. SubSeq(buf, x, y) # <<>>
  BY <1>12, <1>13, EmptySeq
<1>. QED BY <1>1, <1>8, <1>9, <1>12, <1>14

\* A label has no dot among its bytes.
LEMMA DotlessIs ==
  ASSUME NEW label \in Seq(Byte)
  PROVE  Dotless(label) <=> Dot \notin ToSet(label)
<1>1. DOMAIN label = 1..Len(label)
  BY LenProperties
<1>. QED BY <1>1 DEF Dotless, ToSet

\* A name that ends is asked for label by label as it was read, unless one of
\* its labels has a dot.
LEMMA AskedAsRead ==
  ASSUME buf \in Seq(Byte), NEW p \in Nat, Ends(p)
  PROVE  LabelsOf(TextAt(p)) = WireLabels(p)
           <=> \A label \in ToSet(WireLabels(p)) : Dot \notin ToSet(label)
<1> DEFINE c == Chain(p)
           t == Texts(p)
           w == Labels(p)
           m == size + 1
           NoDots(n) == \A k \in 1..Len(w[n]) : Dotless(w[n][k])
           As(n) == /\ t[n] \in Seq(Byte) /\ w[n] \in Seq(Seq(Byte))
                    /\ NoDots(n) => LabelsOf(t[n]) = w[n]
           S == {n \in 0..m : As(n)}
<1>0. size \in Nat /\ m \in Nat
  BY LenProperties DEF size
<1>1. /\ t[0] = <<>> /\ w[0] = <<>>
      /\ \A n \in 1..m : IF LabelAt(c[n])
                         THEN /\ t[n] = Dotted(t[n - 1], LabelText(c[n]))
                              /\ w[n] = Append(w[n - 1], LabelText(c[n]))
                         ELSE t[n] = t[n - 1] /\ w[n] = w[n - 1]
  BY <1>0, TextSteps, LabelSteps
<1>2. \A n \in 1..m : LabelAt(c[n]) => LabelText(c[n]) \in Seq(Byte) /\ LabelText(c[n]) # <<>>
  BY LabelsInside
<1>3. TextAt(p) = t[m] /\ WireLabels(p) = w[m]
  BY DEF TextAt, WireLabels
<1> HIDE DEF c, t, w, m
<1>4. 0 \in S
  <2>1. <<>> \in Seq(Byte) /\ <<>> \in Seq(Seq(Byte))
    BY EmptySeq
  <2>2. 0 \in 0..m
    BY <1>0
  <2>. QED BY <1>1, <2>1, <2>2, NoLabels
<1>5. ASSUME NEW n \in 1..m, n - 1 \in S
      PROVE  n \in S
  <2>0. n \in 0..m
    BY <1>0
  <2>1. CASE ~LabelAt(c[n])
    <3>1. t[n] = t[n - 1] /\ w[n] = w[n - 1]
      BY <1>1, <2>1
    <3>2. As(n - 1)
      BY <1>5
    <3>. QED BY <2>0, <3>1, <3>2
  <2>2. CASE LabelAt(c[n])
    <3>1. PICK l \in Seq(Byte) : l = LabelText(c[n]) /\ l # <<>>
      BY <1>2, <2>2
    <3>2. t[n] = Dotted(t[n - 1], l) /\ w[n] = Append(w[n - 1], l)
      BY <1>1, <2>2, <3>1
    <3>3. PICK a \in Seq(Byte), v \in Seq(Seq(Byte)) : a = t[n - 1] /\ v = w[n - 1]
      BY <1>5
    <3>4. t[n] \in Seq(Byte)
      BY <3>2, <3>3, DottedIs
    <3>5. /\ w[n] \in Seq(Seq(Byte)) /\ Len(w[n]) = Len(v) + 1 /\ Len(v) \in Nat
          /\ \A k \in 1..Len(v) : w[n][k] = v[k]
          /\ w[n][Len(v) + 1] = l
      BY <3>2, <3>3, AppendProperties, LenProperties
    <3>6. ASSUME NoDots(n)
          PROVE  LabelsOf(t[n]) = w[n]
      <4>1. Dotless(l)
        <5>1. Len(v) + 1 \in 1..Len(w[n])
          BY <3>5
        <5>. QED BY <3>5, <3>6, <5>1
      <4>2. NoDots(n - 1)
        <5>1. \A k \in 1..Len(v) : k \in 1..Len(w[n])
          BY <3>5
        <5>2. \A k \in 1..Len(v) : Dotless(v[k])
          BY <3>5, <3>6, <5>1
        <5>. QED BY <3>3, <5>2
      <4>3. LabelsOf(a) = v
        BY <1>5, <3>3, <4>2
      <4>4. LabelsOf(Dotted(a, l)) = Append(LabelsOf(a), l)
        BY <3>1, <4>1, LabelsOfDotted
      <4>. QED BY <3>2, <3>3, <4>3, <4>4
    <3>. QED BY <2>0, <3>4, <3>5, <3>6
  <2>. QED BY <2>1, <2>2
<1> HIDE DEF S
<1>6. \A n \in 0..m : n \in S
  BY <1>0, <1>4, <1>5, UpTo
<1>7. As(m)
  <2>1. m \in 0..m
    BY <1>0
  <2>. QED BY <1>6, <2>1 DEF S
<1>8. LabelsOf(t[m]) = w[m] => NoDots(m)
  <2>1. AreLabels(LabelsOf(t[m]))
    BY <1>7, LabelsAreLabels
  <2>. QED BY <2>1 DEF AreLabels
<1>9. NoDots(m) <=> \A label \in ToSet(w[m]) : Dot \notin ToSet(label)
  <2>1. PICK v \in Seq(Seq(Byte)) : v = w[m]
    BY <1>7
  <2>2. \A k \in 1..Len(v) : v[k] \in Seq(Byte)
    BY ElementOfSeq
  <2>3. \A k \in 1..Len(v) : Dotless(v[k]) <=> Dot \notin ToSet(v[k])
    BY <2>2, DotlessIs
  <2>4. ToSet(v) = {v[k] : k \in 1..Len(v)}
    <3>1. DOMAIN v = 1..Len(v)
      BY LenProperties
    <3>. QED BY <3>1 DEF ToSet
  <2>. QED BY <2>1, <2>3, <2>4
<1>. QED BY <1>3, <1>7, <1>8, <1>9

\* The queries are read back, and the names read are asked for, as they are.
LEMMA ReadIsRoundTrip == WInv /\ QueriesAreRead => RoundTrip
<1>. SUFFICES ASSUME WInv, QueriesAreRead PROVE RoundTrip
  OBVIOUS
<1>1. ASSUME NEW q \in Queries, buf = Build(q)
      PROVE  /\ pc # "throw"
             /\ pc = "done" =>
                  /\ Len(msg[1]) = Len(q)
                  /\ \A k \in 1..Len(q) :
                       /\ msg[1][k].fields =
                            <<<<High(q[k].qtype), Low(q[k].qtype)>>,
                              <<High(q[k].class_code), Low(q[k].class_code)>>>>
                       /\ LabelsOf(msg[1][k].name) = LabelsOf(q[k].qname)
                       /\ NoEmptyLabel(q[k].qname) => msg[1][k].name = q[k].qname
  <2>1. QuestionsSoFar(q)
    BY <1>1 DEF QueriesAreRead
  <2>2. pc # "throw"
    BY <2>1 DEF QuestionsSoFar
  <2>3. ASSUME pc = "done" PROVE Len(msg[1]) = Len(q)
    BY <1>1, <2>3, OnlyQuestions
  <2>4. ASSUME pc = "done", NEW k \in 1..Len(q)
        PROVE  /\ msg[1][k].fields =
                    <<<<High(q[k].qtype), Low(q[k].qtype)>>,
                      <<High(q[k].class_code), Low(q[k].class_code)>>>>
               /\ LabelsOf(msg[1][k].name) = LabelsOf(q[k].qname)
               /\ NoEmptyLabel(q[k].qname) => msg[1][k].name = q[k].qname
    <3>1. ReadAs(msg[1][k], q[k])
      BY <2>1, <2>3, <2>4 DEF QuestionsSoFar
    <3>2. q[k].qname \in Seq(Byte)
      <4>1. q \in Seq(Request)
        BY QueriesAssumption
      <4>2. q[k] \in Request
        BY <4>1, ElementOfSeq
      <4>. QED BY <4>2 DEF Request
    <3>3. LabelsOf(Joined(LabelsOf(q[k].qname))) = LabelsOf(q[k].qname)
      BY <3>2, LabelsAreLabels, LabelsOfJoined
    <3>. QED BY <3>1, <3>2, <3>3, NameIsJoined DEF ReadAs
  <2>. QED BY <2>2, <2>3, <2>4
<1>2. ASSUME pc = "done", NEW s \in 1..4, NEW item \in ToSet(msg[s])
      PROVE  LabelsOf(item.name) = WireLabels(item.from)
               <=> \A label \in ToSet(WireLabels(item.from)) : Dot \notin ToSet(label)
  <2>1. msg[s] \in Seq(Item)
    BY DEF WInv, ItemsAreWire
  <2>2. PICK k \in 1..Len(msg[s]) : item = msg[s][k]
    BY <2>1, LenProperties DEF ToSet
  <2>3. item \in Item /\ IsWire(s, item)
    BY <2>1, <2>2, ElementOfSeq DEF WInv, ItemsAreWire
  <2>4. item.from \in Nat /\ Ends(item.from) /\ item.name = TextAt(item.from)
    BY <2>3 DEF Item, IsWire
  <2>5. buf \in Seq(Byte)
    BY DEF WInv, IInv, Bounded, TypeOK
  <2>. QED BY <2>4, <2>5, AskedAsRead
<1>. QED BY <1>1, <1>2 DEF RoundTrip

\* decode() reads the scanner's own queries as they were asked, any number of
\* questions with any names.
THEOREM QueriesReadBack == Spec => []RoundTrip
<1>1. Init => QueriesAreRead
  BY QueryBegins DEF QueriesAreRead
<1>2. QueriesAreRead /\ WInv /\ [Next]_vars => QueriesAreRead'
  BY QueriesKeep
<1>3. WInv /\ QueriesAreRead => RoundTrip
  BY ReadIsRoundTrip
<1>. QED BY <1>1, <1>2, <1>3, WireInvariance, PTL DEF Spec

-----------------------------------------------------------------------------
(* The scanner's queries and the formatters                                *)

\* A query has no records, and no formatter ever waits for one of a query.
LEMMA QueryHasNoRecords ==
  ASSUME TInv, caller = "formatter", NEW q \in Queries
  PROVE  buf # Build(q)
<1>. SUFFICES ASSUME buf = Build(q) PROVE FALSE
  OBVIOUS
<1>0. /\ msg \in [1..4 -> Seq(Item)] /\ \A s \in 1..4 : Len(msg[s]) = SectionCount(s)
      /\ Len(texts) < Len(Records) /\ Len(texts) \in 0..Len(Records)
  BY DEF TInv, TextsSoFar, InFormatter, Decoded, ItemsAreWire, Complete
<1>1. \A s \in 2..4 : Len(msg[s]) = 0 /\ msg[s] \in Seq(Item)
  <2>1. \A s \in 2..4 : s \in 1..4
    OBVIOUS
  <2>. QED BY <1>0, <2>1, QueryCounts
<1>2. msg[2] = <<>> /\ msg[3] = <<>> /\ msg[4] = <<>>
  <2>1. 2 \in 2..4 /\ 3 \in 2..4 /\ 4 \in 2..4
    OBVIOUS
  <2>. QED BY <1>1, <2>1, EmptySeq
<1>3. Len(Records) = 0
  BY <1>2, EmptySeq DEF Records
<1>. QED BY <1>0, <1>3

\* Between the calls of the formatters, a query is read as QueriesAreRead says.
QueriesSafe == caller = "none" => QueriesAreRead

\* The formatters keep QueriesSafe: a query leaves them nothing to print.
LEMMA FormattersKeepQueriesSafe ==
  ASSUME QueriesSafe, TInv, [TextNext]_textVars
  PROVE  QueriesSafe'
<1>1. CASE Decoding \/ FormatPlain \/ UNCHANGED textVars
  <2>1. caller' = caller /\ [Next]_vars
    BY <1>1 DEF Decoding, FormatPlain, textVars
  <2>2. caller = "none" => WInv
    BY DEF TInv, InFormatter
  <2>. QED BY <2>1, <2>2, QueriesKeep DEF QueriesSafe
<1>2. CASE FormatName \/ NameGoesOn
  <2>1. caller' = "formatter"
    BY <1>2 DEF FormatName, NameGoesOn
  <2>. QED BY <2>1 DEF QueriesSafe
<1>3. CASE NameEnds \/ NameCaught
  <2>1. caller = "formatter" /\ buf' = buf
    BY <1>3 DEF NameEnds, NameCaught, Return, message
  <2>2. \A q \in Queries : buf # Build(q)
    BY <2>1, QueryHasNoRecords
  <2>3. QueriesAreRead'
    BY <2>1, <2>2 DEF QueriesAreRead, Build, Built
  <2>. QED BY <2>3 DEF QueriesSafe
<1>. QED BY <1>1, <1>2, <1>3 DEF TextNext

\* The queries are read back while decode() runs by itself (above) and when the
\* formatters use its buffer after it.
THEOREM FormattersKeepQueries == TextSpec => []RoundTrip
<1>1. TextInit => QueriesSafe
  BY QueryBegins DEF QueriesSafe, QueriesAreRead, TextInit
<1>2. QueriesSafe /\ TInv /\ [TextNext]_textVars => QueriesSafe'
  BY FormattersKeepQueriesSafe
<1>3. TInv /\ QueriesSafe => RoundTrip
  <2>1. ASSUME WInv, QueriesAreRead PROVE RoundTrip
    BY <2>1, ReadIsRoundTrip
  <2>2. ASSUME InFormatter PROVE RoundTrip
    BY <2>2 DEF InFormatter, RoundTrip
  <2>. QED BY <2>1, <2>2 DEF TInv, QueriesSafe
<1>. QED BY <1>1, <1>2, <1>3, TextInvariance, PTL DEF TextSpec
=============================================================================
