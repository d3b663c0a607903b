------------------------ MODULE MCMdnsMessageDecoder ------------------------
(* Instance for TLC of the decoder and of the texts made of what it decoded: *)
(* every name of up to four bytes over an alphabet that has each case of a   *)
(* label length and pointers to every offset near it, records cut off at     *)
(* every length, responses with every short name in the RDATA of a PTR or    *)
(* SRV record, and queries of the scanner.                                   *)
EXTENDS RecordText

\* A header that announces n items in section s, and none in the others.
HeaderOf(s, n) ==
  [i \in 1..kHeaderSize |-> IF i = 4 + 2 * s THEN n ELSE 0]

\* Terminator, label lengths 1 and 2, pointers into the name (offsets 12 to
\* 15) by way of 192, an invalid length, and a pointer far outside.
Alphabet == {0, 1, 2, 12, 13, 14, 64, 192, 193}

Names == UNION {[1..n -> Alphabet] : n \in 0..4}

\* TYPE and CLASS; TYPE, CLASS, TTL and RDLENGTH, with and without RDATA.
Question == <<0, 12, 0, 1>>
RecordOf(type, rdata) ==
  <<0, type, 128, 1, 0, 0, 0, 120, 0, Len(rdata)>> \o rdata
Record(rdata) == RecordOf(PTR_TYPE, rdata)

\* QR and AA: a response.
Response(m) == [m EXCEPT ![3] = 132]

Unfinished == {HeaderOf(1, 1) \o n : n \in Names}

Asked == {HeaderOf(1, 1) \o n \o Question : n \in [1..4 -> Alphabet]}

\* Three items, the third's name a pointer to the first's, whose four labels
\* outnumber the bytes behind it, and a label with a dot; a loop through a label; and each cut.
A == 97
Whole ==
  { HeaderOf(2, 3) \o <<1, A, 1, A, 1, A, 1, A, 0>> \o Record(<<192, 12>>)
      \o <<2, A, Dot, 192, 14>> \o Record(<<>>) \o <<192, 31>> \o Record(<<A, A, A>>),
    HeaderOf(3, 2) \o <<1, A, 0>> \o Record(<<A>>) \o <<1, A, 192, 26>> \o Record(<<>>),
    [HeaderOf(1, 1) EXCEPT ![8] = 1, ![12] = 1] \o <<1, A, 0>> \o Question
      \o <<192, 12>> \o Record(<<A>>) \o <<1, A, 192, 12>> \o Record(<<192, 19>>) }
Cut == UNION {{SubSeq(m, 1, n) : n \in 0..Len(m)} : m \in Whole}

\* Two records, with names in their RDATA that point to each other, into the
\* header, to themselves (offset 23 or 29), or run on into the next record;
\* and one record that ends with the datagram.
Targets == UNION {[1..n -> {0, 1, 2, 23, 29, 64, 192}] : n \in 0..3}
Named ==
  UNION {{ Response(HeaderOf(2, 2) \o <<0>> \o Record(t) \o <<0>> \o Record(<<192, 23>>)),
           Response(HeaderOf(4, 2) \o <<0>> \o RecordOf(SRV_TYPE, <<0, 0, 0, 0, 31, 144>> \o t)
                      \o <<0>> \o RecordOf(SRV_TYPE, <<0, 1, 0, 2, 0, 80, 1, A, 192, 29>>)),
           Response(HeaderOf(3, 1) \o <<0>> \o Record(t)) }
         : t \in Targets}

\* Records whose text needs no name, of the right size and of wrong ones, in a
\* section each.
PlainRdata(n) == [i \in 1..n |-> (7 * i) % 5]
Plain ==
  {Response([HeaderOf(2, 1) EXCEPT ![10] = 1, ![12] = 1]
     \o <<0>> \o RecordOf(A_TYPE, PlainRdata(n)) \o <<0>> \o RecordOf(TXT_TYPE, PlainRdata(n))
     \o <<0>> \o RecordOf(type, PlainRdata(m)))
     : n \in {3, 4}, m \in {5, 6, 16, 33}, type \in {AAAA_TYPE, SRV_TYPE, 47}}

\* The PTR record of tests/test_parser.cpp: "_itunes_" behind the length 4.  The
\* 'n' (110) is where the next length should be, and the name does not end.
Itunes == <<4, 95, 105, 116, 117, 110, 101, 115, 95, 4, 95, 116, 99, 112, 0>>
Tested == Response(HeaderOf(2, 1) \o <<0>> \o Record(Itunes))

MCDatagrams ==
  Unfinished \cup Asked \cup Whole \cup Cut \cup {Response(m) : m \in Whole}
    \cup Named \cup Plain \cup {Tested}

\* The strings of a TXT record are read back as they were written, up to one
\* that is cut off.
TxtRdata(strings) == FlattenSeq([i \in DOMAIN strings |-> <<Len(strings[i])>> \o strings[i]])
ASSUME StringsReadBack ==
  \A n \in 0..3 : \A strings \in [1..n -> {<<>>, <<A>>, <<2, 0>>}], rest \in {<<>>, <<1>>, <<3, A, 0>>} :
    Strings(TxtRdata(strings) \o rest) = strings

\* Names as the scanner asks for them: one and more labels, and empty ones between.
Ask(text) == [qname |-> text, qtype |-> 12, class_code |-> 1]
MCQueries ==
  { <<>>, <<Ask(<<A>>)>>, <<Ask(<<A, A, Dot, A>>), Ask(<<A, Dot, A, Dot, A>>)>>,
    <<[Ask(<<A, Dot, A>>) EXCEPT !.qtype = 33]>>,
    <<Ask([i \in 1..63 |-> A])>>, <<Ask(<<Dot, A, Dot, Dot, A>>), Ask(<<A, Dot>>)>> }
=============================================================================
