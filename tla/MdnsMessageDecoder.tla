------------------------- MODULE MdnsMessageDecoder -------------------------
(***************************************************************************)
(* MdnsMessageDecoder::decode on one received datagram, with parse_qname   *)
(* (names and RFC 1035 compression pointers) one loop iteration a step,    *)
(* parse_questions and parse_record_impl one field a step; and the         *)
(* QueryBuilder that writes the datagrams the scanner itself multicasts,   *)
(* which come back to its own socket.                                      *)
(*                                                                         *)
(* Offsets count from 0 as in the code; buf is a sequence, so the byte at  *)
(* offset i is buf[i + 1].  Text is a sequence of byte values.             *)
(***************************************************************************)
EXTENDS Integers, Sequences, SequencesExt

CONSTANTS
  Datagrams,    \* datagrams other hosts may send: sequences of bytes
  Queries       \* queries the scanner sends: sequences of [qname, qtype, class_code]

Byte == 0..255
Word == 0..65535

ASSUME DatagramsAssumption == Datagrams \subseteq Seq(Byte)

-----------------------------------------------------------------------------
(* DNS wire constants and QueryBuilder.                                    *)

kHeaderSize == 12
Terminator == 0
Dot == 46

High(u16) == u16 \div 256
Low(u16) == u16 % 256

\* The labels found so far, and the one the dot or the end of the name closes.
Closed(found) ==
  IF found.label = <<>> THEN found.labels ELSE Append(found.labels, found.label)

\* What add_question has found in the first n bytes of a dotted name.
Scan(text) ==
  LET found[n \in 0..Len(text)] ==
        IF n = 0 THEN [labels |-> <<>>, label |-> <<>>]
        ELSE IF text[n] = Dot THEN [labels |-> Closed(found[n - 1]), label |-> <<>>]
        ELSE [found[n - 1] EXCEPT !.label = Append(@, text[n])]
  IN  found

\* The labels of a dotted name; empty ones are skipped.
LabelsOf(text) == Closed(Scan(text)[Len(text)])

\* append_label keeps the low byte of the length.
AppendLabel(buffer, label) == buffer \o <<Low(Len(label))>> \o label

\* The buffer behind each of the labels.
Written(buffer, labels) ==
  LET behind[n \in 0..Len(labels)] ==
        IF n = 0 THEN buffer ELSE AppendLabel(behind[n - 1], labels[n])
  IN  behind

WithLabels(buffer, labels) == Written(buffer, labels)[Len(labels)]

\* Mutant of AddQuestion: class written before type.
AddQuestionFault(buffer, question) ==
  WithLabels(buffer, LabelsOf(question.qname))
    \o <<Terminator, High(question.class_code), Low(question.class_code),
         High(question.qtype), Low(question.qtype)>>

AddQuestion(buffer, question) ==
  WithLabels(buffer, LabelsOf(question.qname))
    \o <<Terminator, High(question.qtype), Low(question.qtype),
         High(question.class_code), Low(question.class_code)>>

\* QueryBuilder(0), one add_question per request, build(): the buffer behind
\* each of the questions.
Built(questions) ==
  LET behind[n \in 0..Len(questions)] ==
        IF n = 0
        THEN <<0, 0, 0, 0, High(Len(questions)), Low(Len(questions)), 0, 0, 0, 0, 0, 0>>
        ELSE AddQuestion(behind[n - 1], questions[n])
  IN  behind

Build(questions) == Built(questions)[Len(questions)]

\* Names are texts of bytes; types and classes have 16 bits, and so has the number
\* of questions, as more do not fit into a datagram; and the scanner asks for
\* service types and for names it has read, whose labels have at most 63 bytes.
Request == [qname : Seq(Byte), qtype : Word, class_code : Word]

ASSUME QueriesAssumption ==
  /\ Queries \subseteq Seq(Request)
  /\ \A q \in Queries :
       /\ Len(q) \in Word
       /\ \A k \in 1..Len(q) : \A label \in ToSet(LabelsOf(q[k].qname)) : Len(label) <= 63

-----------------------------------------------------------------------------
VARIABLES
  buf,        \* buffer and buffer_len: the datagram
  pc,         \* where decode() is
  why,        \* what the exception says, "none" before one is thrown
  section,    \* 1 questions, 2 answers, 3 authorities, 4 additionals
  left,       \* items of the section still to parse
  from,       \* offset at which the item being parsed starts
  pos,        \* decode's pos
  npos,       \* parse_qname's pos, consumed, jumped, loop_count, name
  consumed,
  jumped,
  loop_count,
  name,
  fields,     \* bytes of the fields read so far of the item
  msg,        \* the MdnsParsedMessage: a sequence of items for each section
  high        \* history: one past the highest offset read so far

message == <<buf, msg>>
names == <<npos, consumed, jumped, loop_count, name>>
cursor == <<section, left, from, pos, fields>>
vars == <<message, pc, why, names, cursor, high>>

size == Len(buf)

\* A byte outside the buffer is undefined in the code; ReadsInBounds says
\* that no step reads one, so what is returned here is never used.
ByteAt(i) == IF i < size THEN buf[i + 1] ELSE 0
U16At(i) == ByteAt(i) * 256 + ByteAt(i + 1)

\* The offsets below i have been read.
Reading(i) == high' = IF i > high THEN i ELSE high

\* std::invalid_argument leaves decode(): the message is dropped.
Throw(reason) ==
  /\ pc' = "throw"
  /\ why' = reason
  /\ UNCHANGED <<message, names, cursor>>

\* ensure_readable
Readable(at, bytes) == at + bytes <= size

SectionCount(s) == U16At(2 + 2 * s)

-----------------------------------------------------------------------------
(* parse_dns_header and the section loops of decode().                     *)

Init ==
  /\ buf \in Datagrams \cup {Build(q) : q \in Queries}
  /\ pc = "header" /\ why = "none"
  /\ section = 1 /\ left = 0 /\ from = 0 /\ pos = 0
  /\ npos = 0 /\ consumed = 0 /\ jumped = FALSE /\ loop_count = 0
  /\ name = <<>> /\ fields = <<>>
  /\ msg = [s \in 1..4 |-> <<>>]
  /\ high = 0

ShortHeader ==
  /\ pc = "header" /\ size < kHeaderSize
  /\ Throw("header") /\ UNCHANGED high

Header ==
  /\ pc = "header" /\ size >= kHeaderSize
  /\ pos' = kHeaderSize /\ section' = 1 /\ left' = SectionCount(1)
  /\ Reading(kHeaderSize)
  /\ pc' = "item"
  /\ UNCHANGED <<message, why, names, from, fields>>

\* A section is finished: the next one, or the end of decode().
NextSection ==
  /\ pc = "item" /\ left = 0
  /\ IF section < 4
     THEN /\ section' = section + 1 /\ left' = SectionCount(section + 1)
          /\ UNCHANGED pc
     ELSE pc' = "done" /\ UNCHANGED <<section, left>>
  /\ UNCHANGED <<message, why, names, from, pos, fields, high>>

ItemPastEnd ==
  /\ pc = "item" /\ left > 0 /\ pos >= size
  /\ Throw("item") /\ UNCHANGED high

\* An item starts with its name: the call of parse_qname(buf, len, pos).
StartItem ==
  /\ pc = "item" /\ left > 0 /\ pos < size
  /\ from' = pos /\ fields' = <<>>
  /\ npos' = pos /\ consumed' = pos /\ jumped' = FALSE
  /\ loop_count' = 0 /\ name' = <<>>
  /\ pc' = "name"
  /\ UNCHANGED <<message, why, section, left, pos, high>>

-----------------------------------------------------------------------------
(* parse_qname: one action per way through an iteration of its loop.       *)

\* Mutant of Runaway's bound: measured from the name instead of the buffer.
LoopLimitFault == size - pos
LoopLimit == size

Unterminated ==
  /\ pc = "name" /\ npos >= size
  /\ Throw("unterminated") /\ UNCHANGED high

Runaway ==
  /\ pc = "name" /\ npos < size /\ loop_count + 1 > LoopLimit
  /\ Throw("loop") /\ UNCHANGED high

\* The loop body has started, and label_len has been read.
Iterating ==
  /\ pc = "name" /\ npos < size /\ loop_count + 1 <= LoopLimit

LabelLen == ByteAt(npos)
IsPointer == LabelLen >= 192
IsLabel == LabelLen \in 1..63

EndOfName ==
  /\ Iterating /\ LabelLen = Terminator
  /\ pos' = IF jumped THEN consumed ELSE npos + 1
  /\ consumed' = pos'
  /\ loop_count' = loop_count + 1
  /\ Reading(npos + 1)
  /\ pc' = "fields"
  /\ UNCHANGED <<message, why, npos, jumped, name, section, left, from, fields>>

\* Mutant of PointerFits: the second byte of the pointer is not checked for.
PointerFitsFault == TRUE
PointerFits == npos + 1 < size

PointerTruncated ==
  /\ Iterating /\ IsPointer /\ ~PointerFits
  /\ Throw("pointer truncated") /\ Reading(npos + 1)

PointerTarget == (LabelLen % 64) * 256 + ByteAt(npos + 1)

\* Mutant of TargetInside: the target is not checked.
TargetInsideFault == TRUE
TargetInside == PointerTarget < size

PointerOutside ==
  /\ Iterating /\ IsPointer /\ PointerFits /\ ~TargetInside
  /\ Throw("pointer outside") /\ Reading(npos + 2)

\* Mutant of AfterPointer: consumed follows every pointer, not only the first.
AfterPointerFault == npos + 2
AfterPointer == IF jumped THEN consumed ELSE npos + 2

Jump ==
  /\ Iterating /\ IsPointer /\ PointerFits /\ TargetInside
  /\ consumed' = AfterPointer
  /\ npos' = PointerTarget /\ jumped' = TRUE
  /\ loop_count' = loop_count + 1
  /\ Reading(npos + 2)
  /\ UNCHANGED <<message, pc, why, name, cursor>>

BadLabel ==
  /\ Iterating /\ LabelLen \in 64..191
  /\ Throw("label") /\ Reading(npos + 1)

LabelFits == npos + 1 + LabelLen <= size

LabelPastEnd ==
  /\ Iterating /\ IsLabel /\ ~LabelFits
  /\ Throw("label past end") /\ Reading(npos + 1)

Dotted(text, label) ==
  (IF text = <<>> THEN <<>> ELSE Append(text, Dot)) \o label

Label ==
  /\ Iterating /\ IsLabel /\ LabelFits
  /\ name' = Dotted(name, SubSeq(buf, npos + 2, npos + 1 + LabelLen))
  /\ npos' = npos + 1 + LabelLen
  /\ consumed' = IF jumped THEN consumed ELSE npos'
  /\ loop_count' = loop_count + 1
  /\ Reading(npos + 1 + LabelLen)
  /\ UNCHANGED <<message, pc, why, jumped, cursor>>

-----------------------------------------------------------------------------
(* The fields behind the name: TYPE and CLASS of a question; TYPE, CLASS,  *)
(* TTL, RDLENGTH and RDATA of a record.                                    *)

Widths == IF section = 1 THEN <<2, 2>> ELSE <<2, 2, 4, 2>>

RdLength == fields[4][1] * 256 + fields[4][2]

FieldsRead == Len(fields) = Len(Widths)
Width == IF FieldsRead THEN RdLength ELSE Widths[Len(fields) + 1]

\* The item is complete when the last field of a question, or the RDATA of
\* a record, has been read; the bytes of the last field end at pos'.
ItemDone ==
  /\ msg' = [msg EXCEPT ![section] =
               Append(@, [from |-> from, to |-> pos', name |-> name,
                          fields |-> fields'])]
  /\ left' = left - 1
  /\ pc' = "item"

FieldPastEnd ==
  /\ pc = "fields" /\ ~Readable(pos, Width)
  /\ Throw("field") /\ UNCHANGED high

Field ==
  /\ pc = "fields" /\ Readable(pos, Width)
  /\ fields' = Append(fields, SubSeq(buf, pos + 1, pos + Width))
  /\ pos' = pos + Width
  /\ Reading(pos + Width)
  /\ IF FieldsRead \/ (section = 1 /\ Len(fields) = 1)
     THEN ItemDone
     ELSE UNCHANGED <<msg, left, pc>>
  /\ UNCHANGED <<buf, why, names, section, from>>

-----------------------------------------------------------------------------
\* One iteration of parse_qname's loop, or the throw behind it.
Name ==
  \/ Unterminated \/ Runaway \/ EndOfName
  \/ PointerTruncated \/ PointerOutside \/ Jump
  \/ BadLabel \/ LabelPastEnd \/ Label

Next ==
  \/ ShortHeader \/ Header \/ NextSection \/ ItemPastEnd \/ StartItem
  \/ Name
  \/ FieldPastEnd \/ Field

\* decode() is a plain call: it runs until it returns or throws.
Spec == Init /\ [][Next]_vars /\ WF_vars(Next)

-----------------------------------------------------------------------------
(* A reference reading of a name: RFC 1035's chain of offsets, without the *)
(* flags and counters of the loop above.                                   *)

PointerAt(p) == p + 1 < size /\ ByteAt(p) >= 192
Pointee(p) == (ByteAt(p) - 192) * 256 + ByteAt(p + 1)
LabelAt(p) == p < size /\ ByteAt(p) \in 1..63
Moves(p) == LabelAt(p) \/ PointerAt(p)
EndAt(p) == p < size /\ ByteAt(p) = Terminator

\* Where a reader at offset o goes next; it stays where the name ends or is
\* malformed.
Hop(o) ==
  IF PointerAt(o) THEN Pointee(o) ELSE IF LabelAt(o) THEN o + 1 + ByteAt(o) ELSE o

\* The first size + 1 offsets a reader of the name at p goes through.
Chain(p) ==
  LET at[n \in 1..(size + 1)] == IF n = 1 THEN p ELSE Hop(at[n - 1])
  IN  at

\* A reader that comes to the end has done so after size hops.
Ends(p) == EndAt(Last(Chain(p)))

\* A reader that is still moving then has been at that place before.
Cyclic(p) ==
  LET c == Chain(p)
  IN  Moves(Last(c)) /\ \E n \in 1..size : c[n] = Last(c)

\* The n bytes behind offset o.
BytesAt(o, n) == SubSeq(buf, o + 1, o + n)

\* The labels among the first n offsets of the name at p, and all of them.
LabelText(o) == BytesAt(o + 1, ByteAt(o))
Labels(p) ==
  LET at == Chain(p)
      labels[n \in 0..(size + 1)] ==
        IF n = 0 THEN <<>>
        ELSE IF LabelAt(at[n]) THEN Append(labels[n - 1], LabelText(at[n]))
        ELSE labels[n - 1]
  IN  labels
WireLabels(p) == Labels(p)[size + 1]

\* The text of the labels among the first n offsets, and of all.
Texts(p) ==
  LET at == Chain(p)
      text[n \in 0..(size + 1)] ==
        IF n = 0 THEN <<>>
        ELSE IF LabelAt(at[n]) THEN Dotted(text[n - 1], LabelText(at[n]))
        ELSE text[n - 1]
  IN  text
TextAt(p) == Texts(p)[size + 1]

\* Where the bytes of the name at p stop: behind the first pointer, or
\* behind the terminator of a name without one.
NameEnd(p) ==
  LET stop == SelectInSeq(Chain(p), LAMBDA o : PointerAt(o) \/ EndAt(o))
      o == Chain(p)[stop]
  IN  o + (IF PointerAt(o) THEN 2 ELSE 1)

-----------------------------------------------------------------------------
(* Properties                                                              *)

\* Every variable keeps its shape, and every offset the decoder holds stays
\* inside the datagram (decode, parse_qname).
TypeOK ==
  /\ buf \in Seq(Byte)
  /\ pc \in {"header", "item", "name", "fields", "done", "throw"}
  /\ why \in {"none", "header", "item", "unterminated", "loop", "pointer truncated",
             "pointer outside", "label", "label past end", "field"}
  /\ section \in 1..4 /\ left \in Nat
  /\ from \in 0..size /\ pos \in 0..size
  /\ npos \in 0..size /\ consumed \in 0..size
  /\ jumped \in BOOLEAN /\ loop_count \in 0..size
  /\ high \in Nat

\* No step reads a byte at or behind the end of the datagram: the checks of
\* parse_qname, ensure_readable and parse_dns_header cover every read.
ReadsInBounds == high <= size

\* The fields of a question or record whose name stops at offset e, and where
\* the last of them ends.
FieldsAt(s, e) ==
  IF s = 1 THEN <<BytesAt(e, 2), BytesAt(e + 2, 2)>>
  ELSE <<BytesAt(e, 2), BytesAt(e + 2, 2), BytesAt(e + 4, 4), BytesAt(e + 8, 2),
         BytesAt(e + 10, U16At(e + 8))>>
FieldsEnd(s, e) == IF s = 1 THEN e + 4 ELSE e + 10 + U16At(e + 8)

\* An item of section s as the datagram has it.
IsWire(s, item) ==
  LET e == NameEnd(item.from)
  IN  /\ Ends(item.from) /\ item.name = TextAt(item.from)
      /\ item.fields = FieldsAt(s, e) /\ item.to = FieldsEnd(s, e)

\* What has been decoded is what the datagram says.  The items lie side by
\* side from the header on; each has the name the reference reading gives,
\* whatever pointers it is made of, and the fields that lie where the bytes of
\* that name stop; and decode() returns only when every section holds as
\* many items as the header announces.
MessageIsWire ==
  LET items == msg[1] \o msg[2] \o msg[3] \o msg[4]
  IN  /\ pc \in {"item", "done"} =>
           /\ \A s \in 1..4 : \A k \in 1..Len(msg[s]) : IsWire(s, msg[s][k])
           /\ \A k \in 1..Len(items) :
                items[k].from = IF k = 1 THEN kHeaderSize ELSE items[k - 1].to
           /\ pos = IF items = <<>> THEN kHeaderSize ELSE items[Len(items)].to
      /\ pc = "done" => \A s \in 1..4 : Len(msg[s]) = SectionCount(s)

\* A name is refused as a "pointer loop" only if following it really never
\* ends, and no endless name is taken for a finite one: the bound of
\* parse_qname on its iterations is neither too small nor too large.
LoopVerdict ==
  /\ why = "loop" => Cyclic(from)
  /\ pc = "fields" => ~Cyclic(from)

\* No label is empty: no dot at either end, and no two in a row.
NoEmptyLabel(text) ==
  \A i \in 1..Len(text) :
    text[i] = Dot => i # 1 /\ i # Len(text) /\ text[i + 1] # Dot

\* decode() never throws on a query QueryBuilder wrote, and reads it back as
\* the questions that were asked, names, types and classes, in order; what a
\* name may lose on the way is its empty labels, and nothing else.  The other
\* way round, a name read from a datagram and then asked for, as the probes do,
\* is written label by label as it was read, unless a label has a dot: the text
\* does not tell that dot from those between the labels.
RoundTrip ==
  /\ \A q \in Queries :
       buf = Build(q) =>
         /\ pc # "throw"
         /\ pc = "done" =>
              /\ Len(msg[1]) = Len(q)
              /\ \A k \in 1..Len(q) :
                   /\ msg[1][k].fields =
                        <<<<High(q[k].qtype), Low(q[k].qtype)>>,
                          <<High(q[k].class_code), Low(q[k].class_code)>>>>
                   /\ LabelsOf(msg[1][k].name) = LabelsOf(q[k].qname)
                   /\ NoEmptyLabel(q[k].qname) => msg[1][k].name = q[k].qname
  /\ pc = "done" => \A s \in 1..4 : \A item \in ToSet(msg[s]) :
       LabelsOf(item.name) = WireLabels(item.from)
         <=> \A label \in ToSet(WireLabels(item.from)) : Dot \notin ToSet(label)

=============================================================================
