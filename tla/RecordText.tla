------------------------------ MODULE RecordText ------------------------------
(***************************************************************************)
(* What the worker does with a datagram that MdnsMessageDecoder has        *)
(* decoded: if it is a response, create_discovery_event takes the records  *)
(* of the three record sections one after the other and makes a text of    *)
(* the RDATA of each (make_record_view, rdata_str, RDataFormatter).        *)
(*                                                                         *)
(* A PTR or SRV record names a domain in its RDATA.  Its formatter calls   *)
(* parse_qname again, on the whole datagram from inside the RDATA, and     *)
(* catches what that throws: the loop of MdnsMessageDecoder is entered a   *)
(* second time, with another way out.  Here the iterations that go on      *)
(* (Jump, Label) are the decoder's actions; the ones that leave the loop   *)
(* return to the formatter instead of decode().                            *)
(***************************************************************************)
EXTENDS MdnsMessageDecoder

VARIABLES
  caller,   \* the formatter that waits for parse_qname, "none" without one
  texts     \* the rdata_text of each record formatted so far

textVars == <<vars, caller, texts>>

\* QR bit of the flags: queries are ignored by the worker.
IsResponse == U16At(2) >= 32768

\* append_records is called for answers, authorities and additionals.
Records == msg[2] \o msg[3] \o msg[4]

-----------------------------------------------------------------------------
(* A record and the context of its formatter.                              *)

A_TYPE == 1
PTR_TYPE == 12
TXT_TYPE == 16
AAAA_TYPE == 28
SRV_TYPE == 33

U16Of(bytes, i) == bytes[i] * 256 + bytes[i + 1]

TypeOf(rr) == U16Of(rr.fields[1], 1)
Rdata(rr) == rr.fields[5]

RdataOffset(rr) == rr.to - Len(Rdata(rr))

\* A text: which of the formatter's sentences it is, and what it fills in.
Text(form, parts) == [form |-> form, parts |-> parts]
Malformed == Text("malformed", <<>>)

-----------------------------------------------------------------------------
(* The formatters that need the RDATA alone.                               *)

AddressText(rdata) ==
  IF Len(rdata) = 4 THEN Text("IPv4", <<rdata>>) ELSE Malformed

Address6Text(rdata) ==
  IF Len(rdata) = 16
  THEN Text("IPv6", <<[group \in 1..8 |-> U16Of(rdata, 2 * group - 1)]>>)
  ELSE Malformed

\* The character strings of a TXT record, each behind its length; one that
\* does not fit ends the loop.
Strings(rdata) ==
  LET read[at \in 1..(Len(rdata) + 1)] ==
        IF at > Len(rdata) \/ at + rdata[at] > Len(rdata) THEN <<>>
        ELSE <<SubSeq(rdata, at + 1, at + rdata[at])>> \o read[at + rdata[at] + 1]
  IN  read[1]

Space == 32
Spaced(strings) ==
  IF strings = <<>> THEN <<>>
  ELSE FoldLeft(LAMBDA text, s : Append(text, Space) \o s, Head(strings), Tail(strings))

\* The first 32 bytes in hexadecimal digits, and dots for the others.
HexText(rdata) ==
  IF Len(rdata) <= 32 THEN Text("hex", <<rdata>>)
  ELSE Text("hex...", <<SubSeq(rdata, 1, 32)>>)

\* priority, weight and port
SrvNumbers(rdata) == [k \in 1..3 |-> U16Of(rdata, 2 * k - 1)]

\* Where the name of a record starts, for the formatters that read one.
NameStart(rr) == RdataOffset(rr) + (IF TypeOf(rr) = SRV_TYPE THEN 6 ELSE 0)

HasName(rr) ==
  \/ TypeOf(rr) = PTR_TYPE /\ Rdata(rr) # <<>>
  \/ TypeOf(rr) = SRV_TYPE /\ Len(Rdata(rr)) > 6

\* get_rdata_formatter, for the records that need no name.
PlainText(rr) ==
  LET rdata == Rdata(rr)
  IN  CASE TypeOf(rr) = A_TYPE -> AddressText(rdata)
        [] TypeOf(rr) = AAAA_TYPE -> Address6Text(rdata)
        [] TypeOf(rr) = PTR_TYPE -> Text("empty", <<>>)
        [] TypeOf(rr) = SRV_TYPE ->
             IF Len(rdata) < 6 THEN Malformed ELSE Text("service", <<SrvNumbers(rdata)>>)
        [] TypeOf(rr) = TXT_TYPE -> Text("strings", <<Spaced(Strings(rdata))>>)
        [] OTHER -> HexText(rdata)

\* The text around a name that has been read, and around one that has not.
NamedText(rr, read) ==
  IF TypeOf(rr) = PTR_TYPE THEN Text("name", <<read>>)
  ELSE Text("service", <<SrvNumbers(Rdata(rr)), read>>)

CaughtText(rr) ==
  IF TypeOf(rr) = PTR_TYPE THEN Malformed
  ELSE Text("service, malformed target", <<SrvNumbers(Rdata(rr))>>)

-----------------------------------------------------------------------------
(* append_records: one record after the other.                             *)

TextInit == Init /\ caller = "none" /\ texts = <<>>

Decoding ==
  /\ caller = "none" /\ Next
  /\ UNCHANGED <<caller, texts>>

\* The record to format, once decode() has returned a response.
Formatting == pc = "done" /\ IsResponse /\ Len(texts) < Len(Records)
Current == Records[Len(texts) + 1]

FormatPlain ==
  /\ Formatting /\ ~HasName(Current)
  /\ texts' = Append(texts, PlainText(Current))
  /\ UNCHANGED <<vars, caller>>

\* Mutant of FormatName: the name is appended to the one read before.
FormatNameFault ==
  /\ Formatting /\ HasName(Current)
  /\ npos' = NameStart(Current) /\ consumed' = npos' /\ jumped' = FALSE
  /\ loop_count' = 0
  /\ pc' = "name" /\ caller' = "formatter"
  /\ UNCHANGED <<message, why, cursor, high, texts, name>>
\* The call of parse_qname(message, message_len, rdata_offset).
FormatName ==
  /\ Formatting /\ HasName(Current)
  /\ npos' = NameStart(Current) /\ consumed' = npos' /\ jumped' = FALSE
  /\ loop_count' = 0 /\ name' = <<>>
  /\ pc' = "name" /\ caller' = "formatter"
  /\ UNCHANGED <<message, why, cursor, high, texts>>

NameGoesOn ==
  /\ caller = "formatter" /\ (Jump \/ Label)
  /\ UNCHANGED <<caller, texts>>

Return(text) ==
  /\ texts' = Append(texts, text)
  /\ pc' = "done" /\ caller' = "none"
  /\ UNCHANGED <<message, why, names, cursor>>

NameEnds ==
  /\ caller = "formatter" /\ Iterating /\ LabelLen = Terminator
  /\ Reading(npos + 1)
  /\ Return(NamedText(Current, name))

\* The throws of parse_qname, each with what it has read.
Refused ==
  \/ npos >= size /\ UNCHANGED high
  \/ npos < size /\ loop_count + 1 > LoopLimit /\ UNCHANGED high
  \/ Iterating /\ IsPointer /\ ~PointerFits /\ Reading(npos + 1)
  \/ Iterating /\ IsPointer /\ PointerFits /\ ~TargetInside /\ Reading(npos + 2)
  \/ Iterating /\ LabelLen \in 64..191 /\ Reading(npos + 1)
  \/ Iterating /\ IsLabel /\ ~LabelFits /\ Reading(npos + 1)

\* Mutant of NameCaught: the exception leaves create_discovery_event.
NameCaughtFault ==
  /\ caller = "formatter" /\ Refused
  /\ pc' = "throw" /\ caller' = "none"
  /\ UNCHANGED <<message, why, names, cursor, texts>>
\* catch (...) in the formatter.
NameCaught ==
  /\ caller = "formatter" /\ Refused
  /\ Return(CaughtText(Current))

TextNext ==
  \/ Decoding
  \/ FormatPlain \/ FormatName \/ NameGoesOn \/ NameEnds \/ NameCaught

\* Like decode(), a plain call in one thread.
TextSpec == TextInit /\ [][TextNext]_textVars /\ WF_textVars(TextNext)

-----------------------------------------------------------------------------
(* Properties                                                              *)

\* The texts are those of the records, in their order, and the name in one is
\* what the datagram says at that place: RFC 1035's reading of it, through
\* any pointers, when it ends, and "malformed" exactly when it does not.
\* Reading one record's name leaves nothing behind for the next.  A test of the
\* formatters (tests/test_parser.cpp:229) asserts of a name whose first label is
\* longer than its length says that the text shows it; it is "malformed".
TextsAreWire ==
  pc = "done" => \A k \in 1..Len(texts) :
    LET rr == Records[k]
        rdataStart == NameEnd(rr.from) + 10
        start == IF TypeOf(rr) = SRV_TYPE THEN rdataStart + 6 ELSE rdataStart
    IN  texts[k] = CASE ~HasName(rr) -> PlainText(rr)
                     [] HasName(rr) /\ Ends(start) -> NamedText(rr, TextAt(start))
                     [] HasName(rr) /\ ~Ends(start) -> CaughtText(rr)

\* Every datagram comes to an end: decode() throws, or it returns and, in a
\* response, every record gets its text.  A name that loops or is cut off
\* inside one record neither hangs the worker nor hides the other records.
EveryRecordGetsText ==
  <>[](\/ pc = "throw" /\ texts = <<>>
       \/ pc = "done" /\ Len(texts) = IF IsResponse THEN Len(Records) ELSE 0)
=============================================================================
