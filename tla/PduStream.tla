------------------------------- MODULE PduStream -------------------------------
(***************************************************************************)
(* PDUs on their way over one direction of a connection: the builder and   *)
(* encoder of pkg/smpp/codec.go, the field layouts of pkg/smpp/pdu.go, the *)
(* writes of Client.sendPDU and ServerConnection.Send, and the decoder     *)
(* that reads header and body from the byte stream.                        *)
(*                                                                         *)
(* The stream is a sequence of bytes. A byte has ByteSize values instead   *)
(* of 256, and field lengths and tags are constants, so that every limit   *)
(* (a full field, the largest short message, the last sequence number) is  *)
(* met by small PDUs. What the code computes from them is kept: offsets,   *)
(* padding, big-endian numbers and the width of each of them.              *)
(***************************************************************************)
EXTENDS Integers, Sequences, SequencesExt

CONSTANTS
    ByteSize,                                                     \* 256 in the code
    MaxSystemIDLength, MaxPasswordLength, MaxSystemTypeLength,    \* fields of a bind
    MaxServiceTypeLength, MaxAddressLength, RangeLength, TimeLength,
    TagMessagePayload,  \* the tag of the message_payload parameter
    Names,              \* the strings that system IDs, addresses and message IDs are taken from
    Messages,           \* the contents that are sent, as sequences of bytes
    StartSeqs,          \* where the builder's counter may stand: 1, or as late as a long life takes it
    AnswerSeqs,         \* sequence numbers that answers are given
    Breaks,             \* after how many bytes a write may be cut short or the stream may end
    MaxPdus             \* bound: PDUs that are sent

Bytes == 0 .. ByteSize - 1
WordSize == ByteSize * ByteSize * ByteSize * ByteSize
HeaderLength == 16

\* Six values a byte leave room for the numbers of all commands; the code's lengths are far from filling
\* a frame, whose length is a word.
ASSUME CodecAssumption ==
    /\ ByteSize \in Nat /\ ByteSize >= 6 /\ MaxPdus \in Nat /\ Breaks \subseteq Nat \ {0}
    /\ Names \subseteq Seq(Bytes \ {0}) /\ Messages \subseteq Seq(Bytes)
    /\ StartSeqs \subseteq 1 .. WordSize - 1 /\ AnswerSeqs \subseteq 1 .. WordSize - 1
    /\ TagMessagePayload \in 0 .. ByteSize * ByteSize - 1

ASSUME SizesAssumption ==
    /\ {MaxSystemIDLength, MaxPasswordLength, MaxSystemTypeLength, RangeLength} \subseteq Nat
    /\ {MaxServiceTypeLength, MaxAddressLength, TimeLength} \subseteq Nat
    /\ HeaderLength + MaxSystemIDLength + MaxPasswordLength + MaxSystemTypeLength + 3 + RangeLength < WordSize
    /\ \A n \in Names : HeaderLength + Len(n) + 4 < WordSize
    /\ \A m \in Messages : HeaderLength + MaxServiceTypeLength + 2 * MaxAddressLength + 2 * TimeLength
                             + 12 + 4 + Len(m) < WordSize

VARIABLES
    sender,       \* who writes: "client" (Client.sendPDU) or "server" (ServerConnection.Send)
    sequenceNum,  \* PDUBuilder.sequenceNum of the sender
    active,       \* ServerConnection.active; the client has no such flag
    out,          \* history: the PDUs given to the encoder, and whether they were written whole
    wire,         \* bytes written and not yet read
    cut,          \* the connection is gone: no more bytes come than those on the wire
    header,       \* the 16 bytes DecodeFromReader has read ahead of the body, or <<>>
    in,           \* the PDUs the reader has decoded
    failed        \* DecodeFromReader returned an error, which ends the reader

vars == <<sender, sequenceNum, active, out, wire, cut, header, in, failed>>

-----------------------------------------------------------------------------
(* Commands *)

\* The requests that client and server build.
Requests == [bind_receiver |-> 1, bind_transmitter |-> 2, submit_sm |-> 4, deliver_sm |-> 5,
             unbind |-> 6, bind_transceiver |-> 9, enquire_link |-> 21]

\* A response has the number of its request with the highest bit set; generic_nack has only that.
Responses == [bind_receiver_resp |-> 1, bind_transmitter_resp |-> 2, query_sm_resp |-> 3,
              submit_sm_resp |-> 4, deliver_sm_resp |-> 5, unbind_resp |-> 6,
              replace_sm_resp |-> 7, cancel_sm_resp |-> 8, bind_transceiver_resp |-> 9,
              enquire_link_resp |-> 21, submit_multi_resp |-> 33, data_sm_resp |-> 259,
              generic_nack |-> 0]

Number(c) == IF c \in DOMAIN Requests THEN Requests[c] ELSE WordSize \div 2 + Responses[c]

-----------------------------------------------------------------------------
(* Field layouts. A PDU body is the sequence of its fields' values. *)

octet == [kind |-> "octet"]                  \* one byte, as a sequence
fixed(n) == [kind |-> "fixed", n |-> n]      \* NUL-padded to n bytes
cstring == [kind |-> "cstring"]              \* with a terminating NUL
shortMessage == [kind |-> "short_message"]   \* SMLength and ShortMessage
optional == [kind |-> "optional"]            \* optional parameters

BindRequest ==
    <<fixed(MaxSystemIDLength), fixed(MaxPasswordLength), fixed(MaxSystemTypeLength),
      octet, octet, octet, fixed(RangeLength)>>

SubmitSM ==
    <<fixed(MaxServiceTypeLength), octet, octet, fixed(MaxAddressLength),
      octet, octet, fixed(MaxAddressLength), octet, octet, octet,
      fixed(TimeLength), fixed(TimeLength), octet, octet, octet, octet,
      shortMessage, optional>>

DeliverSM == SubmitSM

BindResponse == <<cstring>>
SubmitSMResp == <<cstring>>
DeliverSMResp == <<cstring>>
SubmitMultiResp == <<cstring, octet>>
DataSMResp == <<cstring, optional>>
QuerySMResp == <<cstring, cstring, octet, octet>>

BindResponses == {"bind_receiver_resp", "bind_transmitter_resp", "bind_transceiver_resp"}
Binds == {"bind_receiver", "bind_transmitter", "bind_transceiver"}

Layout(c) ==
    CASE c \in Binds -> BindRequest
      [] c = "submit_sm" -> SubmitSM
      [] c = "deliver_sm" -> DeliverSM
      [] c \in BindResponses -> BindResponse
      [] c = "submit_sm_resp" -> SubmitSMResp
      [] c = "deliver_sm_resp" -> DeliverSMResp
      [] c = "submit_multi_resp" -> SubmitMultiResp
      [] c = "data_sm_resp" -> DataSMResp
      [] c = "query_sm_resp" -> QuerySMResp
      [] OTHER -> <<>>

-----------------------------------------------------------------------------
(* Encoding *)

Uint16(n) == <<(n \div ByteSize) % ByteSize, n % ByteSize>>
Uint32(n) == Uint16(n \div (ByteSize * ByteSize)) \o Uint16(n)

MarshalParam(p) == Uint16(p.tag) \o Uint16(p.length) \o p.value

\* The bytes of one field; a string that is too long for a fixed field loses its end.
Marshal(f, v) ==
    CASE f.kind = "octet" -> v
      [] f.kind = "fixed" -> [i \in 1 .. f.n |-> IF i <= Len(v) THEN v[i] ELSE 0]
      [] f.kind = "cstring" -> Append(v, 0)
      [] f.kind = "short_message" -> <<v.length>> \o v.data
      [] f.kind = "optional" -> FlattenSeq([i \in DOMAIN v |-> MarshalParam(v[i])])

MarshalBody(layout, body) == FlattenSeq([i \in DOMAIN layout |-> Marshal(layout[i], body[i])])

\* The command a body claims to be, whatever the header says: one type serves all binds, and one
\* all their responses.
CommandID(c) ==
    CASE c \in Binds -> "bind_transceiver"
      [] c \in BindResponses -> "bind_transceiver_resp"
      [] OTHER -> c

\* Fault: the length leaves out the header.
EncodeBodyLength(p) ==
    LET body == MarshalBody(Layout(p.command), p.body)
    IN Uint32(Len(body)) \o Uint32(Number(CommandID(p.command)))
       \o Uint32(p.status) \o Uint32(p.seq) \o body

Encode(p) ==
    LET body == MarshalBody(Layout(p.command), p.body)
    IN Uint32(HeaderLength + Len(body)) \o Uint32(Number(CommandID(p.command)))
       \o Uint32(p.status) \o Uint32(p.seq) \o body

-----------------------------------------------------------------------------
(* Decoding *)

FromUint(bs) ==
    LET value[i \in 0 .. Len(bs)] == IF i = 0 THEN 0 ELSE value[i - 1] * ByteSize + bs[i]
    IN value[Len(bs)]

NotNul(b) == b # 0
TrimRight(bs) == SubSeq(bs, 1, SelectLastInSubSeq(bs, 1, Len(bs), NotNul))

\* Everything before the first NUL, or all of it.
UntilNul(bs) ==
    LET n == SelectInSeq(bs, LAMBDA b : b = 0) IN IF n = 0 THEN bs ELSE SubSeq(bs, 1, n - 1)

\* Fields of known size, one after the other: size, offset and value of each.
Size(f) == IF f.kind = "fixed" THEN f.n ELSE 1

Offsets(layout) ==
    LET sum[i \in 0 .. Len(layout)] == IF i = 0 THEN 0 ELSE sum[i - 1] + Size(layout[i]) IN sum

UnmarshalFixed(layout, offsets, data) ==
    [i \in DOMAIN layout |->
        LET bytes == SubSeq(data, offsets[i - 1] + 1, offsets[i])
        IN IF layout[i].kind = "fixed" THEN TrimRight(bytes) ELSE bytes]

\* Optional parameters until the data ends or no longer holds a whole one.
UnmarshalParams(data) ==
    LET from[k \in 0 .. Len(data)] ==
            LET length == FromUint(SubSeq(data, k + 3, k + 4)) IN
            IF Len(data) < k + 4 THEN <<>>
            ELSE IF Len(data) < k + 4 + length THEN <<>>
            ELSE <<[tag |-> FromUint(SubSeq(data, k + 1, k + 2)), length |-> length,
                    value |-> SubSeq(data, k + 5, k + 4 + length)]>> \o from[k + 4 + length]
    IN from[0]

Error == [ok |-> FALSE]
Ok(body) == [ok |-> TRUE, body |-> body]

BindOffsets == Offsets(BindRequest)

UnmarshalBind(data) ==
    IF Len(data) < BindOffsets[Len(BindRequest)] THEN Error
    ELSE Ok(UnmarshalFixed(BindRequest, BindOffsets, data))

\* Of the nine bytes that minLength adds for single octets there are only eight.
minLength == MaxServiceTypeLength + 2 + MaxAddressLength + 2 + MaxAddressLength + 9
             + TimeLength + TimeLength

FixedFields == SubSeq(SubmitSM, 1, Len(SubmitSM) - 2)
FixedOffsets == Offsets(FixedFields)

UnmarshalShortMessage(data) ==
    LET offset == FixedOffsets[Len(FixedFields)] + 1
        smLength == data[offset] IN
    IF Len(data) < minLength THEN Error
    ELSE IF Len(data) < offset + smLength THEN Error
    ELSE Ok(UnmarshalFixed(FixedFields, FixedOffsets, data)
            \o <<[length |-> smLength, data |-> SubSeq(data, offset + 1, offset + smLength)],
                 UnmarshalParams(SubSeq(data, offset + smLength + 1, Len(data)))>>)

\* The commands for which the decoder has a body.
createPDUBody ==
    Binds \cup BindResponses
    \cup {"submit_sm", "submit_sm_resp", "deliver_sm", "deliver_sm_resp",
          "enquire_link", "enquire_link_resp", "unbind", "unbind_resp"}

\* An empty body is not unmarshalled: the fields keep their zero values.
Zero(c) ==
    [i \in DOMAIN Layout(c) |->
        CASE Layout(c)[i].kind = "octet" -> <<0>>
          [] Layout(c)[i].kind = "short_message" -> [length |-> 0, data |-> <<>>]
          [] OTHER -> <<>>]

Unmarshal(c, data) ==
    CASE data = <<>> -> Ok(Zero(c))
      [] c \in Binds -> UnmarshalBind(data)
      [] c \in {"submit_sm", "deliver_sm"} -> UnmarshalShortMessage(data)
      [] Layout(c) = <<cstring>> -> Ok(<<UntilNul(data)>>)
      [] OTHER -> Ok(<<>>)

\* Decode of one frame whose length has been checked. The result is a PDU or Error.
Decode(head, data) ==
    LET named == {c \in createPDUBody : Number(c) = FromUint(SubSeq(head, 5, 8))} IN
    IF named = {} THEN Error
    ELSE LET c == CHOOSE x \in named : TRUE
             result == Unmarshal(c, data) IN
         IF ~result.ok THEN Error
         ELSE Ok([command |-> c, status |-> FromUint(SubSeq(head, 9, 12)),
                  seq |-> FromUint(SubSeq(head, 13, 16)), body |-> result.body])

-----------------------------------------------------------------------------
(* The builder *)

getNextSequence(n) == IF (n + 1) % WordSize = 0 THEN 1 ELSE (n + 1) % WordSize

pdu(c, status, seq, body) == [command |-> c, status |-> status, seq |-> seq, body |-> body]

StatusOK == 0
StatusSysErr == 8

BuildBind(c, systemID, password, systemType, seq) ==
    pdu(c, StatusOK, seq, <<systemID, password, systemType, <<3>>, <<0>>, <<0>>, <<>> >>)

\* The octets are esm_class, registered_delivery and six that differ in neither PDU.
SmBody(esm, source, dest, registered, length, data, params) ==
    << <<>>, <<1>>, <<1>>, source, <<1>>, <<1>>, dest, <<esm>>, <<0>>, <<0>>, <<>>, <<>>,
       <<registered>>, <<0>>, <<0>>, <<0>>,
       [length |-> length, data |-> data], params>>

\* Fault: one byte more is still sent as a short message.
BuildSubmitSMLate(source, dest, message, seq) ==
    pdu("submit_sm", StatusOK, seq,
        IF Len(message) > ByteSize
        THEN SmBody(0, source, dest, 1, 0, <<>>,
                    <<[tag |-> TagMessagePayload, length |-> Len(message), value |-> message]>>)
        ELSE SmBody(0, source, dest, 1, Len(message) % ByteSize, message, <<>>))

\* What does not fit into a short message goes into the message_payload parameter.
BuildSubmitSM(source, dest, message, seq) ==
    pdu("submit_sm", StatusOK, seq,
        IF Len(message) > ByteSize - 1
        THEN SmBody(0, source, dest, 1, 0, <<>>,
                    <<[tag |-> TagMessagePayload, length |-> Len(message) % (ByteSize * ByteSize),
                       value |-> message]>>)
        ELSE SmBody(0, source, dest, 1, Len(message), message, <<>>))

\* deliver_sm has no such choice: the length octet is the message's length modulo the byte. The
\* report sender, which is its only user, marks it as a receipt.
BuildDeliverSM(source, dest, message, seq) ==
    pdu("deliver_sm", StatusOK, seq,
        SmBody(4, source, dest, 0, Len(message) % ByteSize, message, <<>>))

BuildEmpty(c, status, seq) == pdu(c, status, seq, <<>>)

\* Requests take the builder's next sequence number; the handlers give answers theirs.
ClientRequests(seq) ==
    {BuildBind(c, i, p, t, seq) : c \in Binds, i \in Names, p \in Names, t \in Names}
    \cup {BuildSubmitSM(s, d, m, seq) : s \in Names, d \in Names, m \in Messages}
    \cup {BuildEmpty(c, StatusOK, seq) : c \in {"unbind", "enquire_link"}}

\* Delivery receipts, the only deliver_sm the server sends, have no destination address.
ServerRequests(seq) == {BuildDeliverSM(s, <<>>, m, seq) : s \in Names, m \in Messages}

ClientAnswers(seq) ==
    {pdu("deliver_sm_resp", StatusOK, seq, << <<>> >>), BuildEmpty("enquire_link_resp", StatusOK, seq)}

\* Answers to bind and submit_sm: a refusal names nobody.
BindAnswers(seq) ==
    {pdu(c, StatusOK, seq, <<n>>) : c \in BindResponses \cup {"submit_sm_resp"}, n \in Names}
    \cup {pdu(c, StatusSysErr, seq, << <<>> >>) : c \in BindResponses \cup {"submit_sm_resp"}}

\* Answers to the other operations, which carry a message ID and zeros, or nothing.
OperationAnswers(seq) ==
    {pdu("query_sm_resp", StatusOK, seq, <<n, <<>>, <<0>>, <<0>> >>) : n \in Names}
    \cup {pdu("submit_multi_resp", StatusOK, seq, <<n, <<0>> >>) : n \in Names}
    \cup {pdu("data_sm_resp", StatusOK, seq, <<n, <<>> >>) : n \in Names}
    \cup {BuildEmpty(c, StatusOK, seq) : c \in {"replace_sm_resp", "cancel_sm_resp"}}

LinkAnswers(seq) ==
    {BuildEmpty(c, StatusOK, seq) : c \in {"enquire_link_resp", "unbind_resp"}}
    \cup {BuildEmpty("generic_nack", StatusSysErr, seq)}

Asking(seq) == IF sender = "client" THEN ClientRequests(seq) ELSE ServerRequests(seq)

Answering(seq) ==
    IF sender = "client" THEN ClientAnswers(seq)
    ELSE BindAnswers(seq) \cup OperationAnswers(seq) \cup LinkAnswers(seq)

-----------------------------------------------------------------------------
(* The two ends *)

Init ==
    /\ sender \in {"client", "server"}
    /\ sequenceNum \in StartSeqs
    /\ active = TRUE
    /\ out = <<>> /\ wire = <<>> /\ cut = FALSE
    /\ header = <<>> /\ in = <<>> /\ failed = FALSE

\* Fault: the server goes on using the connection.
WriteRegardless(p) ==
    LET bytes == Encode(p) IN
    /\ \E n \in {Len(bytes)} \cup {k \in Breaks : k < Len(bytes)} :
        /\ out' = Append(out, [built |-> p.command, whole |-> n = Len(bytes),
                               pdu |-> [p EXCEPT !.command = CommandID(p.command)]])
        /\ wire' = wire \o SubSeq(bytes, 1, n)
    /\ UNCHANGED <<sender, active, cut, header, in, failed>>

\* Encode and write: the encoder stores the body's command in the header, and the write deadline may
\* cut the write short. Only the server then stops using the connection.
Write(p) ==
    LET bytes == Encode(p) IN
    /\ \E n \in {Len(bytes)} \cup {k \in Breaks : k < Len(bytes)} :
        /\ out' = Append(out, [built |-> p.command, whole |-> n = Len(bytes),
                               pdu |-> [p EXCEPT !.command = CommandID(p.command)]])
        /\ wire' = wire \o SubSeq(bytes, 1, n)
        /\ active' = (sender = "server" => n = Len(bytes))
    /\ UNCHANGED <<sender, cut, header, in, failed>>

MaySend == Len(out) < MaxPdus /\ ~cut /\ active

SendRequest ==
    /\ MaySend
    /\ \E p \in Asking(sequenceNum) : Write(p)
    /\ sequenceNum' = getNextSequence(sequenceNum)

SendAnswer ==
    /\ MaySend
    /\ \E seq \in AnswerSeqs : \E p \in Answering(seq) : Write(p)
    /\ UNCHANGED sequenceNum

\* External: the connection ends, or the read deadline passes, with n bytes left to be read.
Cut ==
    /\ ~cut /\ ~failed
    /\ cut' = TRUE
    /\ \E n \in Breaks \cup {0, Len(wire)} : n <= Len(wire) /\ wire' = SubSeq(wire, 1, n)
    /\ UNCHANGED <<sender, sequenceNum, active, out, header, in, failed>>

CommandLength(head) == FromUint(SubSeq(head, 1, 4))

\* What DecodeFromReader waits for: the header, then the rest of the frame.
Wanted == IF header = <<>> THEN HeaderLength ELSE CommandLength(header) - HeaderLength

ReadHeader ==
    /\ ~failed /\ header = <<>> /\ Len(wire) >= Wanted
    /\ LET head == SubSeq(wire, 1, HeaderLength) IN
       IF CommandLength(head) < HeaderLength
       THEN failed' = TRUE /\ UNCHANGED header
       ELSE header' = head /\ UNCHANGED failed
    /\ wire' = SubSeq(wire, HeaderLength + 1, Len(wire))
    /\ UNCHANGED <<sender, sequenceNum, active, out, cut, in>>

ReadBody ==
    /\ ~failed /\ header # <<>> /\ Len(wire) >= Wanted
    /\ LET result == Decode(header, SubSeq(wire, 1, Wanted)) IN
       IF result.ok
       THEN in' = Append(in, result.body) /\ UNCHANGED failed
       ELSE failed' = TRUE /\ UNCHANGED in
    /\ wire' = SubSeq(wire, Wanted + 1, Len(wire))
    /\ header' = <<>>
    /\ UNCHANGED <<sender, sequenceNum, active, out, cut>>

\* io.ReadFull meets the end of the stream; what it has read of the frame is gone.
ReadFails ==
    /\ ~failed /\ cut /\ Len(wire) < Wanted
    /\ failed' = TRUE /\ wire' = <<>>
    /\ UNCHANGED <<sender, sequenceNum, active, out, cut, header, in>>

Next ==
    \/ SendRequest \/ SendAnswer
    \/ Cut
    \/ ReadHeader \/ ReadBody \/ ReadFails

Spec == Init /\ [][Next]_vars

-----------------------------------------------------------------------------
(* Properties *)

\* How many PDUs were written whole before the first that was not.
Whole ==
    LET torn == SelectInSeq(out, LAMBDA o : ~o.whole) IN IF torn = 0 THEN Len(out) ELSE torn - 1

\* Strings that fit their fields, and content that fits what it is put into: a deliver_sm has only
\* the short message, a submit_sm the message_payload parameter too.
Fits(p) ==
    /\ \A i \in DOMAIN p.body :
           Layout(p.command)[i].kind = "fixed" => Len(p.body[i]) <= Layout(p.command)[i].n
    /\ p.command = "deliver_sm" => Len(p.body[17].data) < ByteSize
    /\ p.command = "submit_sm" =>
           \A i \in DOMAIN p.body[18] : Len(p.body[18][i].value) < ByteSize * ByteSize

\* Frames stay in step: as long as writes are whole, the i-th PDU that is read is the i-th that was
\* encoded, its header always and its body unless a value did not fit its field. A message that
\* is too long for one octet of length arrives all the same, as message_payload (BuildSubmitSM).
\* Only binds and their responses do not arrive as the command they were built as (Encode).
FramesInStep ==
    \A i \in DOMAIN in : i <= Whole =>
        /\ in[i].command = out[i].pdu.command
        /\ in[i].command = out[i].built \/ out[i].built \in Binds \cup BindResponses
        /\ in[i].status = out[i].pdu.status
        /\ in[i].seq = out[i].pdu.seq
        /\ Fits(out[i].pdu) => in[i].body = out[i].pdu.body

\* Whatever is lost, and wherever a write is cut short, the client never makes a PDU of a frame the
\* server did not write whole, because Send refuses the connection after its first failing write.
NoPduFromTornFrame == sender = "server" => Len(in) <= Whole

\* The decoder knows the command and the body is as long as it wants: not so for answers to the
\* operations createPDUBody leaves out, generic_nack, and messages without any content.
Decodable(p) ==
    /\ p.command \in createPDUBody
    /\ p.command \in {"submit_sm", "deliver_sm"} => p.body[17].data # <<>> \/ p.body[18] # <<>>

\* A reader gives up a connection only when it ended, when a write was cut short, or at a PDU that
\* cannot be decoded by itself: never because of what an earlier PDU left in the stream.
ReaderFailsForCause ==
    failed => \/ cut
              \/ Whole < Len(out)
              \/ Len(in) < Len(out) /\ ~Decodable(out[Len(in) + 1].pdu)

=============================================================================
