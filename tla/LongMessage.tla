----------------------------- MODULE LongMessage -----------------------------
(***************************************************************************)
(* Long messages of SMSProcessor (message_handler.go) over TextEncoder     *)
(* (pkg/encoding/text.go): ProcessLongSMS splits a text, encodes each part *)
(* and puts a concatenation header before it; ConcatenateSMSParts puts     *)
(* received parts together. Between the two, parts are lost, repeated and  *)
(* reordered, and parts of several messages mix.                           *)
(*                                                                         *)
(* A character stands for its class: one of the GSM alphabet, one that     *)
(* needs an escape, the escape itself, one of ASCII that GSM lacks, one    *)
(* beyond both and one beyond the 16 bits of UCS2. Encoded text is a       *)
(* sequence of code units.                                                 *)
(***************************************************************************)
EXTENDS Integers, Sequences, SequencesExt, FiniteSets

CONSTANTS
    MessageIDs,  \* messages that may be sent, each once
    LongTexts,   \* texts they may have
    References,  \* values of generateReferenceNumber
    MaxSingle,   \* GetMaxLength without header
    MaxMulti,    \* GetMaxLength with header
    MaxParts,    \* the limit on the number of parts, 255 in the code
    MaxDraft,    \* bound: length of the texts over all characters
    MaxInbox     \* bound: parts received

\* 'a' and 'e', '?', ' ', the euro sign (ESC e), the escape, the backquote, a Chinese
\* character, an emoji.
Characters == {"a", "e", "?", "space", "euro", "esc", "quote", "han", "emoji"}

ASSUME LongAssumption ==
    /\ MaxMulti \in Nat \ {0} /\ MaxSingle \in Nat /\ MaxMulti <= MaxSingle
    /\ MaxParts \in Nat \ {0} /\ MaxDraft \in Nat /\ MaxInbox \in Nat
    /\ LongTexts \subseteq Seq(Characters)

VARIABLES
    draft,     \* a text of any characters
    outgoing,  \* per message: its text, coding and reference, or NotSent
    inbox      \* the parts received, in the order of arrival

longVars == <<draft, outgoing, inbox>>

Codings == {"gsm", "ucs2", "binary"}

-----------------------------------------------------------------------------
(* TextEncoder *)

Gsm == {"a", "e", "?", "space", "esc"}
Ascii == {"a", "e", "?", "space", "esc", "quote"}

\* EncodeGSM7Bit of a character: a code, two with the escape, or the one of '?'.
GsmUnits(c) == IF c \in Gsm THEN <<c>> ELSE IF c = "euro" THEN <<"esc", "e">> ELSE <<"?">>

\* Fault (for RoundTrip): the code point is cut to 16 bits.
Ucs2UnitsCut(c) == IF c = "emoji" THEN <<"low">> ELSE <<c>>

\* EncodeUCS2 of a character: one unit, or a surrogate pair.
Ucs2Units(c) == IF c = "emoji" THEN <<"high", "low">> ELSE <<c>>

\* Encode; binary keeps the bytes of the character.
EncodeText(text, coding) ==
    FlattenSeq([i \in DOMAIN text |->
        CASE coding = "gsm" -> GsmUnits(text[i])
          [] coding = "ucs2" -> Ucs2Units(text[i])
          [] coding = "binary" -> <<text[i]>>])

\* DecodeGSM7Bit: an escape takes the next unit with it, unless it is the last.
DecodeGSM(units) ==
    LET from[i \in 1..Len(units) + 2] ==
          IF i > Len(units) THEN <<>>
          ELSE IF units[i] = "esc" /\ i < Len(units)
          THEN <<IF units[i + 1] = "e" THEN "euro" ELSE "space">> \o from[i + 2]
          ELSE <<units[i]>> \o from[i + 1]
    IN from[1]

\* DecodeUCS2: utf16.Decode pairs surrogates; a lone one becomes the replacement character.
DecodeUCS2(units) ==
    LET from[i \in 1..Len(units) + 2] ==
          IF i > Len(units) THEN <<>>
          ELSE IF units[i] = "high" /\ i < Len(units) /\ units[i + 1] = "low"
          THEN <<"emoji">> \o from[i + 2]
          ELSE <<IF units[i] \in {"high", "low"} THEN "replaced" ELSE units[i]>> \o from[i + 1]
    IN from[1]

DecodeText(units, coding) ==
    CASE coding = "gsm" -> DecodeGSM(units)
      [] coding = "ucs2" -> DecodeUCS2(units)
      [] coding = "binary" -> units

\* Fault (for PartsAsEstimated): the part that fits exactly is cut off as well.
SplitRunesLate(text) ==
    [i \in 1..Len(text) \div MaxMulti + 1 |->
        SubSeq(text, (i - 1) * MaxMulti + 1, IF i * MaxMulti < Len(text) THEN i * MaxMulti ELSE Len(text))]

\* SplitMessage: MaxMulti characters at a time.
SplitMessage(text) ==
    [i \in 1..(Len(text) + MaxMulti - 1) \div MaxMulti |->
        SubSeq(text, (i - 1) * MaxMulti + 1, IF i * MaxMulti < Len(text) THEN i * MaxMulti ELSE Len(text))]

\* EstimatePartCount.
EstimatePartCount(text) ==
    IF Len(text) <= MaxSingle THEN 1 ELSE (Len(text) + MaxMulti - 1) \div MaxMulti

\* DetectOptimalEncoding.
DetectOptimalEncoding(text) ==
    IF ToSet(text) \subseteq Gsm \cup {"euro"} THEN "gsm"
    ELSE IF ToSet(text) \subseteq Ascii THEN "binary"
    ELSE "ucs2"

-----------------------------------------------------------------------------
(* SMSProcessor *)

\* A part as it is sent. A short message is one part without header: total is 0.
WholePart(text, coding) ==
    [ref |-> 0, total |-> 0, num |-> 0, coding |-> coding, units |-> EncodeText(text, coding)]

\* ProcessLongSMS: the message itself, or its parts with createMultipartUDH; none if there
\* would be too many.
ProcessLongSMS(text, coding, ref) ==
    LET cut == SplitMessage(text) IN
    IF Len(text) <= MaxSingle THEN {WholePart(text, coding)}
    ELSE IF Len(cut) > MaxParts THEN {}
    ELSE {[ref |-> ref, total |-> Len(cut), num |-> i, coding |-> coding,
           units |-> EncodeText(cut[i], coding)] : i \in DOMAIN cut}

Refused == <<"refused">>

\* Fault (for NoPatchwork): the reference is not compared.
ConcatenateAnyRef(parts) ==
    LET total == parts[1].total IN
    IF \/ total = 0
       \/ \E i \in DOMAIN parts : parts[i].total # total
       \/ Len(parts) # total \/ {parts[i].num : i \in DOMAIN parts} # 1..total
    THEN Refused
    ELSE FlattenSeq([n \in 1..total |->
            LET p == CHOOSE i \in DOMAIN parts : parts[i].num = n IN
            DecodeText(parts[p].units, parts[p].coding)])

\* ConcatenateSMSParts for two or more parts: each needs a header, all the same reference and
\* total, and sorted by number they must be 1, 2, ... total. (A single part is returned as it
\* is, whatever its header says.)
ConcatenateSMSParts(parts) ==
    LET total == parts[1].total IN
    IF \/ total = 0
       \/ \E i \in DOMAIN parts : parts[i].total # total \/ parts[i].ref # parts[1].ref
       \/ Len(parts) # total \/ {parts[i].num : i \in DOMAIN parts} # 1..total
    THEN Refused
    ELSE FlattenSeq([n \in 1..total |->
            LET p == CHOOSE i \in DOMAIN parts : parts[i].num = n IN
            DecodeText(parts[p].units, parts[p].coding)])

-----------------------------------------------------------------------------
NotSent == [text |-> <<>>, coding |-> "gsm", ref |-> 0]

LongInit ==
    /\ draft = <<>>
    /\ outgoing = [m \in MessageIDs |-> NotSent]
    /\ inbox = <<>>

\* Any text comes about.
Type(c) == Len(draft) < MaxDraft /\ draft' = Append(draft, c) /\ UNCHANGED <<outgoing, inbox>>

PartsOf(m) == ProcessLongSMS(outgoing[m].text, outgoing[m].coding, outgoing[m].ref)

\* A message is sent; its reference is a hash of its ID and may be that of another.
Send(m, text, coding, ref) ==
    /\ draft = <<>> /\ outgoing[m] = NotSent
    /\ outgoing' = [outgoing EXCEPT ![m] = [text |-> text, coding |-> coding, ref |-> ref]]
    /\ UNCHANGED <<draft, inbox>>

\* A part arrives, once more or for the first time, before or after any other, or never.
Arrive(m, p) ==
    /\ Len(inbox) < MaxInbox
    /\ inbox' = Append(inbox, p)
    /\ UNCHANGED <<draft, outgoing>>

LongNext ==
    \/ /\ outgoing = [m \in MessageIDs |-> NotSent]
       /\ \E c \in Characters : Type(c)
    \/ \E m \in MessageIDs :
         \/ \E text \in LongTexts, coding \in {"gsm", "ucs2"}, ref \in References :
              Send(m, text, coding, ref)
         \/ outgoing[m] # NotSent /\ \E p \in PartsOf(m) : Arrive(m, p)

LongSpec == LongInit /\ [][LongNext]_longVars

-----------------------------------------------------------------------------
(* Properties *)

\* What of a text gets through a coding: GSM replaces what it does not have by '?'.
Legible(text, coding) ==
    IF coding = "gsm" THEN [i \in DOMAIN text |-> IF text[i] \in Gsm \cup {"euro"} THEN text[i] ELSE "?"]
    ELSE text

\* In GSM an escape takes the next character with it.
Escaped(text, coding) == coding = "gsm" /\ Contains(text, "esc")

\* Decoding what was encoded gives the text back in every coding, but for what GSM does not have
\* and for GSM texts with an escape in them; the coding that DetectOptimalEncoding chooses has
\* every character (Encode, Decode).
RoundTrip ==
    /\ \A coding \in Codings : ~Escaped(draft, coding) =>
          DecodeText(EncodeText(draft, coding), coding) = Legible(draft, coding)
    /\ Legible(draft, DetectOptimalEncoding(draft)) = draft

\* EstimatePartCount is the number of parts ProcessLongSMS makes, at every length around the
\* limits, unless they are too many; all parts but the last are full (SplitMessage).
PartsAsEstimated ==
    \A text \in {draft} \cup {outgoing[m].text : m \in MessageIDs} :
        LET parts == ProcessLongSMS(text, "ucs2", 1)
            count == EstimatePartCount(text) IN
        /\ Cardinality(parts) = IF count > MaxParts THEN 0 ELSE count
        /\ \A p \in parts : Len(DecodeText(p.units, "ucs2")) = MaxMulti \/ p.num = p.total

\* The inbox is exactly the parts of message m, each once, in any order.
Complete(m) ==
    /\ Len(inbox) = Cardinality(PartsOf(m)) /\ ToSet(inbox) = PartsOf(m)

\* However the parts of a long message are reordered on the way, the receiver puts the text of
\* the sender together, and it refuses lost, repeated and mixed parts, unless two messages with the
\* same reference number are under way (ProcessLongSMS, ConcatenateSMSParts).
NoPatchwork ==
    Len(inbox) > 1 =>
        /\ \A m \in MessageIDs :
             Complete(m) /\ ~Escaped(outgoing[m].text, outgoing[m].coding) =>
                 ConcatenateSMSParts(inbox) = Legible(outgoing[m].text, outgoing[m].coding)
        /\ \/ ConcatenateSMSParts(inbox) = Refused
           \/ \E m \in MessageIDs : outgoing[m] # NotSent /\ Complete(m)
           \/ \E m, n \in MessageIDs : m # n /\ outgoing[m] # NotSent /\ outgoing[m].ref = outgoing[n].ref

-----------------------------------------------------------------------------
(* The inductive invariant behind NoPatchwork and PartsAsEstimated *)

Messages == [text : LongTexts, coding : {"gsm", "ucs2"}, ref : References]

LongTypeOK ==
    /\ draft \in Seq(Characters)
    /\ outgoing \in [MessageIDs -> Messages \cup {NotSent}]
    /\ inbox \in Seq(UNION {ProcessLongSMS(o.text, o.coding, o.ref) : o \in Messages})

\* Only parts of messages that were sent arrive, and a message stays what it was.
InboxSent ==
    \A i \in 1..Len(inbox) : \E m \in MessageIDs : outgoing[m] # NotSent /\ inbox[i] \in PartsOf(m)

LongInv == LongTypeOK /\ InboxSent

=============================================================================
