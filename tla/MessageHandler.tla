---------------------------- MODULE MessageHandler ----------------------------
(***************************************************************************)
(* The message handler of pkg/smpp/message_handler.go with the stores it   *)
(* works on: the SMS and report stores of internal/storage/memory.go and   *)
(* the bounded delivery queue of pkg/smpp/message_routing.go.              *)
(*                                                                         *)
(* Processes: the session goroutines that call the Handle... operations    *)
(* (Callers), one ProcessMessage goroutine per stored message, and the     *)
(* gateway that empties the queue (no code of the repository does).        *)
(* Each store has a lock of its own, held for one call: an operation that  *)
(* makes several calls is several steps.                                   *)
(***************************************************************************)
EXTENDS Integers, Sequences, FiniteSets

CONSTANTS
    Msgs,          \* the message IDs generateMessageID hands out
    Callers,       \* goroutines calling the handler
    MaxParts,      \* bound: parts a long message is split into
    Capacity,      \* capacity of InMemoryMessageQueue.messages
    WithQueue,     \* whether a MessageQueue was given to NewMessageHandler
    GatewayStats   \* the receipt statuses the gateway sends

ASSUME PartsAssumption == MaxParts \in Nat \ {0} /\ Capacity \in Nat
ASSUME ModeAssumption == WithQueue \in BOOLEAN

VARIABLES
    sms,         \* InMemorySMSStorage.messages: the Status of each stored message, or "absent"
    reports,     \* InMemoryReportStorage.reports: the receipt status of each ID, or "none"
    queue,       \* InMemoryMessageQueue.messages
    qstatus,     \* InMemoryMessageQueue.status, "none" where the map has no entry
    pc,          \* where the processing of each message is
    nparts,      \* parts SplitMessage makes of it (1: sent as it is)
    part,        \* the part its ProcessMessage goroutine is at
    registered,  \* RegisteredDelivery & 0x01 of the message ProcessMessage holds
    announced,   \* IDs whose DeliveryEvent, with the session ID, was published
    sent,        \* history: IDs handed to the gateway side (queue, or direct delivery)
    step,        \* where each caller is in an operation that makes several store calls
    subject,     \* the IDs that operation is about
    copy,        \* the status in the copy GetSMS returned, or the one a receipt maps to
    answer       \* MessageState of the latest query_sm_resp

stores == <<sms, reports>>
queueVars == <<queue, qstatus>>
work == <<pc, nparts, part, registered, announced, sent>>
calls == <<step, subject, copy>>
vars == <<stores, queueVars, work, calls, answer>>

-----------------------------------------------------------------------------
(* Vocabulary *)

Statuses == {"Submitted", "Enroute", "Delivered", "Expired", "Deleted", "Undeliverable",
             "Accepted", "Unknown", "Rejected", "Split"}

\* <<m, 0>> is the ID of the message, <<m, i>> that of the i-th part of a split one ("%s_%d").
Ids == Msgs \X (0 .. MaxParts)
Id(m) == <<m, 0>>

\* SplitMessage: a message that fits in one SMS is its own only part.
PartId(m, i) == IF nparts[m] = 1 THEN Id(m) ELSE <<m, i>>
PartIds(m) == {PartId(m, i) : i \in 1 .. nparts[m]}

\* The first n parts of m have left the handler.
HandedOn(m, n) == \A i \in 1 .. n : PartId(m, i) \in sent

\* mapReceiptStatusToMessageStatus
mapReceiptStatus ==
    [DELIVRD |-> "Delivered", EXPIRED |-> "Expired", DELETED |-> "Deleted",
     UNDELIV |-> "Undeliverable", ACCEPTD |-> "Accepted", REJECTD |-> "Rejected",
     UNKNOWN |-> "Unknown"]
ReceiptStats == DOMAIN mapReceiptStatus

\* mapMessageStatusToReceiptStatus, for the statuses it names
mapMessageStatus ==
    [s \in {"Delivered", "Expired", "Deleted", "Undeliverable", "Accepted", "Rejected"} |->
        CHOOSE r \in ReceiptStats : mapReceiptStatus[r] = s]

\* The MessageState HandleQuerySM answers for each report status; 1 without a report.
queryState ==
    [none |-> 1, DELIVRD |-> 3, EXPIRED |-> 2, DELETED |-> 4, UNDELIV |-> 5, ACCEPTD |-> 1,
     REJECTD |-> 6, UNKNOWN |-> 7]

\* HandleCancelSM and HandleReplaceSM go on with these report statuses.
Changeable == {"none", "ACCEPTD", "ENROUTE"}

\* IDs the gateway has taken off the queue.
Dequeued == {id \in sent : \A k \in 1 .. Len(queue) : queue[k] # id}

Places == {"new", "pending", "refused", "incoming", "enqueue", "mark", "status", "store",
           "announce", "done", "failed"}
Steps == {"idle", "multi", "query", "replace", "cancel", "update", "delete", "receipt"}

ASSUME GatewayAssumption == GatewayStats \subseteq ReceiptStats

-----------------------------------------------------------------------------
Init ==
    /\ sms = [m \in Msgs |-> "absent"]
    /\ reports = [id \in Ids |-> "none"]
    /\ queue = <<>>
    /\ qstatus = [id \in Ids |-> "none"]
    /\ pc = [m \in Msgs |-> "new"]
    /\ nparts = [m \in Msgs |-> 1]
    /\ part = [m \in Msgs |-> 1]
    /\ registered = [m \in Msgs |-> FALSE]
    /\ announced = {} /\ sent = {}
    /\ step = [c \in Callers |-> "idle"]
    /\ subject = [c \in Callers |-> {}]
    /\ copy = [c \in Callers |-> "Unknown"]
    /\ answer = 0

-----------------------------------------------------------------------------
(* The SMS store *)

StoreSMS(m, s) == sms' = [sms EXCEPT ![m] = s]

\* GetSMS and the writes below fail on a message that is not there.
Stored(m) == sms[m] # "absent"

UpdateSMSStatus(m, s) == Stored(m) /\ sms' = [sms EXCEPT ![m] = s]

-----------------------------------------------------------------------------
(* Submission *)

\* A valid message is stored and a ProcessMessage goroutine is spawned for it. An invalid one
\* (no content, undecodable, refused by ValidateMessage) changes nothing.
Submit(m) ==
    /\ pc[m] = "new"
    /\ \E n \in 1 .. MaxParts, r \in BOOLEAN :
          /\ nparts' = [nparts EXCEPT ![m] = n]
          /\ registered' = [registered EXCEPT ![m] = r]
    /\ StoreSMS(m, "Submitted")
    /\ pc' = [pc EXCEPT ![m] = "enqueue"]
    /\ UNCHANGED <<reports, queueVars, part, announced, sent, calls, answer>>

HandleSubmitSM(m) == Submit(m)
HandleDataSM(m) == Submit(m)

\* HandleSubmitMulti, up to its loop: one message per destination, all of the same text.
SubmitMultiBegins(c) ==
    /\ step[c] = "idle"
    /\ \E S \in SUBSET {m \in Msgs : pc[m] = "new"}, n \in 1 .. MaxParts, r \in BOOLEAN :
          /\ S # {}
          /\ nparts' = [m \in Msgs |-> IF m \in S THEN n ELSE nparts[m]]
          /\ registered' = [m \in Msgs |-> IF m \in S THEN r ELSE registered[m]]
          /\ pc' = [m \in Msgs |-> IF m \in S THEN "pending" ELSE pc[m]]
          /\ subject' = [subject EXCEPT ![c] = {Id(m) : m \in S}]
    /\ step' = [step EXCEPT ![c] = "multi"]
    /\ UNCHANGED <<stores, queueVars, part, announced, sent, copy, answer>>

\* One iteration of its loop: the destination is stored and processed, or is refused (a
\* distribution list, a bad flag, ValidateMessage) and listed in the response.
SubmitMultiNext(c, m) ==
    /\ step[c] = "multi" /\ Id(m) \in subject[c]
    /\ \/ /\ pc' = [pc EXCEPT ![m] = "enqueue"]
          /\ StoreSMS(m, "Submitted")
       \/ /\ pc' = [pc EXCEPT ![m] = "refused"]
          /\ UNCHANGED sms
    /\ subject' = [subject EXCEPT ![c] = @ \ {Id(m)}]
    /\ step' = [step EXCEPT ![c] = IF subject[c] = {Id(m)} THEN "idle" ELSE "multi"]
    /\ UNCHANGED <<reports, queueVars, nparts, part, registered, announced, sent, copy, answer>>

\* handleSMSDelivery: an incoming message is stored as delivered; nothing processes it.
HandleSMSDelivery(m) ==
    /\ pc[m] = "new"
    /\ pc' = [pc EXCEPT ![m] = "incoming"]
    /\ StoreSMS(m, "Delivered")
    /\ UNCHANGED <<reports, queueVars, nparts, part, registered, announced, sent, calls, answer>>

-----------------------------------------------------------------------------
(* ProcessMessage *)

\* After part i is enqueued: the next part, or the status update.
NextPart(m) ==
    IF part[m] < nparts[m]
    THEN pc' = [pc EXCEPT ![m] = "enqueue"] /\ part' = [part EXCEPT ![m] = @ + 1]
    ELSE pc' = [pc EXCEPT ![m] = "status"] /\ part' = [part EXCEPT ![m] = 1]

\* Fault (for ProcessingEnds): the send blocks while the queue is full.
EnqueueBlocks(m) ==
    /\ WithQueue /\ pc[m] = "enqueue" /\ Len(queue) < Capacity
    /\ queue' = Append(queue, PartId(m, part[m]))
    /\ sent' = sent \cup {PartId(m, part[m])}
    /\ pc' = [pc EXCEPT ![m] = "mark"]
    /\ UNCHANGED <<stores, qstatus, nparts, part, registered, announced, calls, answer>>

\* Fault (for AcceptedMeansQueued): a full queue is logged and the loop goes on.
EnqueueSkips(m) ==
    \/ EnqueueBlocks(m)
    \/ /\ WithQueue /\ pc[m] = "enqueue" /\ Len(queue) >= Capacity
       /\ NextPart(m)
       /\ UNCHANGED <<stores, queueVars, nparts, registered, announced, sent, calls, answer>>

\* EnqueueMessage, the channel send. It never blocks: a full queue ends ProcessMessage with an
\* error that is only logged (its context is never cancelled).
Enqueue(m) ==
    /\ WithQueue /\ pc[m] = "enqueue"
    /\ \/ /\ Len(queue) < Capacity
          /\ queue' = Append(queue, PartId(m, part[m]))
          /\ sent' = sent \cup {PartId(m, part[m])}
          /\ pc' = [pc EXCEPT ![m] = "mark"]
       \/ /\ Len(queue) >= Capacity
          /\ pc' = [pc EXCEPT ![m] = "failed"]
          /\ UNCHANGED <<queue, sent>>
    /\ UNCHANGED <<stores, qstatus, nparts, part, registered, announced, calls, answer>>

\* EnqueueMessage, after the send: the status map, under its own lock.
MarkEnroute(m) ==
    /\ pc[m] = "mark"
    /\ qstatus' = [qstatus EXCEPT ![PartId(m, part[m])] = "Enroute"]
    /\ NextPart(m)
    /\ UNCHANGED <<stores, queue, nparts, registered, announced, sent, calls, answer>>

\* Fault (for DoneMeansReported): a failing part does not end the loop.
DeliverDirectlySkips(m) ==
    /\ ~WithQueue /\ pc[m] = "enqueue"
    /\ NextPart(m)
    /\ IF nparts[m] = 1 /\ sms[m] # "absent"
       THEN sms' = [sms EXCEPT ![m] = "Delivered"] /\ sent' = sent \cup {Id(m)}
       ELSE UNCHANGED <<sms, sent>>
    /\ UNCHANGED <<reports, queueVars, nparts, registered, announced, calls, answer>>

\* enqueueMessage without a queue: "delivery" is a status update of the part's ID, which only
\* an unsplit, still stored message has.
DeliverDirectly(m) ==
    /\ ~WithQueue /\ pc[m] = "enqueue"
    /\ \/ /\ nparts[m] = 1 /\ UpdateSMSStatus(m, "Delivered")
          /\ sent' = sent \cup {Id(m)}
          /\ NextPart(m)
       \/ /\ nparts[m] > 1 \/ ~Stored(m)
          /\ pc' = [pc EXCEPT ![m] = "failed"]
          /\ UNCHANGED <<sms, sent, part>>
    /\ UNCHANGED <<reports, queueVars, nparts, registered, announced, calls, answer>>

\* Fault (for NoReceiptAfterCancel): a failed status update does not stop ProcessMessage.
UpdateStatusRegardless(m) ==
    /\ pc[m] = "status"
    /\ sms' = [sms EXCEPT ![m] = IF @ = "absent" THEN "absent"
                                 ELSE IF nparts[m] > 1 THEN "Split" ELSE "Accepted"]
    /\ pc' = [pc EXCEPT ![m] = IF registered[m] THEN "store" ELSE "done"]
    /\ UNCHANGED <<reports, queueVars, nparts, part, registered, announced, sent, calls, answer>>

\* Step 4 of ProcessMessage; a message cancelled meanwhile ends it.
UpdateStatus(m) ==
    /\ pc[m] = "status"
    /\ \/ /\ UpdateSMSStatus(m, IF nparts[m] > 1 THEN "Split" ELSE "Accepted")
          /\ pc' = [pc EXCEPT ![m] = IF registered[m] THEN "store" ELSE "done"]
       \/ /\ ~Stored(m)
          /\ pc' = [pc EXCEPT ![m] = "failed"]
          /\ UNCHANGED sms
    /\ UNCHANGED <<reports, queueVars, nparts, part, registered, announced, sent, calls, answer>>

\* Step 5, per part: GenerateDeliveryReport always says delivered; the report is stored...
StoreReport(m) ==
    /\ pc[m] = "store"
    /\ reports' = [reports EXCEPT ![PartId(m, part[m])] = mapMessageStatus["Delivered"]]
    /\ pc' = [pc EXCEPT ![m] = "announce"]
    /\ UNCHANGED <<sms, queueVars, nparts, part, registered, announced, sent, calls, answer>>

\* Fault (for DoneMeansReported): one report per message.
AnnounceOnce(m) ==
    /\ pc[m] = "announce"
    /\ announced' = announced \cup {PartId(m, part[m])}
    /\ pc' = [pc EXCEPT ![m] = "done"]
    /\ UNCHANGED <<stores, queueVars, nparts, part, registered, sent, calls, answer>>

\* ... and its event, carrying the submitter's session ID, is published.
Announce(m) ==
    /\ pc[m] = "announce"
    /\ announced' = announced \cup {PartId(m, part[m])}
    /\ IF part[m] < nparts[m]
       THEN pc' = [pc EXCEPT ![m] = "store"] /\ part' = [part EXCEPT ![m] = @ + 1]
       ELSE pc' = [pc EXCEPT ![m] = "done"] /\ UNCHANGED part
    /\ UNCHANGED <<stores, queueVars, nparts, registered, sent, calls, answer>>

ProcessMessage(m) ==
    Enqueue(m) \/ MarkEnroute(m) \/ DeliverDirectly(m) \/ UpdateStatus(m) \/ StoreReport(m)
    \/ Announce(m)

-----------------------------------------------------------------------------
(* query_sm, replace_sm, cancel_sm *)

Return(c) ==
    /\ step' = [step EXCEPT ![c] = "idle"]
    /\ subject' = [subject EXCEPT ![c] = {}]
    /\ copy' = [copy EXCEPT ![c] = "Unknown"]

\* GetSMS found the message; one that is not found ends the operation without effect (but a
\* query is answered 2).
Fetch(c, m, op) ==
    /\ step[c] = "idle" /\ Stored(m)
    /\ step' = [step EXCEPT ![c] = op]
    /\ subject' = [subject EXCEPT ![c] = {Id(m)}]
    /\ copy' = [copy EXCEPT ![c] = sms[m]]
    /\ UNCHANGED <<stores, queueVars, work, answer>>

HandleQuerySM(c, m) == Fetch(c, m, "query")
HandleReplaceSM(c, m) == Fetch(c, m, "replace")
HandleCancelSM(c, m) == Fetch(c, m, "cancel")

QueryUnknown(c, m) ==
    /\ step[c] = "idle" /\ ~Stored(m)
    /\ answer' = 2
    /\ UNCHANGED <<stores, queueVars, work, calls>>

\* HandleQuerySM, its second read.
AnswerQuery(c, m) ==
    /\ step[c] = "query" /\ subject[c] = {Id(m)}
    /\ answer' = queryState[reports[Id(m)]]
    /\ Return(c)
    /\ UNCHANGED <<stores, queueVars, work>>

\* HandleReplaceSM and HandleCancelSM, the check of the report.
CheckReport(c, m) ==
    /\ step[c] \in {"replace", "cancel"} /\ subject[c] = {Id(m)}
    /\ \/ /\ reports[Id(m)] \in Changeable
          /\ step' = [step EXCEPT ![c] = IF @ = "replace" THEN "update" ELSE "delete"]
          /\ UNCHANGED <<subject, copy>>
       \/ reports[Id(m)] \notin Changeable /\ Return(c)
    /\ UNCHANGED <<stores, queueVars, work, answer>>

\* Fault (for CancelIsFinal): the copy is stored whether or not the message still exists.
UpdateSMSUpserts(c, m) ==
    /\ step[c] = "update" /\ subject[c] = {Id(m)}
    /\ sms' = [sms EXCEPT ![m] = copy[c]]
    /\ Return(c)
    /\ UNCHANGED <<reports, queueVars, work, answer>>

\* HandleReplaceSM, the write: the copy, with the status it had when it was fetched, replaces
\* the stored message if there still is one.
UpdateSMS(c, m) ==
    /\ step[c] = "update" /\ subject[c] = {Id(m)}
    /\ sms' = [sms EXCEPT ![m] = IF @ = "absent" THEN "absent" ELSE copy[c]]
    /\ Return(c)
    /\ UNCHANGED <<reports, queueVars, work, answer>>

\* HandleCancelSM, the write.
DeleteSMS(c, m) ==
    /\ step[c] = "delete" /\ subject[c] = {Id(m)}
    /\ sms' = [sms EXCEPT ![m] = "absent"]
    /\ Return(c)
    /\ UNCHANGED <<reports, queueVars, work, answer>>

-----------------------------------------------------------------------------
(* The gateway and its receipts *)

\* DequeueMessage
DequeueMessage ==
    /\ queue # <<>>
    /\ queue' = Tail(queue)
    /\ UNCHANGED <<stores, qstatus, work, calls, answer>>

\* UpdateMessageStatus, called by the gateway for a message it has delivered.
UpdateMessageStatus(id) ==
    /\ WithQueue /\ id \in Dequeued
    /\ qstatus' = [qstatus EXCEPT ![id] = "Delivered"]
    /\ UNCHANGED <<stores, queue, work, calls, answer>>

\* handleDeliveryReceipt for an ID the gateway took, StoreReport. A receipt naming its ID only
\* in the text stores the report and stops there.
ReceiptStored(c, id, s) ==
    /\ step[c] = "idle" /\ id \in Dequeued
    /\ reports' = [reports EXCEPT ![id] = s]
    /\ \/ /\ step' = [step EXCEPT ![c] = "receipt"]
          /\ subject' = [subject EXCEPT ![c] = {id}]
          /\ copy' = [copy EXCEPT ![c] = mapReceiptStatus[s]]
       \/ UNCHANGED calls
    /\ UNCHANGED <<sms, queueVars, work, answer>>

\* handleDeliveryReceipt, UpdateSMSStatus of the receipted ID: part IDs are not stored. The
\* event it publishes carries no session ID, so no submitter hears of it.
ReceiptApplied(c) ==
    /\ step[c] = "receipt"
    /\ sms' = [m \in Msgs |-> IF Id(m) \in subject[c] /\ Stored(m)
                              THEN copy[c] ELSE sms[m]]
    /\ Return(c)
    /\ UNCHANGED <<reports, queueVars, work, answer>>

-----------------------------------------------------------------------------
Submission ==
    \/ \E m \in Msgs : HandleSubmitSM(m) \/ HandleDataSM(m) \/ HandleSMSDelivery(m)
    \/ \E c \in Callers : SubmitMultiBegins(c)

CallBegins ==
    \E c \in Callers :
        \/ \E m \in Msgs : \/ HandleQuerySM(c, m) \/ HandleReplaceSM(c, m)
                           \/ HandleCancelSM(c, m) \/ QueryUnknown(c, m)
        \/ \E id \in Ids, s \in GatewayStats : ReceiptStored(c, id, s)

CallStep(c) ==
    \/ \E m \in Msgs : \/ SubmitMultiNext(c, m) \/ AnswerQuery(c, m) \/ CheckReport(c, m)
                       \/ UpdateSMS(c, m) \/ DeleteSMS(c, m)
    \/ ReceiptApplied(c)

Gateway == DequeueMessage \/ \E id \in Ids : UpdateMessageStatus(id)

Next ==
    \/ Submission
    \/ \E m \in Msgs : ProcessMessage(m)
    \/ CallBegins
    \/ \E c \in Callers : CallStep(c)
    \/ Gateway

Spec == Init /\ [][Next]_vars

\* Go runs every goroutine that can run; the gateway and the peers promise nothing.
Fairness ==
    /\ \A m \in Msgs : WF_vars(ProcessMessage(m))
    /\ \A c \in Callers : WF_vars(CallStep(c))
FairSpec == Spec /\ Fairness

-----------------------------------------------------------------------------
(* Properties *)

StoreTypes ==
    /\ sms \in [Msgs -> Statuses \cup {"absent"}]
    /\ reports \in [Ids -> ReceiptStats \cup {"none"}]
    /\ answer \in 0 .. 7

QueueTypes ==
    /\ queue \in Seq(Ids) /\ Len(queue) <= Capacity
    /\ qstatus \in [Ids -> {"none", "Enroute", "Delivered"}]

WorkTypes ==
    /\ pc \in [Msgs -> Places]
    /\ nparts \in [Msgs -> 1 .. MaxParts]
    /\ part \in [Msgs -> 1 .. MaxParts]
    /\ registered \in [Msgs -> BOOLEAN]
    /\ announced \in SUBSET Ids /\ sent \in SUBSET Ids

CallTypes ==
    /\ step \in [Callers -> Steps]
    /\ subject \in [Callers -> SUBSET Ids]
    /\ copy \in [Callers -> Statuses]

\* Type invariant: the stores, the queue (never over its capacity, message_routing.go:88), the
\* goroutines and the calls keep their types.
TypeOK == StoreTypes /\ QueueTypes /\ WorkTypes /\ CallTypes

\* A message the store shows as accepted or split has had every one of its parts put on the
\* queue: a queue that filled up half way leaves it "Submitted", whatever receipts and stale
\* replacements are written meanwhile (message_handler.go:919-944).
AcceptedMeansQueued ==
    \A m \in Msgs : sms[m] \in {"Accepted", "Split"} => HandedOn(m, nparts[m])

\* The submitter of a message that asked for receipts and was processed to the end has been
\* announced one report per part, each stored, and the queue can tell each part's status; no
\* report is announced for a message that did not ask, or before all parts were queued
\* (message_handler.go:946-983, message_routing.go:91).
DoneMeansReported ==
    \A m \in Msgs :
        /\ pc[m] = "done" /\ registered[m] =>
              PartIds(m) \subseteq announced /\ \A id \in PartIds(m) : reports[id] # "none"
        /\ pc[m] = "done" /\ WithQueue => \A id \in PartIds(m) : qstatus[id] # "none"
        /\ PartIds(m) \cap announced # {} => registered[m] /\ HandedOn(m, nparts[m])

\* query_sm is never ahead of the delivery: the answer that comes with a delivered report (3) is
\* given only for a message whose every part has left the handler, whichever of ProcessMessage
\* and a receipt stored that report (message_handler.go:256, message_handler.go:946).
QueryNotAhead ==
    [][\A c \in Callers, m \in Msgs :
          step[c] = "query" /\ step'[c] = "idle" /\ subject[c] = {Id(m)} /\ answer' = 3
              => HandedOn(m, nparts[m])]_vars

\* A message once deleted never comes back: not by the write of a replace_sm that fetched it
\* before, nor by a late receipt or by its own ProcessMessage (memory.go:85, memory.go:111).
CancelIsFinal ==
    [][\A m \in Msgs :
          pc[m] \notin {"new", "pending"} /\ sms[m] = "absent" => sms'[m] = "absent"]_vars

\* A cancel_sm that deletes the message before ProcessMessage updates its status suppresses
\* every report to the submitter (message_handler.go:939).
NoReceiptAfterCancel ==
    \A m \in Msgs :
        [](pc[m] \in {"enqueue", "mark", "status"} /\ sms[m] = "absent" =>
              [](PartIds(m) \cap announced = {}))

\* Every message that was accepted for delivery is processed to the end or given up, even when
\* the gateway never empties the queue (message_routing.go:96).
ProcessingEnds ==
    \A m \in Msgs : pc[m] = "enqueue" ~> pc[m] \in {"done", "failed"}

-----------------------------------------------------------------------------
(* The inductive strengthening of the properties above *)

\* ProcessMessage passes every part to the queue, in order, before step 4; step 5 then goes
\* through the parts again.
PartsInOrder ==
    \A m \in Msgs :
        /\ part[m] <= nparts[m]
        /\ pc[m] \in {"new", "pending", "status"} => part[m] = 1
        /\ pc[m] = "enqueue" => HandedOn(m, part[m] - 1)
        /\ pc[m] = "mark" => HandedOn(m, part[m])
        /\ pc[m] \in {"status", "store", "announce", "done"} => HandedOn(m, nparts[m])

\* Only submitted messages are handed on, under the message's own ID only if it was not split.
SentOwn ==
    \A m \in Msgs, i \in 0 .. MaxParts :
        <<m, i>> \in sent => pc[m] \notin {"new", "pending"} /\ (i = 0 => nparts[m] = 1)

\* Reports exist only for what was handed on.
ReportedWasSent == \A id \in Ids : reports[id] # "none" => id \in sent

\* A report is announced only by a ProcessMessage that got past step 4.
AnnouncedLate ==
    \A m \in Msgs, i \in 0 .. MaxParts :
        <<m, i>> \in announced => pc[m] \in {"store", "announce", "done"}

\* The store holds no message that was not submitted.
StoredWasSubmitted == \A m \in Msgs : pc[m] \in {"new", "pending"} => sms[m] = "absent"

\* Destinations a submit_multi has not reached are pending, for one caller only.
MultiPending ==
    /\ \A c \in Callers, m \in Msgs :
          step[c] = "multi" /\ Id(m) \in subject[c] => pc[m] = "pending"
    /\ \A c, d \in Callers :
          step[c] = "multi" /\ step[d] = "multi" /\ c # d => subject[c] \cap subject[d] = {}

\* A fetched copy says accepted or split only of a message that has left completely, and a
\* receipt is about something that was handed on.
CopyHonest ==
    \A c \in Callers :
        /\ step[c] = "receipt" => subject[c] \subseteq sent
        /\ \A m \in Msgs :
              step[c] \in {"query", "replace", "cancel", "update", "delete"}
              /\ subject[c] = {Id(m)} =>
                    /\ pc[m] \notin {"new", "pending"}
                    /\ copy[c] \in {"Accepted", "Split"} => HandedOn(m, nparts[m])

HandlerInv ==
    /\ AcceptedMeansQueued /\ PartsInOrder /\ SentOwn /\ ReportedWasSent /\ AnnouncedLate
    /\ StoredWasSubmitted /\ MultiPending /\ CopyHonest

\* The parts whose report is stored and announced; those whose status the queue can tell.
Reported(m) == {i \in 1 .. nparts[m] : PartId(m, i) \in announced /\ reports[PartId(m, i)] # "none"}
Known(m) == {i \in 1 .. nparts[m] : qstatus[PartId(m, i)] # "none"}

\* What step 5 has behind it is stored and announced, for messages that asked; the queue knows
\* the status of every part that was passed to it.
ReportsOf(m) ==
    /\ \A i \in 0 .. MaxParts : <<m, i>> \in announced => registered[m]
    /\ pc[m] \in {"store", "announce"} => registered[m] /\ 1 .. (part[m] - 1) \subseteq Reported(m)
    /\ pc[m] = "announce" => reports[PartId(m, part[m])] # "none"
    /\ pc[m] = "done" /\ registered[m] => 1 .. nparts[m] \subseteq Reported(m)
    /\ WithQueue =>
          /\ pc[m] \in {"enqueue", "mark"} => 1 .. (part[m] - 1) \subseteq Known(m)
          /\ pc[m] \in {"status", "store", "announce", "done"} => 1 .. nparts[m] \subseteq Known(m)

ReportsInOrder == \A m \in Msgs : ReportsOf(m)

=============================================================================
