------------------------- MODULE MessageHandlerProofs -------------------------
(***************************************************************************)
(* Proofs about MessageHandler, for any messages, callers, number of parts *)
(* and queue capacity. HandlerInv is the inductive invariant: what callers *)
(* hold in their hands (CopyHonest) and how far each ProcessMessage is     *)
(* (PartsInOrder) are what AcceptedMeansQueued needs to be preserved.      *)
(***************************************************************************)
EXTENDS MessageHandler, SequenceTheorems, TLAPS

-----------------------------------------------------------------------------
(* Vocabulary *)

\* The message's own ID, and the IDs of its parts, are IDs.
LEMMA IdTypes ==
    ASSUME NEW m \in Msgs
    PROVE /\ Id(m) \in Ids
          /\ \A i \in 1 .. MaxParts : PartId(m, i) \in Ids
  BY PartsAssumption DEF Id, PartId, Ids

\* Different messages have different IDs.
LEMMA SameId == ASSUME NEW k \in Msgs, NEW m \in Msgs, {Id(k)} = {Id(m)} PROVE k = m
  <1>1. Id(k) \in {Id(m)} OBVIOUS
  <1>2. Id(k) = Id(m) BY <1>1
  <1> QED BY <1>2 DEF Id

\* mapReceiptStatus gives a message status for every receipt status.
LEMMA ReceiptStatusType ==
    /\ ReceiptStats = {"DELIVRD", "EXPIRED", "DELETED", "UNDELIV", "ACCEPTD", "REJECTD", "UNKNOWN"}
    /\ \A s \in ReceiptStats : mapReceiptStatus[s] \in Statuses \ {"Split"}
  BY DEF ReceiptStats, mapReceiptStatus, Statuses

\* The reports ProcessMessage generates have a receipt status.
LEMMA DeliveredStatusType == mapMessageStatus["Delivered"] \in ReceiptStats
  <1>1. mapReceiptStatus["DELIVRD"] = "Delivered" BY DEF mapReceiptStatus
  <1>2. \E r \in ReceiptStats : mapReceiptStatus[r] = "Delivered"
    BY <1>1, ReceiptStatusType
  <1>3. mapMessageStatus["Delivered"]
          = CHOOSE r \in ReceiptStats : mapReceiptStatus[r] = "Delivered"
    BY DEF mapMessageStatus
  <1> QED BY <1>2, <1>3

\* query_sm_resp carries a state between 1 and 7, and 3 only with a report.
LEMMA QueryStateType ==
    /\ \A r \in ReceiptStats \cup {"none"} : queryState[r] \in 1 .. 7
    /\ queryState["none"] # 3
  BY ReceiptStatusType DEF queryState

-----------------------------------------------------------------------------
(* Type correctness *)

\* The initial state has the right types.
LEMMA InitType == Init => TypeOK
  <1> SUFFICES ASSUME Init PROVE TypeOK
    OBVIOUS
  <1>1. StoreTypes BY DEF Init, StoreTypes
  <1>2. QueueTypes BY PartsAssumption DEF Init, QueueTypes
  <1>3. nparts \in [Msgs -> 1 .. MaxParts] /\ part \in [Msgs -> 1 .. MaxParts]
    BY PartsAssumption DEF Init
  <1>4. WorkTypes BY <1>3, Zenon DEF Init, WorkTypes, Places
  <1>5. CallTypes BY DEF Init, CallTypes, Steps, Statuses
  <1> QED BY <1>1, <1>2, <1>4, <1>5 DEF TypeOK

\* Advancing to the next part keeps the part number within the parts of the message.
LEMMA NextPartType ==
    ASSUME NEW m \in Msgs, WorkTypes, NextPart(m)
    PROVE pc' \in [Msgs -> Places] /\ part' \in [Msgs -> 1 .. MaxParts]
  BY PartsAssumption DEF WorkTypes, NextPart, Places

\* Submissions keep the type invariant.
LEMMA SubmissionType == TypeOK /\ Submission => TypeOK'
  <1> SUFFICES ASSUME TypeOK, Submission PROVE TypeOK'
    OBVIOUS
  <1> USE DEF TypeOK, StoreTypes, QueueTypes, WorkTypes, CallTypes, calls, queueVars, stores
  <1>1. ASSUME NEW m \in Msgs, Submit(m) PROVE TypeOK'
    BY <1>1 DEF Submit, StoreSMS, Statuses, Places
  <1>2. ASSUME NEW m \in Msgs, HandleSMSDelivery(m) PROVE TypeOK'
    BY <1>2 DEF HandleSMSDelivery, StoreSMS, Statuses, Places
  <1>3. ASSUME NEW c \in Callers, SubmitMultiBegins(c) PROVE TypeOK'
    <2>1. PICK S \in SUBSET {m \in Msgs : pc[m] = "new"}, n \in 1 .. MaxParts, r \in BOOLEAN :
            /\ S # {}
            /\ nparts' = [m \in Msgs |-> IF m \in S THEN n ELSE nparts[m]]
            /\ registered' = [m \in Msgs |-> IF m \in S THEN r ELSE registered[m]]
            /\ pc' = [m \in Msgs |-> IF m \in S THEN "pending" ELSE pc[m]]
            /\ subject' = [subject EXCEPT ![c] = {Id(m) : m \in S}]
      BY ONLY <1>3, Zenon DEF SubmitMultiBegins
    <2>2. {Id(m) : m \in S} \subseteq Ids BY IdTypes
    <2>3. subject' \in [Callers -> SUBSET Ids] BY <2>1, <2>2
    <2>4. nparts' \in [Msgs -> 1 .. MaxParts] /\ registered' \in [Msgs -> BOOLEAN]
      BY <2>1
    <2>5. pc' \in [Msgs -> Places] BY <2>1 DEF Places
    <2> QED BY <1>3, <2>3, <2>4, <2>5 DEF SubmitMultiBegins, Steps
  <1> QED BY <1>1, <1>2, <1>3 DEF Submission, HandleSubmitSM, HandleDataSM

\* The steps of a ProcessMessage goroutine keep the type invariant.
LEMMA ProcessType == ASSUME NEW m \in Msgs PROVE TypeOK /\ ProcessMessage(m) => TypeOK'
  <1> SUFFICES ASSUME TypeOK, ProcessMessage(m) PROVE TypeOK'
    OBVIOUS
  <1>p. PartId(m, part[m]) \in Ids /\ Id(m) \in Ids BY IdTypes DEF TypeOK, WorkTypes
  <1> USE DEF TypeOK, StoreTypes, QueueTypes, WorkTypes, CallTypes, calls, queueVars, stores
  <1>1. CASE Enqueue(m)
    <2>1. QueueTypes'
      <3>1. CASE UNCHANGED queue BY <1>1, <3>1 DEF Enqueue
      <3>2. CASE Len(queue) < Capacity /\ queue' = Append(queue, PartId(m, part[m]))
        <4>1. queue' \in Seq(Ids) /\ Len(queue') = Len(queue) + 1
          BY <3>2, <1>p, AppendProperties
        <4>2. Len(queue) \in Nat BY LenProperties
        <4> QED BY <1>1, <3>2, <4>1, <4>2, PartsAssumption DEF Enqueue
      <3> QED BY <1>1, <3>1, <3>2 DEF Enqueue
    <2>2. WorkTypes' BY <1>1, <1>p DEF Enqueue, Places
    <2> QED BY <1>1, <2>1, <2>2 DEF Enqueue
  <1>2. CASE MarkEnroute(m)
    BY <1>2, <1>p, NextPartType DEF MarkEnroute
  <1>3. CASE DeliverDirectly(m)
    BY <1>3, <1>p, NextPartType DEF DeliverDirectly, UpdateSMSStatus, Statuses, Places
  <1>4. CASE UpdateStatus(m)
    BY <1>4 DEF UpdateStatus, UpdateSMSStatus, Statuses, Places
  <1>5. CASE StoreReport(m)
    BY <1>5, <1>p, DeliveredStatusType DEF StoreReport, Places
  <1>6. CASE Announce(m)
    <2>1. part' \in [Msgs -> 1 .. MaxParts]
      <3>1. CASE part[m] < nparts[m]
        <4>1. part[m] + 1 \in 1 .. MaxParts BY <3>1, PartsAssumption
        <4>2. part' = [part EXCEPT ![m] = part[m] + 1] BY <1>6, <3>1 DEF Announce
        <4> QED BY <4>1, <4>2
      <3>2. CASE ~(part[m] < nparts[m]) BY <1>6, <3>2 DEF Announce
      <3> QED BY <3>1, <3>2
    <2>2. pc' \in [Msgs -> Places]
      <3>1. pc' = [pc EXCEPT ![m] = "store"] \/ pc' = [pc EXCEPT ![m] = "done"]
        BY <1>6 DEF Announce
      <3> QED BY <3>1 DEF Places
    <2>3. announced' \in SUBSET Ids BY <1>6, <1>p DEF Announce
    <2> QED BY <1>6, <2>1, <2>2, <2>3 DEF Announce
  <1> QED BY <1>1, <1>2, <1>3, <1>4, <1>5, <1>6 DEF ProcessMessage

\* Ending a call keeps the types of the calls.
LEMMA ReturnType == ASSUME NEW c \in Callers, CallTypes, Return(c) PROVE CallTypes'
  BY DEF CallTypes, Return, Steps, Statuses

\* Beginning an operation keeps the type invariant.
LEMMA CallBeginsType == TypeOK /\ CallBegins => TypeOK'
  <1> SUFFICES ASSUME TypeOK, NEW c \in Callers,
                      \/ \E m \in Msgs : \/ HandleQuerySM(c, m) \/ HandleReplaceSM(c, m)
                                         \/ HandleCancelSM(c, m) \/ QueryUnknown(c, m)
                      \/ \E id \in Ids, s \in GatewayStats : ReceiptStored(c, id, s)
               PROVE TypeOK'
    BY DEF CallBegins
  <1> USE DEF TypeOK, StoreTypes, QueueTypes, WorkTypes, CallTypes, calls, queueVars, stores, work
  <1>1. ASSUME NEW m \in Msgs, NEW op \in Steps, Fetch(c, m, op) PROVE TypeOK'
    <2>1. Id(m) \in Ids /\ sms[m] \in Statuses BY <1>1, IdTypes DEF Fetch, Stored
    <2>2. /\ step' = [step EXCEPT ![c] = op]
          /\ subject' = [subject EXCEPT ![c] = {Id(m)}]
          /\ copy' = [copy EXCEPT ![c] = sms[m]]
      BY <1>1 DEF Fetch
    <2>3. subject' \in [Callers -> SUBSET Ids] BY <2>1, <2>2
    <2>4. CallTypes' BY <2>1, <2>2, <2>3
    <2> QED BY <1>1, <2>4 DEF Fetch
  <1>2. ASSUME NEW m \in Msgs, QueryUnknown(c, m) PROVE TypeOK'
    BY <1>2 DEF QueryUnknown
  <1>3. ASSUME NEW id \in Ids, NEW s \in GatewayStats, ReceiptStored(c, id, s) PROVE TypeOK'
    <2>1. s \in ReceiptStats /\ mapReceiptStatus[s] \in Statuses
      BY GatewayAssumption, ReceiptStatusType
    <2>2. \/ /\ step' = [step EXCEPT ![c] = "receipt"]
             /\ subject' = [subject EXCEPT ![c] = {id}]
             /\ copy' = [copy EXCEPT ![c] = mapReceiptStatus[s]]
          \/ UNCHANGED <<step, subject, copy>>
      BY <1>3 DEF ReceiptStored
    <2>3. {id} \in SUBSET Ids /\ "receipt" \in Steps BY DEF Steps
    <2>4. CallTypes'
      <3>1. CallTypes OBVIOUS
      <3>2. CASE UNCHANGED <<step, subject, copy>> BY ONLY <3>1, <3>2 DEF CallTypes
      <3>3. CASE /\ step' = [step EXCEPT ![c] = "receipt"]
                 /\ subject' = [subject EXCEPT ![c] = {id}]
                 /\ copy' = [copy EXCEPT ![c] = mapReceiptStatus[s]]
        BY ONLY <2>1, <2>3, <3>1, <3>3 DEF CallTypes
      <3> QED BY ONLY <2>2, <3>2, <3>3
    <2> QED BY <1>3, <2>1, <2>4 DEF ReceiptStored
  <1> QED BY <1>1, <1>2, <1>3 DEF HandleQuerySM, HandleReplaceSM, HandleCancelSM, Steps

\* Every later step of an operation keeps the type invariant.
LEMMA CallStepType == ASSUME NEW c \in Callers PROVE TypeOK /\ CallStep(c) => TypeOK'
  <1> SUFFICES ASSUME TypeOK, CallStep(c) PROVE TypeOK'
    OBVIOUS
  <1> USE DEF TypeOK, StoreTypes, QueueTypes, WorkTypes, calls, queueVars, stores, work
  <1>1. ASSUME NEW m \in Msgs, SubmitMultiNext(c, m) PROVE TypeOK'
    BY <1>1 DEF SubmitMultiNext, StoreSMS, CallTypes, Statuses, Places, Steps
  <1>2. ASSUME NEW m \in Msgs, AnswerQuery(c, m) PROVE TypeOK'
    <2>1. answer' \in 0 .. 7 BY <1>2, IdTypes, QueryStateType DEF AnswerQuery
    <2> QED BY <1>2, <2>1, ReturnType DEF AnswerQuery
  <1>3. ASSUME NEW m \in Msgs, CheckReport(c, m) PROVE TypeOK'
    <2>1. CallTypes' BY <1>3, ReturnType DEF CheckReport, CallTypes, Steps
    <2> QED BY <1>3, <2>1 DEF CheckReport
  <1>4. ASSUME NEW m \in Msgs, UpdateSMS(c, m) PROVE TypeOK'
    <2>1. StoreTypes' BY <1>4 DEF UpdateSMS, CallTypes
    <2> QED BY <1>4, <2>1, ReturnType DEF UpdateSMS
  <1>5. ASSUME NEW m \in Msgs, DeleteSMS(c, m) PROVE TypeOK'
    BY <1>5, ReturnType DEF DeleteSMS
  <1>6. CASE ReceiptApplied(c)
    <2>1. StoreTypes' BY <1>6 DEF ReceiptApplied, CallTypes
    <2> QED BY <1>6, <2>1, ReturnType DEF ReceiptApplied
  <1> QED BY <1>1, <1>2, <1>3, <1>4, <1>5, <1>6 DEF CallStep

\* Every step keeps the type invariant.
LEMMA NextType == TypeOK /\ [Next]_vars => TypeOK'
  <1> SUFFICES ASSUME TypeOK, [Next]_vars PROVE TypeOK'
    OBVIOUS
  <1>1. CASE Submission BY <1>1, SubmissionType
  <1>2. ASSUME NEW m \in Msgs, ProcessMessage(m) PROVE TypeOK' BY <1>2, ProcessType
  <1>3. CASE CallBegins BY <1>3, CallBeginsType
  <1>4. ASSUME NEW c \in Callers, CallStep(c) PROVE TypeOK' BY <1>4, CallStepType
  <1>5. CASE DequeueMessage
    <2> USE DEF TypeOK, QueueTypes
    <2>1. queue' \in Seq(Ids) /\ Len(queue') = Len(queue) - 1
      BY <1>5, HeadTailProperties DEF DequeueMessage
    <2>2. Len(queue) \in Nat BY LenProperties
    <2>3. QueueTypes' BY <1>5, <2>1, <2>2, PartsAssumption DEF DequeueMessage
    <2> QED BY <1>5, <2>3
        DEF TypeOK, StoreTypes, WorkTypes, CallTypes, DequeueMessage, stores, work, calls
  <1>6. ASSUME NEW id \in Ids, UpdateMessageStatus(id) PROVE TypeOK'
    BY <1>6 DEF TypeOK, StoreTypes, QueueTypes, WorkTypes, CallTypes, UpdateMessageStatus,
                stores, work, calls
  <1>7. CASE UNCHANGED vars
    BY <1>7 DEF TypeOK, StoreTypes, QueueTypes, WorkTypes, CallTypes, vars, stores, queueVars,
                work, calls
  <1> QED BY <1>1, <1>2, <1>3, <1>4, <1>5, <1>6, <1>7 DEF Next, Gateway

\* The handler's state keeps its types in every behaviour; in particular the delivery queue
\* never exceeds its capacity, however many goroutines send to it (message_routing.go:88).
THEOREM HandlerTypeCorrect == Spec => []TypeOK
  <1> QED BY InitType, NextType, PTL DEF Spec

-----------------------------------------------------------------------------
(* The inductive invariant *)

\* What HandlerInv speaks about.
invVars == <<sms, reports, pc, nparts, part, announced, sent, calls>>

\* Initially nothing was submitted.
LEMMA InitInv == Init => HandlerInv
  BY PartsAssumption
     DEF Init, HandlerInv, AcceptedMeansQueued, PartsInOrder, SentOwn, ReportedWasSent, Ids,
         AnnouncedLate, StoredWasSubmitted, MultiPending, CopyHonest, HandedOn

\* Steps that change none of those variables keep the invariant.
LEMMA KeepInv == HandlerInv /\ UNCHANGED invVars => HandlerInv'
  BY DEF invVars, calls, HandlerInv, AcceptedMeansQueued, PartsInOrder, SentOwn, ReportedWasSent,
         AnnouncedLate, StoredWasSubmitted, MultiPending, CopyHonest, HandedOn, PartId, Id

\* While no message is split anew, what has left stays away.
LEMMA HandedOnStays ==
    ASSUME UNCHANGED nparts, sent \subseteq sent', NEW m \in Msgs, NEW n \in Int, HandedOn(m, n)
    PROVE HandedOn(m, n)'
  BY DEF HandedOn, PartId, Id

\* submit_sm and data_sm keep the invariant.
LEMMA SubmitInv == ASSUME NEW m \in Msgs PROVE TypeOK /\ HandlerInv /\ Submit(m) => HandlerInv'
  <1> SUFFICES ASSUME TypeOK, HandlerInv, Submit(m) PROVE HandlerInv'
    OBVIOUS
  <1> USE DEF TypeOK, StoreTypes, WorkTypes, CallTypes, Submit, StoreSMS, calls, queueVars
  <1>1. \A k \in Msgs \ {m} : /\ nparts'[k] = nparts[k] /\ pc'[k] = pc[k] /\ sms'[k] = sms[k]
                              /\ \A n \in Int : HandedOn(k, n) => HandedOn(k, n)'
    BY DEF HandedOn, PartId, Id
  <1>2. /\ nparts'[m] \in 1 .. MaxParts /\ pc[m] = "new" /\ pc'[m] = "enqueue"
        /\ sms'[m] = "Submitted" /\ part'[m] = 1
    BY DEF HandlerInv, PartsInOrder
  <1>3. AcceptedMeansQueued'
    BY <1>1, <1>2 DEF HandlerInv, AcceptedMeansQueued
  <1>4. PartsInOrder'
    <2>1. HandedOn(m, part[m] - 1)' BY <1>2 DEF HandedOn
    <2>2. ASSUME NEW k \in Msgs \ {m} PROVE part[k] - 1 \in Int /\ part[k] \in Int /\ nparts[k] \in Int
      OBVIOUS
    <2> QED BY <1>1, <1>2, <2>1, <2>2 DEF HandlerInv, PartsInOrder
  <1>5. SentOwn' BY <1>1, <1>2 DEF HandlerInv, SentOwn
  <1>6. ReportedWasSent' BY DEF HandlerInv, ReportedWasSent
  <1>7. AnnouncedLate' BY <1>1, <1>2 DEF HandlerInv, AnnouncedLate
  <1>8. StoredWasSubmitted' BY <1>1, <1>2 DEF HandlerInv, StoredWasSubmitted
  <1>9. MultiPending' BY <1>1, <1>2 DEF HandlerInv, MultiPending, Id
  <1>10. CopyHonest' BY <1>1, <1>2 DEF HandlerInv, CopyHonest, Id
  <1> QED BY <1>3, <1>4, <1>5, <1>6, <1>7, <1>8, <1>9, <1>10 DEF HandlerInv

\* An incoming message keeps the invariant.
LEMMA DeliveryInv ==
    ASSUME NEW m \in Msgs PROVE TypeOK /\ HandlerInv /\ HandleSMSDelivery(m) => HandlerInv'
  <1> SUFFICES ASSUME TypeOK, HandlerInv, HandleSMSDelivery(m) PROVE HandlerInv'
    OBVIOUS
  <1> USE DEF TypeOK, StoreTypes, WorkTypes, CallTypes, HandleSMSDelivery, StoreSMS, calls, queueVars
  <1>1. \A k \in Msgs \ {m} : pc'[k] = pc[k] /\ sms'[k] = sms[k]
    OBVIOUS
  <1>2. pc[m] = "new" /\ pc'[m] = "incoming" /\ sms'[m] = "Delivered"
    OBVIOUS
  <1>h. \A k \in Msgs, n \in Int : HandedOn(k, n) => HandedOn(k, n)'
    BY HandedOnStays
  <1>3. AcceptedMeansQueued'
    BY <1>1, <1>2, <1>h DEF HandlerInv, AcceptedMeansQueued
  <1>4. PartsInOrder'
    BY <1>1, <1>2, <1>h DEF HandlerInv, PartsInOrder
  <1>5. SentOwn' BY <1>1, <1>2 DEF HandlerInv, SentOwn
  <1>6. ReportedWasSent' BY DEF HandlerInv, ReportedWasSent
  <1>7. AnnouncedLate' BY <1>1, <1>2 DEF HandlerInv, AnnouncedLate
  <1>8. StoredWasSubmitted' BY <1>1, <1>2 DEF HandlerInv, StoredWasSubmitted
  <1>9. MultiPending' BY <1>1, <1>2 DEF HandlerInv, MultiPending, Id
  <1>10. CopyHonest' BY <1>1, <1>2, <1>h DEF HandlerInv, CopyHonest, Id
  <1> QED BY <1>3, <1>4, <1>5, <1>6, <1>7, <1>8, <1>9, <1>10 DEF HandlerInv

\* A submit_multi that begins keeps the invariant: only unused messages change.
LEMMA MultiBeginsInv ==
    ASSUME NEW c \in Callers PROVE TypeOK /\ HandlerInv /\ SubmitMultiBegins(c) => HandlerInv'
  <1> SUFFICES ASSUME TypeOK, HandlerInv, SubmitMultiBegins(c) PROVE HandlerInv'
    OBVIOUS
  <1> USE DEF TypeOK, StoreTypes, WorkTypes, CallTypes, stores, queueVars
  <1>0. PICK S \in SUBSET {m \in Msgs : pc[m] = "new"}, n \in 1 .. MaxParts :
          /\ nparts' = [m \in Msgs |-> IF m \in S THEN n ELSE nparts[m]]
          /\ pc' = [m \in Msgs |-> IF m \in S THEN "pending" ELSE pc[m]]
          /\ subject' = [subject EXCEPT ![c] = {Id(m) : m \in S}]
    BY DEF SubmitMultiBegins
  <1>a. /\ step[c] = "idle" /\ step' = [step EXCEPT ![c] = "multi"]
        /\ UNCHANGED <<sms, reports, part, announced, sent, copy>>
    BY DEF SubmitMultiBegins
  <1>1. \A k \in Msgs \ S : /\ nparts'[k] = nparts[k] /\ pc'[k] = pc[k]
                            /\ \A i \in Int : HandedOn(k, i) => HandedOn(k, i)'
    BY <1>0, <1>a DEF HandedOn, PartId, Id
  <1>2. \A m \in S : /\ nparts'[m] \in 1 .. MaxParts /\ pc[m] = "new" /\ pc'[m] = "pending"
                     /\ sms[m] = "absent" /\ part'[m] = 1
    BY <1>0, <1>a DEF HandlerInv, PartsInOrder, StoredWasSubmitted
  <1>3. AcceptedMeansQueued'
    BY <1>1, <1>2, <1>a DEF HandlerInv, AcceptedMeansQueued
  <1>4. PartsInOrder'
    BY <1>1, <1>2, <1>a DEF HandlerInv, PartsInOrder
  <1>5. SentOwn' BY <1>1, <1>2, <1>a DEF HandlerInv, SentOwn
  <1>6. ReportedWasSent' BY <1>a DEF HandlerInv, ReportedWasSent
  <1>7. AnnouncedLate' BY <1>1, <1>2, <1>a DEF HandlerInv, AnnouncedLate
  <1>8. StoredWasSubmitted' BY <1>1, <1>2, <1>a DEF HandlerInv, StoredWasSubmitted
  <1>9. MultiPending'
    <2>1. \A d \in Callers \ {c} : step'[d] = step[d] /\ subject'[d] = subject[d]
      BY <1>0, <1>a
    <2>2. subject'[c] = {Id(m) : m \in S} BY <1>0
    <2>3. ASSUME NEW d \in Callers \ {c}, step[d] = "multi" PROVE subject[c]' \cap subject[d] = {}
      BY <2>2, <2>3, <1>2 DEF HandlerInv, MultiPending
    <2>4. ASSUME NEW d \in Callers, NEW m \in Msgs, step'[d] = "multi", Id(m) \in subject'[d]
          PROVE pc'[m] = "pending"
      <3>1. CASE d = c BY <3>1, <2>2, <2>4, <1>2 DEF Id
      <3>2. CASE d # c BY <3>2, <2>1, <2>4, <1>1, <1>2 DEF HandlerInv, MultiPending
      <3> QED BY <3>1, <3>2
    <2> QED BY <2>1, <2>3, <2>4 DEF HandlerInv, MultiPending, Id
  <1>10. CopyHonest'
    <2>1. \A d \in Callers \ {c} : step'[d] = step[d] /\ subject'[d] = subject[d]
      BY <1>0, <1>a
    <2>2. step'[c] = "multi" BY <1>a
    <2> QED BY <2>1, <2>2, <1>1, <1>2, <1>a DEF HandlerInv, CopyHonest, Id
  <1> QED BY <1>3, <1>4, <1>5, <1>6, <1>7, <1>8, <1>9, <1>10 DEF HandlerInv

\* The ID of a part names its message, and is the message's own ID only if it was not split.
LEMMA PartIdShape ==
    ASSUME TypeOK, NEW m \in Msgs, NEW i \in 1 .. MaxParts
    PROVE \E j \in 0 .. MaxParts : PartId(m, i) = <<m, j>> /\ (j = 0 => nparts[m] = 1)
  BY PartsAssumption DEF PartId, Id, TypeOK, WorkTypes

\* Every step of a ProcessMessage goroutine keeps the invariant.
LEMMA ProcessInv ==
    ASSUME NEW m \in Msgs PROVE TypeOK /\ HandlerInv /\ ProcessMessage(m) => HandlerInv'
  <1> SUFFICES ASSUME TypeOK, HandlerInv, ProcessMessage(m) PROVE HandlerInv'
    OBVIOUS
  <1>t. /\ sms \in [Msgs -> Statuses \cup {"absent"}] /\ reports \in [Ids -> ReceiptStats \cup {"none"}]
        /\ pc \in [Msgs -> Places] /\ nparts \in [Msgs -> 1 .. MaxParts]
        /\ part \in [Msgs -> 1 .. MaxParts]
    BY DEF TypeOK, StoreTypes, WorkTypes
  <1>p. PICK j \in 0 .. MaxParts : PartId(m, part[m]) = <<m, j>> /\ (j = 0 => nparts[m] = 1)
    BY <1>t, PartIdShape
  <1>a. UNCHANGED <<nparts, step, subject, copy>> /\ sent \subseteq sent'
    BY DEF ProcessMessage, Enqueue, MarkEnroute, DeliverDirectly, UpdateStatus, StoreReport,
           Announce, stores, queueVars, calls
  <1>b. \A k \in Msgs \ {m} : pc'[k] = pc[k] /\ sms'[k] = sms[k] /\ part'[k] = part[k]
    BY <1>t DEF ProcessMessage, Enqueue, MarkEnroute, DeliverDirectly, UpdateStatus, StoreReport,
           Announce, NextPart, UpdateSMSStatus, stores, queueVars, calls
  <1>c. pc[m] \in {"enqueue", "mark", "status", "store", "announce"}
        /\ pc'[m] \in {"enqueue", "mark", "status", "store", "announce", "done", "failed"}
    BY <1>t DEF ProcessMessage, Enqueue, MarkEnroute, DeliverDirectly, UpdateStatus, StoreReport,
           Announce, NextPart
  <1>h. \A k \in Msgs, n \in Int : HandedOn(k, n) => HandedOn(k, n)'
    BY <1>a, HandedOnStays
  <1>1. PartsInOrder'
    <2>0. PICK p \in Nat \ {0}, n \in Nat \ {0} :
            p = part[m] /\ n = nparts[m] /\ n = nparts'[m] /\ p <= n
      BY <1>t, <1>a DEF HandlerInv, PartsInOrder
    <2>s. ASSUME NEW q \in Nat \ {0}, q = part'[m], q <= n,
                 pc'[m] = "status" => q = 1,
                 pc'[m] = "enqueue" => HandedOn(m, q - 1)',
                 pc'[m] = "mark" => HandedOn(m, q)',
                 pc'[m] \in {"status", "store", "announce", "done"} => HandedOn(m, n)'
          PROVE PartsInOrder'
      <3>1. ASSUME NEW k \in Msgs \ {m}
            PROVE /\ part'[k] <= nparts'[k]
                  /\ pc'[k] \in {"new", "pending", "status"} => part'[k] = 1
                  /\ pc'[k] = "enqueue" => HandedOn(k, part[k] - 1)'
                  /\ pc'[k] = "mark" => HandedOn(k, part[k])'
                  /\ pc'[k] \in {"status", "store", "announce", "done"} => HandedOn(k, nparts[k])'
        <4>1. PICK x \in Int, y \in Int : x = part[k] /\ y = nparts[k] /\ x = part'[k] /\ y = nparts'[k]
          BY <1>t, <1>a, <1>b
        <4>2. /\ HandedOn(k, x - 1) => HandedOn(k, x - 1)'
              /\ HandedOn(k, x) => HandedOn(k, x)'
              /\ HandedOn(k, y) => HandedOn(k, y)'
          BY <1>h
        <4>3. /\ part[k] <= nparts[k]
              /\ pc[k] \in {"new", "pending", "status"} => part[k] = 1
              /\ pc[k] = "enqueue" => HandedOn(k, x - 1)
              /\ pc[k] = "mark" => HandedOn(k, x)
              /\ pc[k] \in {"status", "store", "announce", "done"} => HandedOn(k, y)
          BY <4>1 DEF HandlerInv, PartsInOrder
        <4>4. pc'[k] = pc[k] BY <1>b
        <4> QED BY <4>1, <4>2, <4>3, <4>4
      <3> QED BY <3>1, <2>s, <2>0, <1>c DEF PartsInOrder
    <2>n. ASSUME HandedOn(m, p)', NextPart(m) PROVE PartsInOrder'
      <3>1. CASE p < n
        <4>1. part'[m] = p + 1 /\ pc'[m] = "enqueue" BY <1>t, <2>0, <2>n, <3>1 DEF NextPart
        <4>2. (p + 1) - 1 = p OBVIOUS
        <4> QED BY <4>1, <4>2, <2>n, <2>s, <3>1
      <3>2. CASE ~(p < n)
        <4>1. part'[m] = 1 /\ pc'[m] = "status" BY <1>t, <2>0, <2>n, <3>2 DEF NextPart
        <4>2. p = n BY <2>0, <3>2
        <4> QED BY <4>1, <4>2, <2>n, <2>s
      <3> QED BY <3>1, <3>2
    <2>f. ASSUME UNCHANGED part, pc'[m] = "failed" PROVE PartsInOrder'
      BY <2>f, <2>0, <2>s
    <2>1. CASE Enqueue(m)
      <3>1. CASE pc'[m] = "mark"
        <4>1. HandedOn(m, p - 1)'
          <5>1. HandedOn(m, p - 1) BY <2>1, <2>0 DEF Enqueue, HandlerInv, PartsInOrder
          <5> QED BY <5>1, <1>h
        <4>2. PartId(m, p) \in sent' BY <2>0, <2>1, <3>1, <1>t DEF Enqueue
        <4>3. HandedOn(m, p)'
          <5>1. \A i \in 1 .. p : i \in 1 .. (p - 1) \/ i = p OBVIOUS
          <5>2. PartId(m, p)' = PartId(m, p) BY <1>a DEF PartId, Id
          <5> QED BY <5>1, <5>2, <4>1, <4>2 DEF HandedOn
        <4>4. part'[m] = p BY <2>1, <2>0 DEF Enqueue
        <4> QED BY <2>s, <3>1, <4>3, <4>4, <2>0
      <3> QED BY <2>1, <2>f, <3>1, <1>t DEF Enqueue
    <2>2. CASE MarkEnroute(m)
      <3>1. HandedOn(m, p) BY <2>2, <2>0 DEF MarkEnroute, HandlerInv, PartsInOrder
      <3> QED BY <3>1, <1>h, <2>n, <2>2 DEF MarkEnroute
    <2>3. CASE DeliverDirectly(m)
      <3>1. CASE nparts[m] = 1 /\ Id(m) \in sent' /\ NextPart(m)
        <4>1. n = 1 BY <2>0, <3>1
        <4>2. p = 1 BY <2>0, <4>1
        <4>3. HandedOn(m, p)' BY <3>1, <4>1, <4>2, <2>0 DEF HandedOn, PartId, Id
        <4> QED BY <3>1, <4>3, <2>n
      <3> QED BY <2>3, <2>f, <3>1, <1>t DEF DeliverDirectly
    <2>4. ASSUME pc[m] \in {"status", "store", "announce"},
                 pc'[m] \in {"store", "announce", "done", "failed"}, part'[m] \in {p, p + 1},
                 part'[m] <= n
          PROVE PartsInOrder'
      <3>1. HandedOn(m, n) BY <2>4, <2>0 DEF HandlerInv, PartsInOrder
      <3>2. HandedOn(m, n)' BY <3>1, <1>h
      <3> QED BY <2>4, <3>2, <2>s
    <2>5. CASE UpdateStatus(m) BY <2>5, <2>4, <2>0, <1>t DEF UpdateStatus
    <2>6. CASE StoreReport(m) BY <2>6, <2>4, <2>0, <1>t DEF StoreReport
    <2>7. CASE Announce(m) BY <2>7, <2>4, <2>0, <1>t DEF Announce
    <2> QED BY <2>1, <2>2, <2>3, <2>5, <2>6, <2>7 DEF ProcessMessage
  <1>2. AcceptedMeansQueued'
    <2>0. PICK n \in Int : n = nparts[m] /\ n = nparts'[m] BY <1>t, <1>a
    <2>1. sms'[m] \in {"Accepted", "Split"} => HandedOn(m, n)'
      <3>1. CASE UpdateStatus(m)
        <4>1. HandedOn(m, n) BY <2>0, <3>1 DEF UpdateStatus, HandlerInv, PartsInOrder
        <4> QED BY <4>1, <1>h
      <3>2. CASE ~UpdateStatus(m)
        <4>1. sms'[m] = sms[m] \/ sms'[m] = "Delivered"
          BY <3>2, <1>t DEF ProcessMessage, Enqueue, MarkEnroute, DeliverDirectly, StoreReport,
             Announce, UpdateSMSStatus, stores
        <4>2. sms[m] \in {"Accepted", "Split"} => HandedOn(m, n)
          BY <2>0 DEF HandlerInv, AcceptedMeansQueued
        <4> QED BY <4>1, <4>2, <1>h
      <3> QED BY <3>1, <3>2
    <2> QED BY <2>0, <2>1, <1>a, <1>b, <1>h, <1>t DEF HandlerInv, AcceptedMeansQueued
  <1>3. SentOwn'
    <2>1. sent' \subseteq sent \cup {<<m, j>>}
      BY <1>p, <1>t DEF ProcessMessage, Enqueue, MarkEnroute, DeliverDirectly, UpdateStatus,
         StoreReport, Announce, Id, PartId
    <2> QED BY <2>1, <1>p, <1>a, <1>b, <1>c DEF HandlerInv, SentOwn
  <1>4. ReportedWasSent'
    <2>1. CASE StoreReport(m)
      <3>1. PartId(m, part[m]) \in sent
        BY <2>1, <1>t DEF StoreReport, HandlerInv, PartsInOrder, HandedOn
      <3> QED BY <2>1, <3>1, <1>a, <1>t DEF StoreReport, HandlerInv, ReportedWasSent
    <2>2. CASE ~StoreReport(m)
      <3>1. reports' = reports
        BY <2>2 DEF ProcessMessage, Enqueue, MarkEnroute, DeliverDirectly, UpdateStatus, Announce,
           stores
      <3> QED BY <3>1, <1>a DEF HandlerInv, ReportedWasSent
    <2> QED BY <2>1, <2>2
  <1>5. AnnouncedLate'
    <2>1. CASE Announce(m)
      <3>1. announced' = announced \cup {<<m, j>>} /\ pc'[m] \in {"store", "done"}
        BY <2>1, <1>p, <1>t DEF Announce
      <3> QED BY <3>1, <1>b DEF HandlerInv, AnnouncedLate
    <2>2. CASE ~Announce(m)
      <3>1. announced' = announced
        BY <2>2 DEF ProcessMessage, Enqueue, MarkEnroute, DeliverDirectly, UpdateStatus, StoreReport
      <3>2. pc[m] \in {"store", "announce", "done"} => pc'[m] \in {"store", "announce", "done"}
        BY <2>2, <1>t DEF ProcessMessage, Enqueue, MarkEnroute, DeliverDirectly, UpdateStatus,
           StoreReport
      <3> QED BY <3>1, <3>2, <1>b DEF HandlerInv, AnnouncedLate
    <2> QED BY <2>1, <2>2
  <1>6. StoredWasSubmitted' BY <1>b, <1>c DEF HandlerInv, StoredWasSubmitted
  <1>7. MultiPending' BY <1>a, <1>b, <1>c DEF HandlerInv, MultiPending, Id
  <1>8. CopyHonest' BY <1>a, <1>b, <1>c, <1>h, <1>t DEF HandlerInv, CopyHonest, Id
  <1> QED BY <1>1, <1>2, <1>3, <1>4, <1>5, <1>6, <1>7, <1>8 DEF HandlerInv

\* The first step of a query, replacement, cancellation or receipt keeps the invariant.
LEMMA CallBeginsInv == TypeOK /\ HandlerInv /\ CallBegins => HandlerInv'
  <1> SUFFICES ASSUME TypeOK, HandlerInv, CallBegins PROVE HandlerInv'
    OBVIOUS
  <1>t. /\ step \in [Callers -> Steps] /\ subject \in [Callers -> SUBSET Ids]
        /\ copy \in [Callers -> Statuses] /\ reports \in [Ids -> ReceiptStats \cup {"none"}]
        /\ nparts \in [Msgs -> 1 .. MaxParts]
    BY DEF TypeOK, StoreTypes, WorkTypes, CallTypes
  <1>a. /\ UNCHANGED <<sms, pc, nparts, part, announced, sent>>
    BY DEF CallBegins, HandleQuerySM, HandleReplaceSM, HandleCancelSM, Fetch, QueryUnknown,
           ReceiptStored, stores, work
  <1>1. AcceptedMeansQueued' /\ PartsInOrder' /\ SentOwn' /\ AnnouncedLate' /\ StoredWasSubmitted'
    BY <1>a DEF HandlerInv, AcceptedMeansQueued, PartsInOrder, SentOwn, AnnouncedLate,
                StoredWasSubmitted, HandedOn, PartId, Id
  <1>f. ASSUME NEW c \in Callers, NEW m \in Msgs, NEW op \in {"query", "replace", "cancel"},
               Fetch(c, m, op)
        PROVE HandlerInv'
    <2>1. /\ step' = [step EXCEPT ![c] = op]
          /\ subject' = [subject EXCEPT ![c] = {Id(m)}]
          /\ copy' = [copy EXCEPT ![c] = sms[m]]
          /\ sms[m] # "absent" /\ UNCHANGED reports
      BY <1>f DEF Fetch, Stored, stores
    <2>2. ReportedWasSent' BY <1>a, <2>1 DEF HandlerInv, ReportedWasSent
    <2>3. \A d \in Callers \ {c} : step'[d] = step[d] /\ subject'[d] = subject[d] /\ copy'[d] = copy[d]
      BY <2>1, <1>t
    <2>4. step'[c] = op /\ subject'[c] = {Id(m)} /\ copy'[c] = sms[m]
      BY <2>1, <1>t
    <2>5. MultiPending' BY <1>a, <2>3, <2>4 DEF HandlerInv, MultiPending
    <2>6. CopyHonest'
      <3>1. pc[m] \notin {"new", "pending"}
            /\ (sms[m] \in {"Accepted", "Split"} => HandedOn(m, nparts[m]))
        BY <2>1 DEF HandlerInv, StoredWasSubmitted, AcceptedMeansQueued
      <3>2. \A k \in Msgs : {Id(k)} = {Id(m)} => k = m BY SameId
      <3>3. \A k \in Msgs : HandedOn(k, nparts[k])' <=> HandedOn(k, nparts[k])
        BY <1>a DEF HandedOn, PartId, Id
      <3> QED BY <1>a, <2>3, <2>4, <3>1, <3>2, <3>3 DEF HandlerInv, CopyHonest
    <2> QED BY <1>1, <2>2, <2>5, <2>6 DEF HandlerInv
  <1>q. ASSUME NEW c \in Callers, NEW m \in Msgs, QueryUnknown(c, m) PROVE HandlerInv'
    BY <1>q, KeepInv DEF QueryUnknown, invVars, stores, work, calls
  <1>r. ASSUME NEW c \in Callers, NEW id \in Ids, NEW s \in GatewayStats, ReceiptStored(c, id, s)
        PROVE HandlerInv'
    <2>1. id \in sent /\ reports' = [reports EXCEPT ![id] = s]
      BY <1>r DEF ReceiptStored, Dequeued
    <2>2. ReportedWasSent' BY <1>a, <1>t, <2>1 DEF HandlerInv, ReportedWasSent
    <2>0. \/ /\ step' = [step EXCEPT ![c] = "receipt"]
             /\ subject' = [subject EXCEPT ![c] = {id}]
             /\ copy' = [copy EXCEPT ![c] = mapReceiptStatus[s]]
          \/ UNCHANGED <<step, subject, copy>> /\ step[c] = "idle"
      BY <1>r DEF ReceiptStored, calls
    <2>3. \A d \in Callers \ {c} : step'[d] = step[d] /\ subject'[d] = subject[d] /\ copy'[d] = copy[d]
      BY <2>0, <1>t
    <2>4. \/ step'[c] = "receipt" /\ subject'[c] = {id}
          \/ step'[c] = "idle"
      BY <2>0, <1>t
    <2>5. MultiPending' BY <1>a, <2>3, <2>4 DEF HandlerInv, MultiPending
    <2>6. CopyHonest'
      <3>3. \A k \in Msgs : HandedOn(k, nparts[k])' <=> HandedOn(k, nparts[k])
        BY <1>a DEF HandedOn, PartId, Id
      <3> QED BY <1>a, <2>1, <2>3, <2>4, <3>3 DEF HandlerInv, CopyHonest
    <2> QED BY <1>1, <2>2, <2>5, <2>6 DEF HandlerInv
  <1> QED BY <1>f, <1>q, <1>r DEF CallBegins, HandleQuerySM, HandleReplaceSM, HandleCancelSM

\* Every later step of a call keeps the invariant: the copy replace_sm writes back and the status
\* a receipt carries are covered by CopyHonest.
LEMMA CallStepInv ==
    ASSUME NEW c \in Callers PROVE TypeOK /\ HandlerInv /\ CallStep(c) => HandlerInv'
  <1> SUFFICES ASSUME TypeOK, HandlerInv, CallStep(c) PROVE HandlerInv'
    OBVIOUS
  <1>t. /\ step \in [Callers -> Steps] /\ subject \in [Callers -> SUBSET Ids]
        /\ copy \in [Callers -> Statuses] /\ sms \in [Msgs -> Statuses \cup {"absent"}]
        /\ nparts \in [Msgs -> 1 .. MaxParts] /\ pc \in [Msgs -> Places]
        /\ sent \subseteq Ids
    BY DEF TypeOK, StoreTypes, WorkTypes, CallTypes
  <1>a. UNCHANGED <<reports, nparts, part, announced, sent>>
    BY DEF CallStep, SubmitMultiNext, AnswerQuery, CheckReport, UpdateSMS, DeleteSMS,
           ReceiptApplied, stores, work
  <1>h. \A k \in Msgs : HandedOn(k, nparts[k])' <=> HandedOn(k, nparts[k])
    BY <1>a DEF HandedOn, PartId, Id
  <1>1. ASSUME NEW m \in Msgs, SubmitMultiNext(c, m) PROVE HandlerInv'
    <2>1. /\ step[c] = "multi" /\ Id(m) \in subject[c] /\ pc[m] = "pending" /\ sms[m] = "absent"
      BY <1>1 DEF SubmitMultiNext, HandlerInv, MultiPending, StoredWasSubmitted
    <2>2. /\ pc'[m] \in {"enqueue", "refused"} /\ sms'[m] \in {"Submitted", "absent"}
          /\ \A k \in Msgs \ {m} : pc'[k] = pc[k] /\ sms'[k] = sms[k]
      BY <1>1, <1>t, <2>1 DEF SubmitMultiNext, StoreSMS
    <2>3. /\ \A d \in Callers \ {c} : step'[d] = step[d] /\ subject'[d] = subject[d]
          /\ subject'[c] = subject[c] \ {Id(m)} /\ step'[c] \in {"idle", "multi"} /\ UNCHANGED copy
      BY <1>1, <1>t DEF SubmitMultiNext
    <2>4. AcceptedMeansQueued' BY <1>h, <2>2 DEF HandlerInv, AcceptedMeansQueued
    <2>5. PartsInOrder'
      <3>1. part[m] = 1 BY <2>1 DEF HandlerInv, PartsInOrder
      <3>2. HandedOn(m, part[m] - 1)' BY <1>a, <3>1 DEF HandedOn
      <3>3. \A k \in Msgs \ {m} :
              /\ HandedOn(k, part[k] - 1)' <=> HandedOn(k, part[k] - 1)
              /\ HandedOn(k, part[k])' <=> HandedOn(k, part[k])
        BY <1>a DEF HandedOn, PartId, Id
      <3> QED BY <1>a, <1>h, <2>2, <3>1, <3>2, <3>3 DEF HandlerInv, PartsInOrder
    <2>6. SentOwn' /\ AnnouncedLate' BY <1>a, <2>1, <2>2 DEF HandlerInv, SentOwn, AnnouncedLate
    <2>7. ReportedWasSent' BY <1>a DEF HandlerInv, ReportedWasSent
    <2>8. StoredWasSubmitted' BY <2>2 DEF HandlerInv, StoredWasSubmitted
    <2>9. MultiPending'
      <3>1. \A d \in Callers \ {c} : step[d] = "multi" => Id(m) \notin subject[d]
        BY <2>1 DEF HandlerInv, MultiPending
      <3> QED BY <2>1, <2>2, <2>3, <3>1 DEF HandlerInv, MultiPending, Id
    <2>10. CopyHonest' BY <1>a, <1>h, <2>2, <2>3 DEF HandlerInv, CopyHonest
    <2> QED BY <2>4, <2>5, <2>6, <2>7, <2>8, <2>9, <2>10 DEF HandlerInv
  <1>2. ASSUME UNCHANGED pc,
               \A d \in Callers \ {c} : step'[d] = step[d] /\ subject'[d] = subject[d] /\ copy'[d] = copy[d],
               step'[c] = "idle" \/ (/\ step[c] \in {"replace", "cancel"}
                                    /\ step'[c] \in {"update", "delete"}
                                    /\ UNCHANGED <<subject, copy>>),
               \A m \in Msgs :
                  \/ sms'[m] = sms[m] \/ sms'[m] = "absent"
                  \/ sms[m] # "absent" /\ (sms'[m] \in {"Accepted", "Split"} => HandedOn(m, nparts[m]))
        PROVE HandlerInv'
    <2>1. AcceptedMeansQueued' BY <1>2, <1>h DEF HandlerInv, AcceptedMeansQueued
    <2>2. PartsInOrder' /\ SentOwn' /\ AnnouncedLate' /\ ReportedWasSent'
      BY <1>2, <1>a DEF HandlerInv, PartsInOrder, SentOwn, AnnouncedLate, ReportedWasSent,
                        HandedOn, PartId, Id
    <2>3. StoredWasSubmitted' BY <1>2 DEF HandlerInv, StoredWasSubmitted
    <2>4. MultiPending' BY <1>2 DEF HandlerInv, MultiPending
    <2>5. CopyHonest' BY <1>2, <1>a, <1>h DEF HandlerInv, CopyHonest
    <2> QED BY <2>1, <2>2, <2>3, <2>4, <2>5 DEF HandlerInv
  <1>r. ASSUME Return(c)
        PROVE /\ \A d \in Callers \ {c} : step'[d] = step[d] /\ subject'[d] = subject[d] /\ copy'[d] = copy[d]
              /\ step'[c] = "idle"
    BY <1>r, <1>t DEF Return
  <1>3. ASSUME NEW m \in Msgs, AnswerQuery(c, m) PROVE HandlerInv'
    BY <1>3, <1>2, <1>r DEF AnswerQuery, stores, work
  <1>4. ASSUME NEW m \in Msgs, CheckReport(c, m) PROVE HandlerInv'
    <2>1. CASE Return(c) BY <1>4, <1>2, <1>r, <2>1 DEF CheckReport, stores, work
    <2>2. CASE ~Return(c)
      <3>1. /\ \A d \in Callers \ {c} : step'[d] = step[d]
            /\ step[c] \in {"replace", "cancel"} /\ step'[c] \in {"update", "delete"}
            /\ UNCHANGED <<subject, copy, pc, sms>>
        BY <1>4, <2>2, <1>t DEF CheckReport, stores, work
      <3> QED BY <1>2, <3>1
    <2> QED BY <2>1, <2>2
  <1>5. ASSUME NEW m \in Msgs, UpdateSMS(c, m) PROVE HandlerInv'
    <2>1. copy[c] \in {"Accepted", "Split"} => HandedOn(m, nparts[m])
      BY <1>5 DEF UpdateSMS, HandlerInv, CopyHonest
    <2>2. \A k \in Msgs : sms'[k] = sms[k] \/ (k = m /\ sms[k] # "absent" /\ sms'[k] = copy[c])
      BY <1>5, <1>t DEF UpdateSMS
    <2> QED BY <1>5, <1>2, <1>r, <2>1, <2>2 DEF UpdateSMS, work
  <1>6. ASSUME NEW m \in Msgs, DeleteSMS(c, m) PROVE HandlerInv'
    <2>1. \A k \in Msgs : sms'[k] = sms[k] \/ sms'[k] = "absent" BY <1>6, <1>t DEF DeleteSMS
    <2> QED BY <1>6, <1>2, <1>r, <2>1 DEF DeleteSMS, work
  <1>7. CASE ReceiptApplied(c)
    <2>1. ASSUME NEW k \in Msgs
          PROVE sms'[k] = sms[k] \/ (sms[k] # "absent" /\ HandedOn(k, nparts[k]))
      <3>1. CASE Id(k) \in subject[c] /\ Stored(k)
        <4>1. Id(k) \in sent BY <1>7, <3>1 DEF ReceiptApplied, HandlerInv, CopyHonest
        <4>2. nparts[k] = 1 BY <4>1, PartsAssumption DEF HandlerInv, SentOwn, Id
        <4> QED BY <3>1, <4>1, <4>2 DEF HandedOn, PartId, Stored
      <3>2. CASE ~(Id(k) \in subject[c] /\ Stored(k)) BY <1>7, <3>2 DEF ReceiptApplied
      <3> QED BY <3>1, <3>2
    <2> QED BY <1>7, <1>2, <1>r, <2>1 DEF ReceiptApplied, work
  <1> QED BY <1>1, <1>3, <1>4, <1>5, <1>6, <1>7 DEF CallStep

\* HandlerInv is inductive.
LEMMA NextInv == TypeOK /\ HandlerInv /\ [Next]_vars => HandlerInv'
  <1> SUFFICES ASSUME TypeOK, HandlerInv, [Next]_vars PROVE HandlerInv'
    OBVIOUS
  <1>1. CASE Submission
    BY <1>1, SubmitInv, DeliveryInv, MultiBeginsInv DEF Submission, HandleSubmitSM, HandleDataSM
  <1>2. ASSUME NEW m \in Msgs, ProcessMessage(m) PROVE HandlerInv' BY <1>2, ProcessInv
  <1>3. CASE CallBegins BY <1>3, CallBeginsInv
  <1>4. ASSUME NEW c \in Callers, CallStep(c) PROVE HandlerInv' BY <1>4, CallStepInv
  <1>5. CASE Gateway
    BY <1>5, KeepInv DEF Gateway, DequeueMessage, UpdateMessageStatus, invVars, stores, work, calls
  <1>6. CASE UNCHANGED vars
    BY <1>6, KeepInv DEF vars, invVars, stores, work
  <1> QED BY <1>1, <1>2, <1>3, <1>4, <1>5, <1>6 DEF Next

-----------------------------------------------------------------------------
(* The theorems *)

\* The invariant and the types hold in every behaviour.
LEMMA InvHolds == Spec => [](TypeOK /\ HandlerInv)
  <1> QED BY InitType, InitInv, NextType, NextInv, PTL DEF Spec

\* A message the store shows as accepted or split has left the handler completely, whatever the
\* interleaving of ProcessMessage, receipts and stale replacements (message_handler.go:919-944).
THEOREM AcceptedMeansQueuedHolds == Spec => []AcceptedMeansQueued
  <1>1. HandlerInv => AcceptedMeansQueued BY DEF HandlerInv
  <1> QED BY <1>1, InvHolds, PTL

\* query_sm never answers "delivered" for a message that has not left completely
\* (message_handler.go:256).
THEOREM QueryNotAheadHolds == Spec => QueryNotAhead
  <1>1. ASSUME TypeOK, HandlerInv, [Next]_vars, NEW c \in Callers, NEW m \in Msgs,
               step[c] = "query", step'[c] = "idle", subject[c] = {Id(m)}, answer' = 3
        PROVE HandedOn(m, nparts[m])
    <2>t. step \in [Callers -> Steps] BY <1>1 DEF TypeOK, CallTypes
    <2>1. PICK k \in Msgs : AnswerQuery(c, k)
      <3>1. CASE Submission
        BY <1>1, <2>t, <3>1 DEF Submission, HandleSubmitSM, HandleDataSM, Submit, HandleSMSDelivery,
           SubmitMultiBegins, calls
      <3>2. ASSUME NEW k \in Msgs, ProcessMessage(k) PROVE FALSE
        BY <1>1, <3>2 DEF ProcessMessage, Enqueue, MarkEnroute, DeliverDirectly, UpdateStatus,
           StoreReport, Announce, calls
      <3>3. CASE CallBegins
        <4>1. \E d \in Callers : step[d] = "idle" /\ (UNCHANGED step \/ \E x \in Steps : step' = [step EXCEPT ![d] = x])
          BY <3>3 DEF CallBegins, HandleQuerySM, HandleReplaceSM, HandleCancelSM, Fetch,
             QueryUnknown, ReceiptStored, calls, Steps
        <4> QED BY <1>1, <2>t, <4>1
      <3>4. ASSUME NEW d \in Callers, CallStep(d), \A k \in Msgs : ~AnswerQuery(c, k) PROVE FALSE
        <4>1. step[d] # "query" \/ \E k \in Msgs : AnswerQuery(d, k)
          BY <3>4 DEF CallStep, SubmitMultiNext, CheckReport, UpdateSMS, DeleteSMS, ReceiptApplied
        <4>2. \E x \in Steps : step' = [step EXCEPT ![d] = x]
          BY <3>4, <2>t DEF CallStep, SubmitMultiNext, AnswerQuery, CheckReport, UpdateSMS, DeleteSMS,
             ReceiptApplied, Return, Steps
        <4> QED BY <1>1, <2>t, <3>4, <4>1, <4>2
      <3>5. CASE Gateway
        BY <1>1, <3>5 DEF Gateway, DequeueMessage, UpdateMessageStatus, calls
      <3>6. CASE UNCHANGED vars BY <1>1, <3>6 DEF vars, calls
      <3> QED BY <1>1, <3>1, <3>2, <3>3, <3>4, <3>5, <3>6 DEF Next
    <2>2. k = m /\ queryState[reports[Id(m)]] = 3
      BY <1>1, <2>1, SameId DEF AnswerQuery
    <2>3. reports[Id(m)] # "none" BY <2>2, QueryStateType
    <2>4. Id(m) \in sent BY <1>1, <2>3, IdTypes DEF HandlerInv, ReportedWasSent
    <2>5. nparts[m] = 1 BY <1>1, <2>4, PartsAssumption DEF HandlerInv, SentOwn, Id
    <2> QED BY <2>4, <2>5 DEF HandedOn, PartId
  <1>2. TypeOK /\ HandlerInv /\ [Next]_vars
          => [\A c \in Callers, m \in Msgs :
                step[c] = "query" /\ step'[c] = "idle" /\ subject[c] = {Id(m)} /\ answer' = 3
                    => HandedOn(m, nparts[m])]_vars
    BY <1>1
  <1> QED BY <1>2, InvHolds, PTL DEF Spec, QueryNotAhead

\* No step stores a message again that was submitted before and is gone.
LEMMA GoneStaysGone ==
    ASSUME TypeOK, HandlerInv, [Next]_vars, NEW m \in Msgs,
           pc[m] \notin {"new", "pending"}, sms[m] = "absent"
    PROVE sms'[m] = "absent"
  <1>t. sms \in [Msgs -> Statuses \cup {"absent"}] BY DEF TypeOK, StoreTypes
  <1>1. CASE Submission
    BY <1>1, <1>t DEF Submission, HandleSubmitSM, HandleDataSM, Submit, HandleSMSDelivery, StoreSMS,
                      SubmitMultiBegins, stores
  <1>2. ASSUME NEW k \in Msgs, ProcessMessage(k) PROVE sms'[m] = "absent"
    BY <1>2, <1>t DEF ProcessMessage, Enqueue, MarkEnroute, DeliverDirectly, UpdateStatus,
                      StoreReport, Announce, UpdateSMSStatus, Stored, stores
  <1>3. CASE CallBegins
    BY <1>3 DEF CallBegins, HandleQuerySM, HandleReplaceSM, HandleCancelSM, Fetch, QueryUnknown,
                ReceiptStored, stores
  <1>4. ASSUME NEW c \in Callers, CallStep(c) PROVE sms'[m] = "absent"
    <2>1. ASSUME NEW k \in Msgs, SubmitMultiNext(c, k) PROVE sms'[m] = "absent"
      <3>1. pc[k] = "pending" BY <2>1 DEF SubmitMultiNext, HandlerInv, MultiPending
      <3> QED BY <2>1, <3>1, <1>t DEF SubmitMultiNext, StoreSMS
    <2>2. ASSUME NEW k \in Msgs, AnswerQuery(c, k) \/ CheckReport(c, k) PROVE sms'[m] = "absent"
      BY <2>2 DEF AnswerQuery, CheckReport, stores
    <2>3. ASSUME NEW k \in Msgs, UpdateSMS(c, k) \/ DeleteSMS(c, k) PROVE sms'[m] = "absent"
      BY <2>3, <1>t DEF UpdateSMS, DeleteSMS
    <2>4. CASE ReceiptApplied(c) BY <2>4 DEF ReceiptApplied, Stored
    <2> QED BY <1>4, <2>1, <2>2, <2>3, <2>4 DEF CallStep
  <1>5. CASE Gateway BY <1>5 DEF Gateway, DequeueMessage, UpdateMessageStatus, stores
  <1>6. CASE UNCHANGED vars BY <1>6 DEF vars, stores
  <1> QED BY <1>1, <1>2, <1>3, <1>4, <1>5, <1>6 DEF Next

\* A deleted message is never stored again, by no stale write of replace_sm, receipt or
\* ProcessMessage (memory.go:85, memory.go:111).
THEOREM CancelIsFinalHolds == Spec => CancelIsFinal
  <1>1. TypeOK /\ HandlerInv /\ [Next]_vars
          => [\A m \in Msgs : pc[m] \notin {"new", "pending"} /\ sms[m] = "absent"
                                 => sms'[m] = "absent"]_vars
    BY GoneStaysGone
  <1> QED BY <1>1, InvHolds, PTL DEF Spec, CancelIsFinal

\* A message cancelled before step 4 of its ProcessMessage stays there or is given up.
Silenced(m) ==
    /\ sms[m] = "absent" /\ pc[m] \in {"enqueue", "mark", "status", "failed"}

\* No step leads out of that situation.
LEMMA SilencedStays ==
    ASSUME TypeOK, HandlerInv, [Next]_vars, NEW m \in Msgs, Silenced(m)
    PROVE Silenced(m)'
  <1>1. sms'[m] = "absent" BY GoneStaysGone DEF Silenced
  <1>2. pc'[m] \in {"enqueue", "mark", "status", "failed"}
    <2>t. pc \in [Msgs -> Places] BY DEF TypeOK, WorkTypes
    <2>1. CASE Submission
      <3>1. CASE \E c \in Callers : SubmitMultiBegins(c)
        BY <3>1, <2>t DEF SubmitMultiBegins, Silenced
      <3> QED BY <2>1, <3>1, <2>t DEF Submission, HandleSubmitSM, HandleDataSM, Submit,
                                    HandleSMSDelivery, Silenced
    <2>2. ASSUME NEW k \in Msgs, ProcessMessage(k) PROVE pc'[m] \in {"enqueue", "mark", "status", "failed"}
      BY <2>2, <2>t DEF ProcessMessage, Enqueue, MarkEnroute, DeliverDirectly, UpdateStatus, NextPart,
                        StoreReport, Announce, UpdateSMSStatus, Stored, Silenced
    <2>3. CASE CallBegins
      BY <2>3 DEF CallBegins, HandleQuerySM, HandleReplaceSM, HandleCancelSM, Fetch, QueryUnknown,
                  ReceiptStored, work, Silenced
    <2>4. ASSUME NEW c \in Callers, CallStep(c) PROVE pc'[m] \in {"enqueue", "mark", "status", "failed"}
      <3>1. ASSUME NEW k \in Msgs, SubmitMultiNext(c, k)
            PROVE pc'[m] \in {"enqueue", "mark", "status", "failed"}
        <4>1. pc[k] = "pending" BY <3>1 DEF SubmitMultiNext, HandlerInv, MultiPending
        <4> QED BY <3>1, <4>1, <2>t DEF SubmitMultiNext, Silenced
      <3> QED BY <2>4, <3>1 DEF CallStep, AnswerQuery, CheckReport, UpdateSMS, DeleteSMS,
                                ReceiptApplied, work, Silenced
    <2>5. CASE Gateway BY <2>5 DEF Gateway, DequeueMessage, UpdateMessageStatus, work, Silenced
    <2>6. CASE UNCHANGED vars BY <2>6 DEF vars, work, Silenced
    <2> QED BY <2>1, <2>2, <2>3, <2>4, <2>5, <2>6 DEF Next
  <1> QED BY <1>1, <1>2 DEF Silenced

\* A cancel_sm that comes before step 4 of ProcessMessage suppresses all reports, for good
\* (message_handler.go:939).
THEOREM NoReceiptAfterCancelHolds == Spec => NoReceiptAfterCancel
  <1> SUFFICES ASSUME NEW m \in Msgs
               PROVE Spec => [](pc[m] \in {"enqueue", "mark", "status"} /\ sms[m] = "absent" =>
                                   [](PartIds(m) \cap announced = {}))
    BY DEF NoReceiptAfterCancel
  <1> DEFINE Cancelled == pc[m] \in {"enqueue", "mark", "status"} /\ sms[m] = "absent"
             Quiet == PartIds(m) \cap announced = {}
  <1>1. Cancelled => Silenced(m) BY DEF Silenced
  <1>2. TypeOK /\ HandlerInv /\ Silenced(m) /\ [Next]_vars => Silenced(m)' BY SilencedStays
  <1>3. TypeOK /\ HandlerInv /\ Silenced(m) => Quiet
    <2> SUFFICES ASSUME TypeOK, HandlerInv, Silenced(m), NEW id \in PartIds(m), id \in announced
                 PROVE FALSE
      OBVIOUS
    <2>1. PICK i \in 1 .. nparts[m] : id = PartId(m, i) BY DEF PartIds
    <2>2. i \in 1 .. MaxParts BY PartsAssumption DEF TypeOK, WorkTypes
    <2>3. PICK j \in 0 .. MaxParts : id = <<m, j>> BY <2>1, <2>2, PartIdShape
    <2> QED BY <2>3 DEF HandlerInv, AnnouncedLate, Silenced
  <1> HIDE DEF Cancelled, Quiet
  <1>4. Spec => [](Cancelled => []Quiet)
    BY <1>1, <1>2, <1>3, InvHolds, PTL DEF Spec
  <1> QED BY <1>4 DEF Cancelled, Quiet

-----------------------------------------------------------------------------
(* Reports: ReportsInOrder on top of HandlerInv *)

\* Reports, queue entries and announcements are never taken back.
Growing ==
    /\ announced \subseteq announced'
    /\ \A id \in Ids : /\ reports[id] # "none" => reports'[id] # "none"
                       /\ qstatus[id] # "none" => qstatus'[id] # "none"

\* What is reported and known of a message stays so while it is not split anew.
LEMMA ReportedStays ==
    ASSUME TypeOK, Growing, NEW m \in Msgs, nparts'[m] = nparts[m]
    PROVE  Reported(m) \subseteq Reported(m)' /\ Known(m) \subseteq Known(m)'
  <1>1. ASSUME NEW i \in 1 .. nparts[m] PROVE PartId(m, i) \in Ids
    BY IdTypes, PartsAssumption DEF TypeOK, WorkTypes
  <1>2. ASSUME NEW i \in Reported(m) PROVE i \in Reported(m)'
    <2>1. PartId(m, i)' = PartId(m, i) BY DEF PartId, Id
    <2>2. i \in 1 .. nparts[m] /\ PartId(m, i) \in announced /\ reports[PartId(m, i)] # "none"
      BY DEF Reported
    <2>3. PartId(m, i)' \in announced' /\ reports'[PartId(m, i)'] # "none"
      BY <1>1, <2>1, <2>2 DEF Growing
    <2> QED BY <2>2, <2>3 DEF Reported
  <1>3. ASSUME NEW i \in Known(m) PROVE i \in Known(m)'
    <2>1. PartId(m, i)' = PartId(m, i) BY DEF PartId, Id
    <2>2. i \in 1 .. nparts[m] /\ qstatus[PartId(m, i)] # "none" BY DEF Known
    <2>3. qstatus'[PartId(m, i)'] # "none" BY <1>1, <2>1, <2>2 DEF Growing
    <2> QED BY <2>2, <2>3 DEF Known
  <1> QED BY <1>2, <1>3

\* A step that leaves a message alone, and announces nothing of it, keeps its reports in order.
LEMMA ReportsStay ==
    ASSUME TypeOK, Growing, NEW m \in Msgs, ReportsOf(m),
           nparts'[m] = nparts[m], part'[m] = part[m], pc'[m] = pc[m], registered'[m] = registered[m],
           \A i \in 0 .. MaxParts : <<m, i>> \in announced' => <<m, i>> \in announced
    PROVE  ReportsOf(m)'
  <1>1. Reported(m) \subseteq Reported(m)' /\ Known(m) \subseteq Known(m)' BY ReportedStays
  <1>2. reports[PartId(m, part[m])] # "none" => (reports[PartId(m, part[m])])' # "none"
    <2>1. PartId(m, part[m]) \in Ids BY IdTypes DEF TypeOK, WorkTypes
    <2>2. PartId(m, part[m])' = PartId(m, part[m]) BY DEF PartId, Id
    <2> QED BY <2>1, <2>2 DEF Growing
  <1> QED BY <1>1, <1>2 DEF ReportsOf

\* A message of which nothing has been announced and whose processing is only about to begin.
LEMMA ReportsFresh ==
    ASSUME NEW m \in Msgs, part'[m] = 1, pc'[m] \in {"pending", "refused", "incoming", "enqueue"},
           \A i \in 0 .. MaxParts : <<m, i>> \notin announced'
    PROVE  ReportsOf(m)'
  <1>1. \A i \in 1 .. (part'[m] - 1) : FALSE OBVIOUS
  <1> QED BY <1>1 DEF ReportsOf

LEMMA NoneIsNoStatus == "none" \notin ReceiptStats BY ReceiptStatusType

LEMMA ReportsInit == Init => ReportsInOrder
  <1> SUFFICES ASSUME Init, NEW m \in Msgs PROVE ReportsOf(m)
    BY DEF ReportsInOrder
  <1>1. pc[m] = "new" /\ \A i \in 0 .. MaxParts : <<m, i>> \notin announced BY DEF Init
  <1> QED BY <1>1 DEF ReportsOf

LEMMA SubmissionReports == TypeOK /\ HandlerInv /\ ReportsInOrder /\ Submission => ReportsInOrder'
  <1> SUFFICES ASSUME TypeOK, HandlerInv, ReportsInOrder, Submission, NEW k \in Msgs
               PROVE  ReportsOf(k)'
    BY DEF ReportsInOrder
  <1> USE DEF TypeOK, WorkTypes, StoreTypes
  <1>1. UNCHANGED <<reports, qstatus, part, announced>>
    BY DEF Submission, HandleSubmitSM, HandleDataSM, Submit, HandleSMSDelivery, SubmitMultiBegins,
           stores, queueVars
  <1>2. Growing BY <1>1 DEF Growing
  <1>3. \/ /\ nparts'[k] = nparts[k] /\ pc'[k] = pc[k] /\ registered'[k] = registered[k]
        \/ pc[k] = "new" /\ pc'[k] \in {"pending", "incoming", "enqueue"}
    BY DEF Submission, HandleSubmitSM, HandleDataSM, Submit, HandleSMSDelivery, SubmitMultiBegins
  <1>4. CASE nparts'[k] = nparts[k] /\ pc'[k] = pc[k] /\ registered'[k] = registered[k]
    BY <1>1, <1>2, <1>4, ReportsStay DEF ReportsInOrder
  <1>5. CASE pc[k] = "new" /\ pc'[k] \in {"pending", "incoming", "enqueue"}
    <2>1. part[k] = 1 /\ \A i \in 0 .. MaxParts : <<k, i>> \notin announced
      BY <1>5 DEF HandlerInv, PartsInOrder, AnnouncedLate
    <2> QED BY <1>1, <1>5, <2>1, ReportsFresh
  <1> QED BY <1>3, <1>4, <1>5

\* The calls of query_sm, replace_sm and cancel_sm, receipts and the gateway.
LEMMA CallReports ==
    ASSUME TypeOK, HandlerInv, ReportsInOrder,
           CallBegins \/ (\E c \in Callers : CallStep(c)) \/ Gateway \/ UNCHANGED vars
    PROVE  ReportsInOrder'
  <1> SUFFICES ASSUME NEW k \in Msgs PROVE ReportsOf(k)'
    BY DEF ReportsInOrder
  <1>t. reports \in [Ids -> ReceiptStats \cup {"none"}] /\ pc \in [Msgs -> Places]
        /\ qstatus \in [Ids -> {"none", "Enroute", "Delivered"}]
    BY DEF TypeOK, StoreTypes, WorkTypes, QueueTypes
  <1>1. ASSUME UNCHANGED work, Growing PROVE ReportsOf(k)'
    BY <1>1, ReportsStay DEF ReportsInOrder, work
  <1>2. ASSUME UNCHANGED <<reports, qstatus, announced>> PROVE Growing BY <1>2 DEF Growing
  <1>3. CASE CallBegins
    <2>1. UNCHANGED <<work, qstatus>>
      BY <1>3 DEF CallBegins, HandleQuerySM, HandleReplaceSM, HandleCancelSM, Fetch, QueryUnknown,
                  ReceiptStored, queueVars
    <2>2. UNCHANGED reports \/ \E id \in Ids, s \in GatewayStats : reports' = [reports EXCEPT ![id] = s]
      BY <1>3 DEF CallBegins, HandleQuerySM, HandleReplaceSM, HandleCancelSM, Fetch, QueryUnknown,
                  ReceiptStored, stores
    <2>3. Growing BY <1>t, <2>1, <2>2, GatewayAssumption, NoneIsNoStatus DEF Growing, work
    <2> QED BY <1>1, <2>1, <2>3
  <1>4. ASSUME NEW c \in Callers, CallStep(c) PROVE ReportsOf(k)'
    <2>1. UNCHANGED <<reports, qstatus, announced, nparts, part, registered>>
      BY <1>4 DEF CallStep, SubmitMultiNext, AnswerQuery, CheckReport, UpdateSMS, DeleteSMS,
                  ReceiptApplied, stores, queueVars, work
    <2>2. \/ UNCHANGED work
          \/ \E m \in Msgs : SubmitMultiNext(c, m)
      BY <1>4 DEF CallStep, AnswerQuery, CheckReport, UpdateSMS, DeleteSMS, ReceiptApplied
    <2>3. ASSUME NEW m \in Msgs, SubmitMultiNext(c, m) PROVE ReportsOf(k)'
      <3>1. pc[m] = "pending" BY <2>3 DEF SubmitMultiNext, HandlerInv, MultiPending
      <3>2. IF k = m THEN pc'[k] \in {"enqueue", "refused"} ELSE pc'[k] = pc[k]
        BY <1>t, <2>3 DEF SubmitMultiNext
      <3>3. CASE k = m
        <4>1. part[k] = 1 /\ \A i \in 0 .. MaxParts : <<k, i>> \notin announced
          BY <3>1, <3>3 DEF HandlerInv, PartsInOrder, AnnouncedLate
        <4> QED BY <2>1, <3>2, <3>3, <4>1, ReportsFresh
      <3>4. CASE k # m BY <1>2, <2>1, <3>2, <3>4, ReportsStay DEF ReportsInOrder
      <3> QED BY <3>3, <3>4
    <2> QED BY <1>1, <1>2, <2>1, <2>2, <2>3
  <1>5. CASE Gateway
    <2>1. UNCHANGED <<work, reports>>
      BY <1>5 DEF Gateway, DequeueMessage, UpdateMessageStatus, stores
    <2>2. UNCHANGED qstatus \/ \E id \in Ids : qstatus' = [qstatus EXCEPT ![id] = "Delivered"]
      BY <1>5 DEF Gateway, DequeueMessage, UpdateMessageStatus
    <2>3. Growing BY <1>t, <2>1, <2>2 DEF Growing, work
    <2> QED BY <1>1, <2>1, <2>3
  <1>6. CASE UNCHANGED vars
    BY <1>1, <1>2, <1>6 DEF vars, stores, queueVars, work
  <1> QED BY <1>3, <1>4, <1>5, <1>6

\* The steps of a ProcessMessage goroutine, for its own message.
LEMMA ProcessReports ==
    ASSUME TypeOK, HandlerInv, ReportsInOrder, NEW m \in Msgs, ProcessMessage(m)
    PROVE  ReportsInOrder'
  <1>t. /\ reports \in [Ids -> ReceiptStats \cup {"none"}] /\ pc \in [Msgs -> Places]
        /\ qstatus \in [Ids -> {"none", "Enroute", "Delivered"}]
        /\ part \in [Msgs -> 1 .. MaxParts] /\ nparts \in [Msgs -> 1 .. MaxParts] /\ MaxParts \in Nat
    BY PartsAssumption DEF TypeOK, StoreTypes, WorkTypes, QueueTypes
  <1>d. PICK p \in 1 .. MaxParts, n \in 1 .. MaxParts : p = part[m] /\ n = nparts[m]
    BY <1>t
  <1>p. /\ p \in 1 .. n /\ n \in 1 .. MaxParts /\ p \in 1 .. MaxParts /\ PartId(m, p) \in Ids
        /\ \A i \in 1 .. n : i \in 1 .. MaxParts
        /\ \A i \in 1 .. (p - 1) : i \in 1 .. MaxParts
    BY <1>d, <1>t, IdTypes DEF HandlerInv, PartsInOrder
  <1>u. UNCHANGED <<nparts, registered>>
    BY DEF ProcessMessage, Enqueue, MarkEnroute, DeliverDirectly, UpdateStatus, StoreReport, Announce
  <1>a. \/ UNCHANGED announced
        \/ pc[m] = "announce" /\ announced' = announced \cup {PartId(m, p)}
    BY <1>d DEF ProcessMessage, Enqueue, MarkEnroute, DeliverDirectly, UpdateStatus, StoreReport, Announce
  <1>g. Growing
    <2>1. UNCHANGED reports \/ reports' = [reports EXCEPT ![PartId(m, p)] = mapMessageStatus["Delivered"]]
      BY <1>d DEF ProcessMessage, Enqueue, MarkEnroute, DeliverDirectly, UpdateStatus, StoreReport, Announce,
             stores
    <2>2. UNCHANGED qstatus \/ qstatus' = [qstatus EXCEPT ![PartId(m, p)] = "Enroute"]
      BY <1>d DEF ProcessMessage, Enqueue, MarkEnroute, DeliverDirectly, UpdateStatus, StoreReport, Announce,
             queueVars
    <2>3. mapMessageStatus["Delivered"] # "none" BY DeliveredStatusType, NoneIsNoStatus
    <2> QED BY <1>t, <1>a, <2>1, <2>2, <2>3 DEF Growing
  <1>s. Reported(m) \subseteq Reported(m)' /\ Known(m) \subseteq Known(m)'
    BY <1>g, <1>d, <1>u, ReportedStays
  <1>i. PartId(m, p)' = PartId(m, p) BY <1>u DEF PartId, Id
  <1>f. PICK j \in 0 .. MaxParts : PartId(m, p) = <<m, j>> BY <1>p, PartIdShape
  <1>1. ASSUME NEW k \in Msgs, k # m PROVE ReportsOf(k)'
    <2>1. pc'[k] = pc[k] /\ part'[k] = part[k]
      BY <1>t, <1>1 DEF ProcessMessage, Enqueue, MarkEnroute, DeliverDirectly, UpdateStatus, StoreReport,
             Announce, NextPart
    <2>2. \A i \in 0 .. MaxParts : <<k, i>> # <<m, j>> BY <1>1
    <2>3. \A i \in 0 .. MaxParts : <<k, i>> \in announced' => <<k, i>> \in announced
      BY <1>a, <1>f, <2>2
    <2> QED BY <1>g, <1>u, <2>1, <2>3, ReportsStay DEF ReportsInOrder
  <1>o. ReportsOf(m) BY DEF ReportsInOrder
  <1>r. \A i \in 0 .. MaxParts : <<m, i>> \in announced' => registered'[m]
    BY <1>a, <1>o, <1>u DEF ReportsOf
  <1>k. nparts'[m] = n /\ (registered'[m] <=> registered[m]) BY <1>d, <1>u
  <1>2. ASSUME Enqueue(m) PROVE ReportsOf(m)'
    <2>1. part'[m] = p /\ pc'[m] \in {"mark", "failed"} /\ pc[m] = "enqueue"
      BY <1>2, <1>d, <1>t DEF Enqueue
    <2>2. WithQueue => 1 .. (p - 1) \subseteq Known(m)'
      BY <1>d, <1>o, <1>p, <1>s, <2>1 DEF ReportsOf
    <2> QED BY <1>r, <2>1, <2>2 DEF ReportsOf
  <1>n. ASSUME NextPart(m)
        PROVE  \/ p < n /\ pc'[m] = "enqueue" /\ part'[m] = p + 1
               \/ p = n /\ pc'[m] = "status" /\ part'[m] = 1
    BY <1>d, <1>n, <1>t, <1>p DEF NextPart
  <1>3. ASSUME MarkEnroute(m) PROVE ReportsOf(m)'
    <2>1. NextPart(m) /\ pc[m] = "mark" /\ qstatus' = [qstatus EXCEPT ![PartId(m, p)] = "Enroute"]
      BY <1>3, <1>d DEF MarkEnroute
    <2>2. p \in Known(m)' BY <1>i, <1>k, <1>p, <1>t, <2>1 DEF Known
    <2>3. WithQueue => 1 .. (p - 1) \subseteq Known(m)'
      BY <1>d, <1>o, <1>p, <1>s, <2>1 DEF ReportsOf
    <2>4. \A i \in 1 .. p : i = p \/ i \in 1 .. (p - 1) BY <1>p
    <2>5. WithQueue => 1 .. p \subseteq Known(m)' BY <2>2, <2>3, <2>4
    <2>6. CASE p < n /\ pc'[m] = "enqueue" /\ part'[m] = p + 1
      <3>1. part'[m] - 1 = p BY <2>6
      <3> QED BY <1>r, <2>5, <2>6, <3>1 DEF ReportsOf
    <2>7. CASE p = n /\ pc'[m] = "status" /\ part'[m] = 1
      BY <1>k, <1>r, <2>5, <2>7 DEF ReportsOf
    <2> QED BY <1>n, <2>1, <2>6, <2>7
  <1>4. ASSUME DeliverDirectly(m) PROVE ReportsOf(m)'
    <2>1. ~WithQueue /\ (NextPart(m) \/ pc'[m] = "failed") BY <1>4, <1>t DEF DeliverDirectly
    <2>2. pc'[m] \in {"enqueue", "status", "failed"} BY <1>n, <2>1
    <2> QED BY <1>r, <2>1, <2>2 DEF ReportsOf
  <1>5. ASSUME UpdateStatus(m) PROVE ReportsOf(m)'
    <2>1. part'[m] = p /\ pc[m] = "status"
          /\ pc'[m] \in {IF registered[m] THEN "store" ELSE "done", "failed"}
      BY <1>5, <1>d, <1>t DEF UpdateStatus
    <2>2. p = 1 BY <1>d, <2>1 DEF HandlerInv, PartsInOrder
    <2>3. WithQueue => 1 .. n \subseteq Known(m)'
      BY <1>d, <1>o, <1>p, <1>s, <2>1 DEF ReportsOf
    <2>4. 1 .. (part'[m] - 1) = {} BY <2>1, <2>2
    <2>5. CASE registered[m] /\ pc'[m] = "store"
      BY <1>k, <1>r, <2>3, <2>4, <2>5 DEF ReportsOf
    <2>6. CASE ~registered[m] /\ pc'[m] = "done"
      BY <1>k, <1>r, <2>3, <2>6 DEF ReportsOf
    <2>7. CASE pc'[m] = "failed" BY <1>r, <2>7 DEF ReportsOf
    <2> QED BY <2>1, <2>5, <2>6, <2>7
  <1>6. ASSUME StoreReport(m) PROVE ReportsOf(m)'
    <2>1. /\ part'[m] = p /\ pc[m] = "store" /\ pc'[m] = "announce"
          /\ reports' = [reports EXCEPT ![PartId(m, p)] = mapMessageStatus["Delivered"]]
      BY <1>6, <1>d, <1>t DEF StoreReport
    <2>2. mapMessageStatus["Delivered"] # "none" BY DeliveredStatusType, NoneIsNoStatus
    <2>3. (reports[PartId(m, part[m])])' # "none"
      <3>1. PartId(m, part[m])' = PartId(m, p) BY <1>k, <1>d, <2>1 DEF PartId, Id
      <3> QED BY <1>p, <1>t, <2>1, <2>2, <3>1
    <2>4. registered[m] /\ 1 .. (p - 1) \subseteq Reported(m)'
      BY <1>d, <1>o, <1>p, <1>s, <2>1 DEF ReportsOf
    <2>5. WithQueue => 1 .. n \subseteq Known(m)'
      BY <1>d, <1>o, <1>p, <1>s, <2>1 DEF ReportsOf
    <2> QED BY <1>k, <1>r, <2>1, <2>3, <2>4, <2>5 DEF ReportsOf
  <1>7. ASSUME Announce(m) PROVE ReportsOf(m)'
    <2>1. /\ pc[m] = "announce" /\ announced' = announced \cup {PartId(m, p)} /\ UNCHANGED reports
          /\ \/ p < n /\ pc'[m] = "store" /\ part'[m] = p + 1
             \/ p = n /\ pc'[m] = "done" /\ part'[m] = p
      BY <1>7, <1>d, <1>p, <1>t DEF Announce, stores
    <2>2. p \in Reported(m)'
      <3>1. reports[PartId(m, p)] # "none" BY <1>d, <1>o, <2>1 DEF ReportsOf
      <3> QED BY <1>i, <1>k, <1>p, <2>1, <3>1 DEF Reported
    <2>3. registered[m] /\ 1 .. (p - 1) \subseteq Reported(m)'
      BY <1>d, <1>o, <1>p, <1>s, <2>1 DEF ReportsOf
    <2>4. \A i \in 1 .. p : i = p \/ i \in 1 .. (p - 1) BY <1>p
    <2>5. 1 .. p \subseteq Reported(m)' BY <2>2, <2>3, <2>4
    <2>6. WithQueue => 1 .. n \subseteq Known(m)'
      BY <1>d, <1>o, <1>p, <1>s, <2>1 DEF ReportsOf
    <2>7. CASE p < n /\ pc'[m] = "store" /\ part'[m] = p + 1
      <3>1. part'[m] - 1 = p BY <2>7
      <3> QED BY <1>k, <1>r, <2>3, <2>5, <2>6, <2>7, <3>1 DEF ReportsOf
    <2>8. CASE p = n /\ pc'[m] = "done" /\ part'[m] = p
      BY <1>k, <1>r, <2>5, <2>6, <2>8 DEF ReportsOf
    <2> QED BY <2>1, <2>7, <2>8
  <1>8. ReportsOf(m)' BY <1>2, <1>3, <1>4, <1>5, <1>6, <1>7 DEF ProcessMessage
  <1>9. \A k \in Msgs : ReportsOf(k)' BY <1>1, <1>8
  <1> QED BY <1>9 DEF ReportsInOrder

\* ReportsInOrder holds in every reachable state.
LEMMA ReportsHold == Spec => []ReportsInOrder
  <1>1. TypeOK /\ HandlerInv /\ ReportsInOrder /\ [Next]_vars => ReportsInOrder'
    BY SubmissionReports, ProcessReports, CallReports DEF Next
  <1> QED BY <1>1, ReportsInit, InvHolds, PTL DEF Spec

\* ProcessMessage keeps its promise to the submitter, for any number of messages, parts and
\* callers: done means one stored and announced report per part, if receipts were asked for, and
\* a known status per part; nothing is announced that was not asked for or not completely handed
\* on (message_handler.go:946-983).
THEOREM DoneMeansReportedHolds == Spec => []DoneMeansReported
  <1>1. ASSUME TypeOK, HandlerInv, ReportsInOrder PROVE DoneMeansReported
    <2> SUFFICES ASSUME NEW m \in Msgs
                 PROVE  /\ pc[m] = "done" /\ registered[m] =>
                              PartIds(m) \subseteq announced /\ \A id \in PartIds(m) : reports[id] # "none"
                        /\ pc[m] = "done" /\ WithQueue => \A id \in PartIds(m) : qstatus[id] # "none"
                        /\ PartIds(m) \cap announced # {} => registered[m] /\ HandedOn(m, nparts[m])
      BY DEF DoneMeansReported
    <2>1. ReportsOf(m) BY <1>1 DEF ReportsInOrder
    <2>2. nparts[m] \in 1 .. MaxParts /\ MaxParts \in Nat
      BY <1>1, PartsAssumption DEF TypeOK, WorkTypes
    <2>3. ASSUME pc[m] = "done", registered[m]
          PROVE  PartIds(m) \subseteq announced /\ \A id \in PartIds(m) : reports[id] # "none"
      BY <2>1, <2>3 DEF ReportsOf, Reported, PartIds
    <2>4. ASSUME pc[m] = "done", WithQueue PROVE \A id \in PartIds(m) : qstatus[id] # "none"
      BY <2>1, <2>4 DEF ReportsOf, Known, PartIds
    <2>5. ASSUME NEW i \in 1 .. nparts[m], PartId(m, i) \in announced
          PROVE  registered[m] /\ HandedOn(m, nparts[m])
      <3>1. PICK j \in 0 .. MaxParts : PartId(m, i) = <<m, j>> BY <1>1, <2>2, PartIdShape
      <3>2. <<m, j>> \in announced BY <2>5, <3>1
      <3>3. registered[m] BY <2>1, <3>2 DEF ReportsOf
      <3>4. pc[m] \in {"store", "announce", "done"} BY <1>1, <3>2 DEF HandlerInv, AnnouncedLate
      <3> QED BY <1>1, <3>3, <3>4 DEF HandlerInv, PartsInOrder
    <2>6. PartIds(m) \cap announced # {} => registered[m] /\ HandedOn(m, nparts[m])
      BY <2>5 DEF PartIds
    <2> QED BY <2>3, <2>4, <2>6
  <1> QED BY <1>1, ReportsHold, InvHolds, PTL

=============================================================================
