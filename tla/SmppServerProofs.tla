--------------------------- MODULE SmppServerProofs ---------------------------
(***************************************************************************)
(* Theorems of SmppServer for every set of connections, every connection   *)
(* limit and every bus capacity: type correctness, and that the            *)
(* connection manager never keeps an entry nobody will remove.             *)
(***************************************************************************)
EXTENDS SmppServer, SequenceTheorems, FiniteSetTheorems, TLAPS

-----------------------------------------------------------------------------
(* The bus as a queue *)

\* A published event goes to the end of the bus or is dropped; what was queued stays in place.
LEMMA PublishType ==
    ASSUME NEW e \in Events, bus \in Seq(Events), Len(bus) <= BufferSize, lost \subseteq Events,
           publishAsync(e)
    PROVE  /\ bus' \in Seq(Events) /\ Len(bus') <= BufferSize
           /\ lost' \subseteq Events
    BY LimitsAssumption DEF publishAsync

\* The dispatcher leaves a well-typed queue behind.
LEMMA TailType ==
    ASSUME bus \in Seq(Events), bus # <<>>
    PROVE  /\ Head(bus) \in Events
           /\ Tail(bus) \in Seq(Events)
           /\ Len(Tail(bus)) = Len(bus) - 1
    OBVIOUS

-----------------------------------------------------------------------------
(* Type correctness *)

\* Events built from a known type and a connection are well formed.
LEMMA EventType == \A t \in EventTypes, c \in Conns : Event(t, c) \in Events
    BY DEF Event, Events

\* The connections in the accept loop's hands can be counted.
LEMMA CardinalityNat == Cardinality(InHand) \in Nat
  <1>1. IsFiniteSet(InHand)
    BY FS_Subset, ConnsAssumption DEF InHand
  <1> QED BY <1>1, FS_CardinalityType

\* Counting one more PDU below the bound.
LEMMA PDUBound ==
    ASSUME NEW c \in Conns, pdus \in [Conns -> 0 .. MaxPDUs], pdus[c] < MaxPDUs,
           pdus' = [pdus EXCEPT ![c] = @ + 1]
    PROVE  pdus' \in [Conns -> 0 .. MaxPDUs]
    BY LimitsAssumption

\* The initial state is well typed.
LEMMA InitType == Init => TypeOK
  <1> SUFFICES ASSUME Init PROVE TypeOK
    OBVIOUS
  <1>a. starts \in 0 .. MaxStarts BY LimitsAssumption DEF Init
  <1>b. wg \in Int /\ acceptors \in Nat /\ tickers \in Nat BY DEF Init
  <1>1. ServerTypes BY <1>a, <1>b, Zenon DEF Init, ServerTypes
  <1>2. ConnTypes BY LimitsAssumption DEF Init, ConnTypes, Places, SessionStates
  <1>3. SharedTypes BY LimitsAssumption DEF Init, SharedTypes
  <1> QED BY <1>1, <1>2, <1>3 DEF TypeOK

\* Steps of Start, Stop and the context only touch the server's own variables.
LEMMA ServerStepType == TypeOK /\ ServerStep => TypeOK'
  <1> SUFFICES ASSUME TypeOK, ServerStep PROVE TypeOK'
    OBVIOUS
  <1>a. UNCHANGED connVars /\ UNCHANGED sharedVars
    BY DEF ServerStep, StartBegin, StartListening, StartFails, StopBegin, StopSignal,
           StopReturns, CancelContext
  <1>b. ConnTypes' /\ SharedTypes'
    BY <1>a DEF TypeOK, ConnTypes, SharedTypes, connVars, sharedVars
  <1>c. ServerTypes'
    <2> USE LimitsAssumption DEF TypeOK, ServerTypes
    <2>1. CASE StartBegin BY <2>1 DEF StartBegin
    <2>2. CASE StartListening BY <2>2 DEF StartListening
    <2>3. CASE StartFails BY <2>3 DEF StartFails
    <2>4. CASE StopBegin BY <2>4 DEF StopBegin
    <2>5. CASE StopSignal BY <2>5 DEF StopSignal
    <2>6. CASE StopReturns BY <2>6 DEF StopReturns
    <2>7. CASE CancelContext BY <2>7 DEF CancelContext
    <2> QED BY <2>1, <2>2, <2>3, <2>4, <2>5, <2>6, <2>7 DEF ServerStep
  <1> QED BY <1>b, <1>c DEF TypeOK

\* Steps of the accept loop and of the sweeper.
LEMMA LoopStepType == TypeOK /\ LoopStep => TypeOK'
  <1> SUFFICES ASSUME TypeOK, LoopStep PROVE TypeOK'
    OBVIOUS
  <1> USE DEF TypeOK, ServerTypes, ConnTypes, SharedTypes, serverVars, connVars, sharedVars
  <1>1. CASE AcceptorExits BY <1>1, CardinalityNat DEF AcceptorExits
  <1>2. CASE SweepBegins BY <1>2 DEF SweepBegins
  <1>3. CASE TickerExits BY <1>3 DEF TickerExits
  <1>4. ASSUME NEW c \in Conns, Accept(c) PROVE TypeOK' BY <1>4 DEF Accept, Places
  <1>5. ASSUME NEW c \in Conns, Refuse(c) PROVE TypeOK' BY <1>5 DEF Refuse, Places
  <1>6. ASSUME NEW c \in Conns, Spawn(c) PROVE TypeOK' BY <1>6 DEF Spawn, Places
  <1>7. ASSUME NEW c \in Conns, SweepConnection(c) PROVE TypeOK' BY <1>7 DEF SweepConnection
  <1> QED BY <1>1, <1>2, <1>3, <1>4, <1>5, <1>6, <1>7 DEF LoopStep

\* Steps of a connection's goroutine. Those that publish use PublishType.
LEMMA ConnStepType == ASSUME NEW c \in Conns PROVE TypeOK /\ ConnStep(c) => TypeOK'
  <1> SUFFICES ASSUME TypeOK, ConnStep(c) PROVE TypeOK'
    OBVIOUS
  <1> USE LimitsAssumption, EventType
      DEF TypeOK, ServerTypes, ConnTypes, SharedTypes, serverVars, connVars, sharedVars, EventTypes
  <1>1. CASE Open(c) BY <1>1, PublishType DEF Open, Places, SessionStates
  <1>2. CASE LoopTop(c) BY <1>2 DEF LoopTop, Places
  <1>3. CASE ReadError(c) BY <1>3 DEF ReadError, ReadEnds, Places
  <1>4. CASE ReadTimeout(c) BY <1>4 DEF ReadTimeout, ReadEnds, Places
  <1>5. CASE ReadUndecodable(c) BY <1>5, PDUBound DEF ReadUndecodable, ReadEnds, Places
  <1>6. ASSUME NEW cmd \in BindCommands, HandleBind(c, cmd) PROVE TypeOK'
    <2>1. BindState[cmd] \in SessionStates
      BY DEF BindCommands, BindState, SessionStates
    <2>2. ConnTypes'
      <3>1. state' \in [Conns -> SessionStates] BY <1>6, <2>1 DEF HandleBind
      <3>2. pdus' \in [Conns -> 0 .. MaxPDUs] BY <1>6, PDUBound DEF HandleBind, ReadPDU
      <3> QED BY <1>6, <3>1, <3>2 DEF HandleBind, ReadPDU, Replying, Places
    <2>3. SharedTypes' BY <1>6, PublishType DEF HandleBind
    <2> QED BY <1>6, <2>2, <2>3 DEF HandleBind
  <1>7. CASE HandleSubmitSM(c)
    <2>1. ConnTypes' BY <1>7 DEF HandleSubmitSM, ReadPDU, Replying, Places
    <2>2. SharedTypes' BY <1>7, PublishType DEF HandleSubmitSM
    <2> QED BY <1>7, <2>1, <2>2 DEF HandleSubmitSM
  <1>8. CASE HandleWithoutEffect(c) BY <1>8 DEF HandleWithoutEffect, ReadPDU, Replying, Places
  <1>9. CASE HandleDeliverSMResp(c) BY <1>9 DEF HandleDeliverSMResp, ReadPDU, Places
  <1>10. CASE HandleUnbind(c)
    <2>1. ConnTypes' BY <1>10 DEF HandleUnbind, ReadPDU, Replying, Places, SessionStates
    <2>2. SharedTypes' BY <1>10, PublishType DEF HandleUnbind
    <2> QED BY <1>10, <2>1, <2>2 DEF HandleUnbind
  <1>11. CASE SendReply(c) BY <1>11 DEF SendReply, AfterReply, Places
  <1>12. CASE SendReplyFails(c) BY <1>12 DEF SendReplyFails, Places
  <1>13. CASE Unregister(c) BY <1>13 DEF Unregister, Places
  <1>14. CASE Finish(c) BY <1>14, PublishType DEF Finish, Places
  <1> QED BY <1>1, <1>2, <1>3, <1>4, <1>5, <1>6, <1>7, <1>8, <1>9, <1>10, <1>11, <1>12, <1>13,
             <1>14 DEF ConnStep, Handle

\* Every step keeps the type invariant.
LEMMA NextType == TypeOK /\ [Next]_vars => TypeOK'
  <1> SUFFICES ASSUME TypeOK, [Next]_vars PROVE TypeOK'
    OBVIOUS
  <1>1. CASE ServerStep BY <1>1, ServerStepType
  <1>2. CASE LoopStep BY <1>2, LoopStepType
  <1>3. ASSUME NEW c \in Conns, ConnStep(c) PROVE TypeOK' BY <1>3, ConnStepType
  <1> USE LimitsAssumption, EventType
      DEF TypeOK, ServerTypes, ConnTypes, SharedTypes, serverVars, connVars, sharedVars, EventTypes
  <1>4. CASE Dispatch
    <2>1. Head(bus).conn \in Conns BY <1>4, TailType DEF Dispatch, Events
    <2>2. connections' \subseteq Conns /\ target' \subseteq Conns BY <1>4, <2>1 DEF Dispatch
    <2>3. bus' \in Seq(Events) /\ Len(bus') <= BufferSize BY <1>4, TailType DEF Dispatch
    <2> QED BY <1>4, <2>2, <2>3 DEF Dispatch
  <1>5. ASSUME NEW c \in Conns, ProcessMessage(c) PROVE TypeOK'
    BY <1>5, PublishType DEF ProcessMessage
  <1>6. ASSUME NEW c \in Conns, SendReceipt(c) PROVE TypeOK' BY <1>6 DEF SendReceipt
  <1>7. ASSUME NEW c \in Conns, BecomesIdle(c) PROVE TypeOK' BY <1>7 DEF BecomesIdle
  <1>8. CASE UNCHANGED vars BY <1>8 DEF vars
  <1> QED BY <1>1, <1>2, <1>3, <1>4, <1>5, <1>6, <1>7, <1>8 DEF Next

\* Every reachable state of the server is well typed: the bus stays within its capacity and
\* the counters of accept loops and periodic tasks never become negative.
THEOREM TypeCorrect == Spec => []TypeOK
    BY InitType, NextType, PTL DEF Spec
-----------------------------------------------------------------------------
(* The registry: no stale entry, every served session registered *)

\* Positions of the bus after a publication: the old ones keep their event, and a new last one
\* holds the event unless it was dropped; dropped lifecycle events are remembered.
LEMMA PublishPositions ==
    ASSUME NEW e \in Events, bus \in Seq(Events), publishAsync(e)
    PROVE  /\ \A i \in DOMAIN bus : i \in DOMAIN bus' /\ bus'[i] = bus[i]
           /\ \A i \in DOMAIN bus' : i \in DOMAIN bus \/ (bus'[i] = e /\ \A j \in DOMAIN bus : j < i)
           /\ lost \subseteq lost'
           /\ e.type \in {"Connected", "Disconnected"}
                 => e \in lost' \/ \E i \in DOMAIN bus' : bus'[i] = e
  <1>1. CASE bus' = Append(bus, e) /\ lost' = lost
    <2>1. /\ DOMAIN bus' = 1 .. (Len(bus) + 1) /\ DOMAIN bus = 1 .. Len(bus) /\ Len(bus) \in Nat
          /\ \A i \in 1 .. Len(bus) : bus'[i] = bus[i]
          /\ bus'[Len(bus) + 1] = e
      BY <1>1
    <2> QED BY <1>1, <2>1
  <1>2. CASE /\ bus' = bus
             /\ lost' = IF e.type \in {"Connected", "Disconnected"} THEN lost \cup {e} ELSE lost
    BY <1>2
  <1> QED BY <1>1, <1>2 DEF publishAsync

\* Positions of the bus after its head was taken.
LEMMA TailPositions ==
    ASSUME bus \in Seq(Events), bus # <<>>, bus' = Tail(bus)
    PROVE  /\ 1 \in DOMAIN bus /\ Head(bus) = bus[1]
           /\ \A i \in DOMAIN bus' : i \in Nat /\ i + 1 \in DOMAIN bus /\ bus'[i] = bus[i + 1]
           /\ \A i \in DOMAIN bus : i \in Nat /\ (i = 1 \/ (i - 1 \in DOMAIN bus' /\ bus'[i - 1] = bus[i]))
    OBVIOUS

Served == {"loop", "reading", "replying"}

\* The fields of a constructed event.
LEMMA EventFields ==
    \A t \in EventTypes, c \in Conns : Event(t, c).type = t /\ Event(t, c).conn = c
    BY DEF Event

\* Events of different connections or of different kinds are different.
LEMMA EventDistinct ==
    \A c, d \in Conns :
        /\ Event("Connected", c) # Event("Disconnected", d)
        /\ c # d => Event("Connected", c) # Event("Connected", d)
        /\ c # d => Event("Disconnected", c) # Event("Disconnected", d)
    BY DEF Event

\* A step that publishes no lifecycle event, registers nobody, finishes no connection, brings
\* none into service and unregisters a served one only by closing it keeps the invariant.
LEMMA RegistryFrame ==
    ASSUME TypeOK, TypeOK', RegistryInv,
           connections' \subseteq connections, lost \subseteq lost',
           \A c \in connections \ connections' : pc'[c] \in Served => ~sockOpen'[c],
           \A i \in DOMAIN bus : i \in DOMAIN bus' /\ bus'[i] = bus[i],
           \A i \in DOMAIN bus' :
               i \in DOMAIN bus \/ bus'[i].type \notin {"Connected", "Disconnected"},
           \A c \in Conns : pc'[c] = "done" <=> pc[c] = "done",
           \A c \in Conns : pc'[c] \in Served => pc[c] \in Served,
           \A c \in Conns : pc'[c] \in Served => (sockOpen'[c] => sockOpen[c])
    PROVE  RegistryInv'
  <1> USE DEF RegistryInv, TypeOK, SharedTypes
  <1>0. \A i \in DOMAIN bus' : bus'[i].conn \in Conns
    <2>1. bus' \in Seq(Events) OBVIOUS
    <2>2. \A i \in DOMAIN bus' : bus'[i] \in Events BY <2>1
    <2> QED BY <2>2 DEF Events
  <1>1. BusOrdered'
    BY EventFields DEF BusOrdered, EventTypes
  <1>2. DisconnectedIsLast'
    BY <1>0 DEF DisconnectedIsLast
  <1>3. \A t \in {"Connected", "Disconnected"}, c \in Conns : Queued(t, c)' <=> Queued(t, c)
    BY EventFields DEF Queued, EventTypes
  <1>4. RemovalPending'
    BY <1>3 DEF RemovalPending
  <1>5. ServedIsRegistered'
    BY <1>3 DEF ServedIsRegistered, Served
  <1> QED BY <1>1, <1>2, <1>4, <1>5

\* Finish is the only step that publishes Disconnected; it ends the goroutine in the same step.
LEMMA FinishRegistry ==
    ASSUME NEW c \in Conns, TypeOK, TypeOK', RegistryInv, Finish(c)
    PROVE  RegistryInv'
  <1> DEFINE e == Event("Disconnected", c)
  <1>a. bus \in Seq(Events) /\ pc \in [Conns -> Places] /\ sockOpen \in [Conns -> BOOLEAN]
    BY DEF TypeOK, SharedTypes, ConnTypes
  <1>b. BusOrdered /\ DisconnectedIsLast /\ RemovalPending /\ ServedIsRegistered
    BY DEF RegistryInv
  <1>1. /\ publishAsync(e) /\ connections' = connections /\ pc[c] = "removed"
        /\ pc' = [pc EXCEPT ![c] = "done"] /\ sockOpen' = [sockOpen EXCEPT ![c] = FALSE]
    BY DEF Finish
  <1>2. e \in Events /\ e.type = "Disconnected" /\ e.conn = c
    BY EventType, EventFields DEF EventTypes
  <1>3. /\ \A i \in DOMAIN bus : i \in DOMAIN bus' /\ bus'[i] = bus[i]
        /\ \A i \in DOMAIN bus' : i \in DOMAIN bus \/ (bus'[i] = e /\ \A j \in DOMAIN bus : j < i)
        /\ lost \subseteq lost'
        /\ e \in lost' \/ \E i \in DOMAIN bus' : bus'[i] = e
    BY <1>a, <1>1, <1>2, PublishPositions
  <1> HIDE DEF e
  <1>e. e = Event("Disconnected", c) BY DEF e
  <1>4. \A d \in Conns : Queued("Connected", d)' <=> Queued("Connected", d)
    BY <1>e, <1>3, EventDistinct DEF Queued
  <1>5. \A d \in Conns : Queued("Disconnected", d) => Queued("Disconnected", d)'
    BY <1>3 DEF Queued
  <1>6. BusOrdered'
    BY <1>b, <1>e, <1>3, EventDistinct DEF BusOrdered
  <1>7. DisconnectedIsLast'
    <2>1. \A i \in DOMAIN bus : bus[i].conn \in Conns
      <3>1. \A i \in DOMAIN bus : bus[i] \in Events BY <1>a
      <3> QED BY <3>1 DEF Events
    <2> QED BY <1>a, <1>b, <1>1, <1>2, <1>3, <2>1 DEF DisconnectedIsLast
  <1>8. RemovalPending'
    <2> SUFFICES ASSUME NEW d \in Conns, pc'[d] = "done",
                        d \in connections' \/ Queued("Connected", d)'
                 PROVE  Queued("Disconnected", d)' \/ Event("Disconnected", d) \in lost'
      BY DEF RemovalPending
    <2>1. CASE d = c BY <2>1, <1>e, <1>3 DEF Queued
    <2>2. CASE d # c BY <2>2, <1>a, <1>b, <1>1, <1>3, <1>4, <1>5 DEF RemovalPending
    <2> QED BY <2>1, <2>2
  <1>9. ServedIsRegistered'
    BY <1>a, <1>b, <1>1, <1>3, <1>4 DEF ServedIsRegistered
  <1> QED BY <1>6, <1>7, <1>8, <1>9 DEF RegistryInv

\* Open brings a connection into service and publishes its Connected event; no Disconnected
\* event of it can be ahead in the bus, since its goroutine has not finished.
LEMMA OpenRegistry ==
    ASSUME NEW c \in Conns, TypeOK, TypeOK', RegistryInv, Open(c)
    PROVE  RegistryInv'
  <1> DEFINE e == Event("Connected", c)
  <1>a. bus \in Seq(Events) /\ pc \in [Conns -> Places]
    BY DEF TypeOK, SharedTypes, ConnTypes
  <1>b. BusOrdered /\ DisconnectedIsLast /\ RemovalPending /\ ServedIsRegistered
    BY DEF RegistryInv
  <1>1. /\ publishAsync(e) /\ connections' = connections /\ pc[c] = "spawned"
        /\ pc' = [pc EXCEPT ![c] = "loop"] /\ sockOpen' = sockOpen
    BY DEF Open
  <1>2. e \in Events /\ e.type = "Connected" /\ e.conn = c
    BY EventType, EventFields DEF EventTypes
  <1>3. /\ \A i \in DOMAIN bus : i \in DOMAIN bus' /\ bus'[i] = bus[i]
        /\ \A i \in DOMAIN bus' : i \in DOMAIN bus \/ (bus'[i] = e /\ \A j \in DOMAIN bus : j < i)
        /\ lost \subseteq lost'
        /\ e \in lost' \/ \E i \in DOMAIN bus' : bus'[i] = e
    BY <1>a, <1>1, <1>2, PublishPositions
  <1> HIDE DEF e
  <1>e. e = Event("Connected", c) BY DEF e
  <1>4. \A d \in Conns : Queued("Disconnected", d)' <=> Queued("Disconnected", d)
    BY <1>e, <1>3, EventDistinct DEF Queued
  <1>5. \A d \in Conns : d # c => (Queued("Connected", d)' <=> Queued("Connected", d))
    BY <1>e, <1>3, EventDistinct DEF Queued
  <1>6. \A i \in DOMAIN bus : bus[i] # Event("Disconnected", c)
    BY <1>b, <1>1, EventFields DEF DisconnectedIsLast, EventTypes
  <1>7. BusOrdered'
    BY <1>b, <1>e, <1>3, <1>6, EventDistinct DEF BusOrdered
  <1>8. DisconnectedIsLast'
    <2>1. \A i \in DOMAIN bus : bus[i].conn \in Conns
      <3>1. \A i \in DOMAIN bus : bus[i] \in Events BY <1>a
      <3> QED BY <3>1 DEF Events
    <2> QED BY <1>a, <1>b, <1>1, <1>2, <1>3, <2>1 DEF DisconnectedIsLast
  <1>9. RemovalPending'
    BY <1>a, <1>b, <1>1, <1>3, <1>4, <1>5 DEF RemovalPending
  <1>10. ServedIsRegistered'
    <2> SUFFICES ASSUME NEW d \in Conns, pc'[d] \in Served
                 PROVE  \/ d \in connections' \/ Queued("Connected", d)'
                        \/ Event("Connected", d) \in lost' \/ ~sockOpen'[d]
      BY DEF ServedIsRegistered, Served
    <2>1. CASE d = c BY <2>1, <1>e, <1>3 DEF Queued
    <2>2. CASE d # c BY <2>2, <1>a, <1>b, <1>1, <1>3, <1>5 DEF ServedIsRegistered, Served
    <2> QED BY <2>1, <2>2
  <1> QED BY <1>7, <1>8, <1>9, <1>10 DEF RegistryInv

\* The dispatcher takes the head of the bus. A Connected event it processes for a finished
\* connection is followed by the Disconnected event, because of BusOrdered.
LEMMA DispatchRegistry ==
    ASSUME TypeOK, TypeOK', RegistryInv, Dispatch
    PROVE  RegistryInv'
  <1> DEFINE e == bus[1]
  <1>a. bus \in Seq(Events) /\ bus # <<>> /\ bus' = Tail(bus)
    BY DEF TypeOK, SharedTypes, Dispatch
  <1>b. BusOrdered /\ DisconnectedIsLast /\ RemovalPending /\ ServedIsRegistered
    BY DEF RegistryInv
  <1>c. /\ 1 \in DOMAIN bus /\ Head(bus) = bus[1]
        /\ \A i \in DOMAIN bus' : i \in Nat /\ i + 1 \in DOMAIN bus /\ bus'[i] = bus[i + 1]
        /\ \A i \in DOMAIN bus : i \in Nat /\ (i = 1 \/ (i - 1 \in DOMAIN bus' /\ bus'[i - 1] = bus[i]))
    BY <1>a, TailPositions
  <1>d. e \in Events /\ e.type \in EventTypes /\ e.conn \in Conns /\ e = Event(e.type, e.conn)
    <2>1. e \in Events BY <1>a, <1>c
    <2> QED BY <2>1 DEF Events, Event
  <1>f. /\ connections' = CASE e.type = "Connected"    -> connections \cup {e.conn}
                             [] e.type = "Disconnected" -> connections \ {e.conn}
                             [] OTHER                   -> connections
        /\ pc' = pc /\ sockOpen' = sockOpen /\ lost' = lost
    BY <1>c DEF Dispatch, connVars
  <1> HIDE DEF e
  <1>1. BusOrdered'
    <2> SUFFICES ASSUME NEW i \in DOMAIN bus', NEW j \in DOMAIN bus', NEW d \in Conns,
                        bus'[i] = Event("Connected", d), bus'[j] = Event("Disconnected", d)
                 PROVE  i < j
      BY DEF BusOrdered
    <2>1. i + 1 < j + 1 BY <1>b, <1>c DEF BusOrdered
    <2> QED BY <2>1, <1>c
  <1>2. DisconnectedIsLast'
    BY <1>b, <1>c, <1>f DEF DisconnectedIsLast
  <1>3. \A t \in EventTypes, d \in Conns :
            /\ Queued(t, d) => Queued(t, d)' \/ e = Event(t, d)
            /\ Queued(t, d)' => Queued(t, d)
    BY <1>c DEF Queued, e
  <1>4. RemovalPending'
    <2> SUFFICES ASSUME NEW d \in Conns, pc'[d] = "done",
                        d \in connections' \/ Queued("Connected", d)',
                        Event("Disconnected", d) \notin lost'
                 PROVE  Queued("Disconnected", d)'
      BY DEF RemovalPending
    <2>1. d \in connections \/ Queued("Connected", d)
      <3>1. CASE Queued("Connected", d)' BY <3>1, <1>3 DEF EventTypes
      <3>2. CASE d \in connections' /\ d \notin connections
        <4>1. e.type = "Connected" /\ e.conn = d BY <3>2, <1>f
        <4> QED BY <4>1, <1>c, <1>d DEF Queued, e
      <3> QED BY <3>1, <3>2
    <2>2. Queued("Disconnected", d)
      BY <2>1, <1>b, <1>f DEF RemovalPending
    <2>3. CASE e # Event("Disconnected", d)
      BY <2>2, <2>3, <1>3 DEF EventTypes
    <2>4. CASE e = Event("Disconnected", d)
      <3>1. d \notin connections' BY <2>4, <1>f, EventFields DEF EventTypes
      <3>2. PICK i \in DOMAIN bus' : bus'[i] = Event("Connected", d) BY <3>1 DEF Queued
      <3>3. i + 1 < 1 BY <3>2, <2>4, <1>b, <1>c DEF BusOrdered, e
      <3> QED BY <3>3, <1>c
    <2> QED BY <2>3, <2>4
  <1>5. ServedIsRegistered'
    <2> SUFFICES ASSUME NEW d \in Conns, pc'[d] \in Served
                 PROVE  \/ d \in connections' \/ Queued("Connected", d)'
                        \/ Event("Connected", d) \in lost' \/ ~sockOpen'[d]
      BY DEF ServedIsRegistered, Served
    <2>1. \/ d \in connections \/ Queued("Connected", d)
          \/ Event("Connected", d) \in lost' \/ ~sockOpen'[d]
      BY <1>b, <1>f DEF ServedIsRegistered, Served
    <2>2. CASE d \in connections
      <3>1. ~(e.type = "Disconnected" /\ e.conn = d)
        BY <1>b, <1>c, <1>f DEF DisconnectedIsLast, Served, e
      <3> QED BY <3>1, <2>2, <1>f
    <2>3. CASE Queued("Connected", d)
      <3>1. CASE e = Event("Connected", d) BY <3>1, <1>f, EventFields DEF EventTypes
      <3>2. CASE e # Event("Connected", d) BY <3>2, <2>3, <1>3 DEF EventTypes
      <3> QED BY <3>1, <3>2
    <2> QED BY <2>1, <2>2, <2>3
  <1> QED BY <1>1, <1>2, <1>4, <1>5 DEF RegistryInv

\* RegistryFrame for a step that leaves the bus alone.
LEMMA QuietRegistry ==
    ASSUME TypeOK, TypeOK', RegistryInv, bus' = bus, lost' = lost,
           connections' \subseteq connections,
           \A c \in connections \ connections' : pc'[c] \in Served => ~sockOpen'[c],
           \A c \in Conns : pc'[c] = "done" <=> pc[c] = "done",
           \A c \in Conns : pc'[c] \in Served => pc[c] \in Served /\ (sockOpen'[c] => sockOpen[c])
    PROVE  RegistryInv'
    BY RegistryFrame

\* RegistryFrame for the handlers and for ProcessMessage: they publish events the connection
\* manager ignores, or nothing.
LEMMA TalkRegistry ==
    ASSUME TypeOK, TypeOK', RegistryInv,
           NEW e \in Events, e.type \notin {"Connected", "Disconnected"},
           publishAsync(e) \/ UNCHANGED <<bus, lost>>,
           connections' = connections, sockOpen' = sockOpen,
           \A c \in Conns : pc'[c] = "done" <=> pc[c] = "done",
           \A c \in Conns : pc'[c] \in Served => pc[c] \in Served
    PROVE  RegistryInv'
  <1>1. bus \in Seq(Events) BY DEF TypeOK, SharedTypes
  <1>2. CASE UNCHANGED <<bus, lost>> BY <1>2, QuietRegistry
  <1>3. CASE publishAsync(e)
    <2>1. /\ \A i \in DOMAIN bus : i \in DOMAIN bus' /\ bus'[i] = bus[i]
          /\ \A i \in DOMAIN bus' : i \in DOMAIN bus \/ bus'[i] = e
          /\ lost \subseteq lost'
      BY <1>1, <1>3, PublishPositions
    <2> QED BY <2>1, RegistryFrame
  <1> QED BY <1>2, <1>3

\* Steps of the accept loop and of the sweeper publish nothing and keep RegistryInv.
LEMMA LoopStepRegistry == TypeOK /\ TypeOK' /\ RegistryInv /\ LoopStep => RegistryInv'
  <1> SUFFICES ASSUME TypeOK, TypeOK', RegistryInv, LoopStep PROVE RegistryInv'
    OBVIOUS
  <1>a. pc \in [Conns -> Places] /\ sockOpen \in [Conns -> BOOLEAN] /\ connections \subseteq Conns
    BY DEF TypeOK, ConnTypes, SharedTypes
  <1> USE DEF connVars, sharedVars, Served
  <1>1. CASE AcceptorExits BY <1>1, QuietRegistry DEF AcceptorExits
  <1>2. CASE SweepBegins BY <1>2, QuietRegistry DEF SweepBegins
  <1>3. CASE TickerExits BY <1>3, QuietRegistry DEF TickerExits
  <1>4. ASSUME NEW c \in Conns, Accept(c) PROVE RegistryInv'
    BY <1>a, <1>4, QuietRegistry DEF Accept
  <1>5. ASSUME NEW c \in Conns, Refuse(c) PROVE RegistryInv'
    BY <1>a, <1>5, QuietRegistry DEF Refuse
  <1>6. ASSUME NEW c \in Conns, Spawn(c) PROVE RegistryInv'
    BY <1>a, <1>6, QuietRegistry DEF Spawn
  <1>7. ASSUME NEW c \in Conns, SweepConnection(c) PROVE RegistryInv'
    BY <1>a, <1>7, QuietRegistry DEF SweepConnection
  <1> QED BY <1>1, <1>2, <1>3, <1>4, <1>5, <1>6, <1>7 DEF LoopStep

\* Steps of a connection's goroutine keep RegistryInv.
LEMMA ConnStepRegistry ==
    ASSUME NEW c \in Conns PROVE TypeOK /\ TypeOK' /\ RegistryInv /\ ConnStep(c) => RegistryInv'
  <1> SUFFICES ASSUME TypeOK, TypeOK', RegistryInv, ConnStep(c) PROVE RegistryInv'
    OBVIOUS
  <1>a. pc \in [Conns -> Places] /\ sockOpen \in [Conns -> BOOLEAN] /\ connections \subseteq Conns
    BY DEF TypeOK, ConnTypes, SharedTypes
  <1>b. \A t \in {"Bound", "SMSSubmitted", "Unbound"} :
            Event(t, c) \in Events /\ Event(t, c).type \notin {"Connected", "Disconnected"}
    BY EventType, EventFields DEF EventTypes
  <1> USE DEF connVars, sharedVars, Served
  <1>1. CASE Open(c) BY <1>1, OpenRegistry
  <1>2. CASE LoopTop(c) BY <1>a, <1>2, QuietRegistry DEF LoopTop
  <1>3. CASE ReadError(c) BY <1>a, <1>3, QuietRegistry DEF ReadError, ReadEnds
  <1>4. CASE ReadTimeout(c) BY <1>a, <1>4, QuietRegistry DEF ReadTimeout, ReadEnds
  <1>5. CASE ReadUndecodable(c) BY <1>a, <1>5, QuietRegistry DEF ReadUndecodable, ReadEnds
  <1>6. ASSUME NEW cmd \in BindCommands, HandleBind(c, cmd) PROVE RegistryInv'
    BY <1>a, <1>b, <1>6, TalkRegistry DEF HandleBind, ReadPDU, Replying
  <1>7. CASE HandleSubmitSM(c)
    BY <1>a, <1>b, <1>7, TalkRegistry DEF HandleSubmitSM, ReadPDU, Replying
  <1>8. CASE HandleWithoutEffect(c)
    BY <1>a, <1>8, QuietRegistry DEF HandleWithoutEffect, ReadPDU, Replying
  <1>9. CASE HandleDeliverSMResp(c)
    BY <1>a, <1>9, QuietRegistry DEF HandleDeliverSMResp, ReadPDU
  <1>10. CASE HandleUnbind(c)
    BY <1>a, <1>b, <1>10, TalkRegistry DEF HandleUnbind, ReadPDU, Replying
  <1>11. CASE SendReply(c) BY <1>a, <1>11, QuietRegistry DEF SendReply, AfterReply
  <1>12. CASE SendReplyFails(c) BY <1>a, <1>12, QuietRegistry DEF SendReplyFails
  <1>13. CASE Unregister(c) BY <1>a, <1>13, QuietRegistry DEF Unregister
  <1>14. CASE Finish(c) BY <1>14, FinishRegistry
  <1> QED BY <1>1, <1>2, <1>3, <1>4, <1>5, <1>6, <1>7, <1>8, <1>9, <1>10, <1>11, <1>12, <1>13,
             <1>14 DEF ConnStep, Handle

\* Every step keeps RegistryInv.
LEMMA NextRegistry == TypeOK /\ TypeOK' /\ RegistryInv /\ [Next]_vars => RegistryInv'
  <1> SUFFICES ASSUME TypeOK, TypeOK', RegistryInv, [Next]_vars PROVE RegistryInv'
    OBVIOUS
  <1>1. CASE ServerStep
    BY <1>1, QuietRegistry
       DEF ServerStep, StartBegin, StartListening, StartFails, StopBegin, StopSignal, StopReturns,
           CancelContext, connVars, sharedVars
  <1>2. CASE LoopStep BY <1>2, LoopStepRegistry
  <1>3. ASSUME NEW c \in Conns, ConnStep(c) PROVE RegistryInv' BY <1>3, ConnStepRegistry
  <1>4. CASE Dispatch BY <1>4, DispatchRegistry
  <1>5. ASSUME NEW c \in Conns, ProcessMessage(c) PROVE RegistryInv'
    <2>1. /\ Event("DeliveryReport", c) \in Events
          /\ Event("DeliveryReport", c).type \notin {"Connected", "Disconnected"}
      BY EventType, EventFields DEF EventTypes
    <2> QED BY <1>5, <2>1, TalkRegistry DEF ProcessMessage
  <1>6. ASSUME NEW c \in Conns, SendReceipt(c) PROVE RegistryInv'
    BY <1>6, QuietRegistry DEF SendReceipt
  <1>7. ASSUME NEW c \in Conns, BecomesIdle(c) PROVE RegistryInv'
    BY <1>7, QuietRegistry DEF BecomesIdle, sharedVars
  <1>8. CASE UNCHANGED vars BY <1>8, QuietRegistry DEF vars, connVars, sharedVars
  <1> QED BY <1>1, <1>2, <1>3, <1>4, <1>5, <1>6, <1>7, <1>8 DEF Next

\* Nothing is registered or queued initially.
LEMMA InitRegistry == Init => RegistryInv
    BY DEF Init, RegistryInv, BusOrdered, DisconnectedIsLast, RemovalPending, ServedIsRegistered,
           Queued

\* The connection manager keeps an entry of a finished connection only while the event that
\* removes it is queued, or because the full bus dropped that event.
THEOREM NoStaleEntryHolds == Spec => []NoStaleEntry
  <1>1. RegistryInv /\ TypeOK => NoStaleEntry
    BY DEF RegistryInv, RemovalPending, NoStaleEntry, TypeOK, SharedTypes
  <1> QED BY <1>1, InitRegistry, NextRegistry, TypeCorrect, PTL DEF Spec

\* A served session is registered, about to be, was lost to a full bus or was closed as idle.
THEOREM ServedIsRegisteredHolds == Spec => []ServedIsRegistered
  <1>1. RegistryInv => ServedIsRegistered
    BY DEF RegistryInv
  <1> QED BY <1>1, InitRegistry, NextRegistry, TypeCorrect, PTL DEF Spec
-----------------------------------------------------------------------------
(* Unbind is final *)

\* After unbind the goroutine only sends the response and cleans up.
UnboundPlace ==
    \A c \in Conns : state[c] = "Unbound" => pc[c] \in {"replying", "ended", "removed", "done"}

\* A step of a connection's goroutine leaves an unbound session unbound.
LEMMA ConnStepUnbound ==
    ASSUME NEW c \in Conns, TypeOK, UnboundPlace, ConnStep(c)
    PROVE  /\ UnboundPlace'
           /\ \A d \in Conns : state[d] = "Unbound" => state'[d] = "Unbound" /\ jobs'[d] <= jobs[d]
  <1>a. /\ pc \in [Conns -> Places] /\ state \in [Conns -> SessionStates] /\ jobs \in [Conns -> Nat]
    BY DEF TypeOK, ConnTypes
  <1> USE <1>a DEF UnboundPlace
  <1>1. CASE Open(c) BY <1>1 DEF Open
  <1>2. CASE LoopTop(c) BY <1>2 DEF LoopTop
  <1>3. CASE ReadError(c) \/ ReadTimeout(c) \/ ReadUndecodable(c)
    <2>1. /\ pc[c] = "reading" /\ pc' = [pc EXCEPT ![c] = "ended"]
          /\ state' = state /\ jobs' = jobs
      BY <1>3 DEF ReadError, ReadTimeout, ReadUndecodable, ReadEnds
    <2> QED BY <2>1
  <1>6. ASSUME NEW cmd \in BindCommands, HandleBind(c, cmd)
        PROVE  /\ UnboundPlace'
               /\ \A d \in Conns :
                     state[d] = "Unbound" => state'[d] = "Unbound" /\ jobs'[d] <= jobs[d]
    BY <1>6 DEF HandleBind, ReadPDU, Replying
  <1>7. CASE HandleSubmitSM(c) BY <1>7 DEF HandleSubmitSM, ReadPDU, Replying
  <1>8. CASE HandleWithoutEffect(c) BY <1>8 DEF HandleWithoutEffect, ReadPDU, Replying
  <1>9. CASE HandleDeliverSMResp(c) BY <1>9 DEF HandleDeliverSMResp, ReadPDU
  <1>10. CASE HandleUnbind(c) BY <1>10 DEF HandleUnbind, ReadPDU, Replying
  <1>11. CASE SendReply(c) BY <1>11 DEF SendReply, AfterReply
  <1>12. CASE SendReplyFails(c)
    <2>1. pc' = [pc EXCEPT ![c] = "ended"] /\ state' = state /\ jobs' = jobs
      BY <1>12 DEF SendReplyFails
    <2> QED BY <2>1
  <1>13. CASE Unregister(c) BY <1>13 DEF Unregister
  <1>14. CASE Finish(c) BY <1>14 DEF Finish
  <1> QED BY <1>1, <1>2, <1>3, <1>6, <1>7, <1>8, <1>9, <1>10, <1>11, <1>12, <1>13,
             <1>14 DEF ConnStep, Handle

\* Every step leaves unbound sessions unbound and gives them no message to process.
LEMMA NextUnbound ==
    ASSUME TypeOK, UnboundPlace, [Next]_vars
    PROVE  /\ UnboundPlace'
           /\ \A d \in Conns : state[d] = "Unbound" => state'[d] = "Unbound" /\ jobs'[d] <= jobs[d]
  <1>a. /\ pc \in [Conns -> Places] /\ state \in [Conns -> SessionStates] /\ jobs \in [Conns -> Nat]
    BY DEF TypeOK, ConnTypes
  <1>b. ASSUME NEW c \in Conns, ConnStep(c)
        PROVE  /\ UnboundPlace'
               /\ \A d \in Conns :
                     state[d] = "Unbound" => state'[d] = "Unbound" /\ jobs'[d] <= jobs[d]
    BY <1>b, ConnStepUnbound
  <1> USE <1>a DEF UnboundPlace, connVars
  <1>1. CASE ServerStep
    BY <1>1 DEF ServerStep, StartBegin, StartListening, StartFails, StopBegin, StopSignal,
                StopReturns, CancelContext
  <1>2. CASE LoopStep
    BY <1>2 DEF LoopStep, AcceptorExits, SweepBegins, TickerExits, Accept, Refuse, Spawn,
                SweepConnection
  <1>4. CASE Dispatch BY <1>4 DEF Dispatch
  <1>5. CASE \E c \in Conns : ProcessMessage(c) \/ SendReceipt(c) \/ BecomesIdle(c)
    BY <1>5 DEF ProcessMessage, SendReceipt, BecomesIdle
  <1>6. CASE UNCHANGED vars BY <1>6 DEF vars
  <1> QED BY <1>b, <1>1, <1>2, <1>4, <1>5, <1>6 DEF Next

\* After unbind a session accepts no message and never changes state again.
THEOREM UnboundIsFinalHolds == Spec => UnboundIsFinal
  <1>1. Init => UnboundPlace BY DEF Init, UnboundPlace
  <1>2. TypeOK /\ UnboundPlace /\ [Next]_vars => UnboundPlace' BY NextUnbound
  <1>3. TypeOK /\ UnboundPlace /\ [Next]_vars
          => [\A c \in Conns : state[c] = "Unbound"
                 => state'[c] = "Unbound" /\ jobs'[c] <= jobs[c]]_vars
    BY NextUnbound
  <1> QED BY <1>1, <1>2, <1>3, TypeCorrect, PTL DEF Spec, UnboundIsFinal

-----------------------------------------------------------------------------
(* The wait group counts the goroutines *)

Counted == {"spawned", "loop", "reading", "replying", "ended", "removed"}

\* The goroutines in service can be counted.
LEMMA HandlingFinite == IsFiniteSet(Handling) /\ Cardinality(Handling) \in Nat
  <1>1. IsFiniteSet(Handling) BY FS_Subset, ConnsAssumption DEF Handling
  <1> QED BY <1>1, FS_CardinalityType

\* A step that keeps every goroutine where it counts keeps the count.
LEMMA SameHandling ==
    ASSUME \A c \in Conns : pc'[c] \in Counted <=> pc[c] \in Counted
    PROVE  Handling' = Handling
    BY DEF Handling, Counted

\* The accept loop and the periodic task adjust wg with what they start and end.
LEMMA LoopStepWaitGroup ==
    ASSUME TypeOK, WaitGroupExact, LoopStep
    PROVE  WaitGroupExact'
  <1>a. /\ pc \in [Conns -> Places] /\ wg \in Int /\ acceptors \in Nat /\ tickers \in Nat
        /\ IsFiniteSet(Handling) /\ Cardinality(Handling) \in Nat
    BY HandlingFinite DEF TypeOK, ConnTypes, ServerTypes
  <1>b. ASSUME Handling' = Handling, wg' = wg, acceptors' = acceptors, tickers' = tickers
        PROVE  WaitGroupExact'
    BY <1>b DEF WaitGroupExact
  <1>1. CASE AcceptorExits
    <2>1. Handling' = Handling BY <1>1, SameHandling DEF AcceptorExits, connVars
    <2> QED BY <1>a, <1>1, <2>1 DEF AcceptorExits, WaitGroupExact
  <1>2. CASE SweepBegins BY <1>b, <1>2, SameHandling DEF SweepBegins, connVars
  <1>3. CASE TickerExits
    <2>1. Handling' = Handling BY <1>3, SameHandling DEF TickerExits, connVars
    <2> QED BY <1>a, <1>3, <2>1 DEF TickerExits, WaitGroupExact
  <1>4. ASSUME NEW c \in Conns, Accept(c) \/ Refuse(c) \/ SweepConnection(c)
        PROVE  WaitGroupExact'
    <2>1. Handling' = Handling
      BY <1>a, <1>4, SameHandling DEF Accept, Refuse, SweepConnection, Counted
    <2> QED BY <1>b, <1>4, <2>1 DEF Accept, Refuse, SweepConnection, serverVars
  <1>5. ASSUME NEW c \in Conns, Spawn(c) PROVE WaitGroupExact'
    <2>1. c \notin Handling /\ Handling' = Handling \cup {c}
      BY <1>a, <1>5 DEF Spawn, Handling
    <2>2. Cardinality(Handling') = Cardinality(Handling) + 1
      BY <1>a, <2>1, FS_AddElement
    <2> QED BY <1>a, <1>5, <2>2 DEF Spawn, WaitGroupExact
  <1> QED BY <1>1, <1>2, <1>3, <1>4, <1>5 DEF LoopStep

\* A connection's goroutine adjusts wg only with its deferred Done.
LEMMA ConnStepWaitGroup ==
    ASSUME NEW c \in Conns, TypeOK, WaitGroupExact, ConnStep(c)
    PROVE  WaitGroupExact'
  <1>a. /\ pc \in [Conns -> Places] /\ wg \in Int /\ acceptors \in Nat /\ tickers \in Nat
        /\ IsFiniteSet(Handling) /\ Cardinality(Handling) \in Nat
    BY HandlingFinite DEF TypeOK, ConnTypes, ServerTypes
  <1>1. CASE Finish(c)
    <2>1. c \in Handling /\ Handling' = Handling \ {c}
      BY <1>a, <1>1 DEF Finish, Handling
    <2>2. Cardinality(Handling') = Cardinality(Handling) - 1
      BY <1>a, <2>1, FS_RemoveElement
    <2> QED BY <1>a, <1>1, <2>2 DEF Finish, WaitGroupExact
  <1>2. CASE ~Finish(c)
    <2>1. UNCHANGED serverVars /\ \E q \in Counted : pc[c] \in Counted /\ pc' = [pc EXCEPT ![c] = q]
      BY <1>2 DEF ConnStep, Handle, Open, LoopTop, ReadError, ReadTimeout, ReadEnds, HandleBind,
                  HandleSubmitSM, HandleWithoutEffect, HandleDeliverSMResp, HandleUnbind,
                  ReadUndecodable, ReadPDU, Replying, SendReply, AfterReply, SendReplyFails,
                  Unregister, Counted
    <2>2. Handling' = Handling BY <1>a, <2>1, SameHandling
    <2> QED BY <2>1, <2>2 DEF serverVars, WaitGroupExact
  <1> QED BY <1>1, <1>2

\* Every step keeps wg exact.
LEMMA NextWaitGroup == TypeOK /\ WaitGroupExact /\ [Next]_vars => WaitGroupExact'
  <1> SUFFICES ASSUME TypeOK, WaitGroupExact, [Next]_vars PROVE WaitGroupExact'
    OBVIOUS
  <1>a. /\ wg \in Int /\ acceptors \in Nat /\ tickers \in Nat /\ Cardinality(Handling) \in Nat
    BY HandlingFinite DEF TypeOK, ServerTypes
  <1>1. CASE ServerStep
    <2>1. Handling' = Handling
      BY <1>1, SameHandling
         DEF ServerStep, StartBegin, StartListening, StartFails, StopBegin, StopSignal,
             StopReturns, CancelContext, connVars
    <2> QED BY <1>a, <1>1, <2>1
            DEF ServerStep, StartBegin, StartListening, StartFails, StopBegin, StopSignal,
                StopReturns, CancelContext, WaitGroupExact
  <1>2. CASE LoopStep BY <1>2, LoopStepWaitGroup
  <1>3. ASSUME NEW c \in Conns, ConnStep(c) PROVE WaitGroupExact' BY <1>3, ConnStepWaitGroup
  <1>4. CASE \/ Dispatch \/ UNCHANGED vars
             \/ \E c \in Conns : ProcessMessage(c) \/ SendReceipt(c) \/ BecomesIdle(c)
    <2>1. UNCHANGED serverVars /\ pc' = pc
      BY <1>4 DEF Dispatch, ProcessMessage, SendReceipt, BecomesIdle, vars, connVars
    <2>2. Handling' = Handling BY <2>1, SameHandling
    <2> QED BY <2>1, <2>2 DEF serverVars, WaitGroupExact
  <1> QED BY <1>1, <1>2, <1>3, <1>4 DEF Next

\* Server.wg counts exactly the goroutines that are running, so a Stop that saw it drop to zero
\* left none behind.
THEOREM WaitGroupExactHolds == Spec => []WaitGroupExact
  <1>1. Init => WaitGroupExact
    <2> SUFFICES ASSUME Init PROVE WaitGroupExact
      OBVIOUS
    <2>1. Handling = {} BY DEF Init, Handling
    <2> QED BY <2>1, FS_EmptySet DEF Init, WaitGroupExact
  <1> QED BY <1>1, NextWaitGroup, TypeCorrect, PTL DEF Spec

=============================================================================
