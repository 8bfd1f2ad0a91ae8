------------------------------ MODULE SmppServer ------------------------------
(***************************************************************************)
(* The SMPP server of pkg/smpp/server.go together with what its goroutines *)
(* share: the asynchronous event bus (pkg/events/eventbus.go), the         *)
(* connection manager fed by bus events (connection.go,                    *)
(* connection_manager_handler.go) and the delivery report sender.          *)
(*                                                                         *)
(* Processes: the callers of Start and Stop, the accept loop, the idle     *)
(* sweeper, one goroutine per accepted connection, the goroutines that     *)
(* HandleSubmitSM spawns, and the single dispatcher of the event bus.      *)
(***************************************************************************)
EXTENDS Integers, Sequences, FiniteSets

CONSTANTS
    Conns,           \* incoming TCP connections; each gets one session of its own
    MaxConnections,  \* ServerConfig.MaxConnections
    BufferSize,      \* capacity of AsyncEventBus.eventChan
    MaxPDUs,         \* bound: PDUs one client sends
    MaxStarts        \* bound: calls of Start

ASSUME ConnsAssumption == IsFiniteSet(Conns)
ASSUME LimitsAssumption ==
    MaxConnections \in Nat /\ BufferSize \in Nat /\ MaxPDUs \in Nat /\ MaxStarts \in Nat

VARIABLES
    \* --- Server ---
    running,     \* Server.running
    listener,    \* Server.listener: "nil", "open" or "closed"
    doneClosed,  \* Server.done has been closed
    ctxDone,     \* the context given to Start is cancelled
    wg,          \* Server.wg
    starts,      \* calls of Start so far
    starter,     \* the caller of Start: "idle", or "listen" between the unlock and its end
    stopper,     \* the caller of Stop: "idle", "closing" (mutex released), "waiting" (for wg)
    panicked,    \* an unrecovered panic took the process down
    acceptors,   \* accept-loop goroutines that have not returned
    tickers,     \* periodicTasks goroutines that have not returned
    sweep,       \* connections the current cleanup still has to look at
    \* --- connection goroutines ---
    pc,          \* where each connection's goroutine is
    state,       \* Session.State ("nil" before the session exists)
    active,      \* ServerConnection.active
    sockOpen,    \* netConn has not been closed by the server
    idle,        \* lastActivity is older than IdleTimeout
    pdus,        \* PDUs read so far (bounded by MaxPDUs)
    jobs,        \* ProcessMessage goroutines spawned for the session and still running
    \* --- shared components ---
    connections, \* InMemoryConnectionManager.connections
    bus,         \* AsyncEventBus.eventChan
    lost,        \* history: lifecycle events publishAsync dropped
    target       \* the connection the dispatcher is about to send a receipt on, if any

serverVars == <<running, listener, doneClosed, ctxDone, wg, starts, starter, stopper,
                panicked, acceptors, tickers, sweep>>
connVars   == <<pc, state, active, sockOpen, idle, pdus, jobs>>
sharedVars == <<connections, bus, lost, target>>
vars == <<serverVars, connVars, sharedVars>>

-----------------------------------------------------------------------------
(* Vocabulary *)

EventTypes == {"Connected", "Disconnected", "Bound", "Unbound", "SMSSubmitted", "DeliveryReport"}
Events == [type : EventTypes, conn : Conns]
Event(t, c) == [type |-> t, conn |-> c]

SessionStates == {"nil", "Open", "BoundRX", "BoundTX", "BoundTRX", "Unbound"}

\* pc: "new" not dialled; "accepted" in the hands of the accept loop; "spawned" goroutine
\* created; "loop" top of the read loop; "reading" blocked in the decoder; "replying" a
\* response is built; "ended" connectionLifecycle returned; "removed" RemoveConnection called;
\* "done" goroutine finished; "rejected" closed by the accept loop.
Places == {"new", "accepted", "spawned", "loop", "reading", "replying", "ended", "removed",
           "done", "rejected"}

\* The session state each bind command leads to when the user authenticates.
BindState == [bind_receiver |-> "BoundRX", bind_transmitter |-> "BoundTX",
              bind_transceiver |-> "BoundTRX"]
BindCommands == DOMAIN BindState

\* States in which a session may submit.
TransmitStates == {"BoundTX", "BoundTRX"}

\* Connections whose goroutine exists and has not finished.
Handling == {c \in Conns : pc[c] \in {"spawned", "loop", "reading", "replying", "ended", "removed"}}

-----------------------------------------------------------------------------
Init ==
    /\ running = FALSE /\ listener = "nil" /\ doneClosed = FALSE /\ ctxDone = FALSE
    /\ wg = 0 /\ starts = 0 /\ starter = "idle" /\ stopper = "idle"
    /\ panicked = FALSE /\ acceptors = 0 /\ tickers = 0 /\ sweep = {}
    /\ pc = [c \in Conns |-> "new"]
    /\ state = [c \in Conns |-> "nil"]
    /\ active = [c \in Conns |-> FALSE]
    /\ sockOpen = [c \in Conns |-> FALSE]
    /\ idle = [c \in Conns |-> FALSE]
    /\ pdus = [c \in Conns |-> 0]
    /\ jobs = [c \in Conns |-> 0]
    /\ connections = {} /\ bus = <<>> /\ lost = {} /\ target = {}

-----------------------------------------------------------------------------
(* Event bus, publishing side *)

\* Fault (for TypeOK): an append without the capacity test.
publishAsyncUnbounded(e) == bus' = Append(bus, e) /\ UNCHANGED lost

\* publishAsync: a send that never blocks. A full channel drops the event, and so may a
\* cancelled context (Go picks one of the ready cases); every caller ignores the error.
publishAsync(e) ==
    \/ /\ Len(bus) < BufferSize
       /\ bus' = Append(bus, e)
       /\ UNCHANGED lost
    \/ /\ Len(bus) >= BufferSize \/ ctxDone
       /\ lost' = IF e.type \in {"Connected", "Disconnected"} THEN lost \cup {e} ELSE lost
       /\ UNCHANGED bus

-----------------------------------------------------------------------------
(* Start and Stop *)

\* Start, first critical section: refuse a running server, else mark it running.
StartBegin ==
    /\ starter = "idle" /\ ~running /\ starts < MaxStarts
    /\ running' = TRUE /\ starter' = "listen" /\ starts' = starts + 1
    /\ UNCHANGED <<listener, doneClosed, ctxDone, wg, stopper, panicked, acceptors,
                   tickers, sweep, connVars, sharedVars>>

\* Start, listening succeeded: the accept loop and the periodic tasks are started. The address
\* must be free, so no listener of this server may still be open.
StartListening ==
    /\ starter = "listen" /\ listener # "open"
    /\ listener' = "open" /\ starter' = "idle"
    /\ acceptors' = acceptors + 1 /\ tickers' = tickers + 1 /\ wg' = wg + 2
    /\ UNCHANGED <<running, doneClosed, ctxDone, starts, stopper, panicked, sweep,
                   connVars, sharedVars>>

\* Start, certificate or listen error: the server is marked stopped again.
StartFails ==
    /\ starter = "listen"
    /\ starter' = "idle" /\ running' = FALSE
    /\ UNCHANGED <<listener, doneClosed, ctxDone, wg, starts, stopper, panicked,
                   acceptors, tickers, sweep, connVars, sharedVars>>

\* Stop, critical section.
StopBegin ==
    /\ stopper = "idle" /\ running
    /\ running' = FALSE /\ stopper' = "closing"
    /\ UNCHANGED <<listener, doneClosed, ctxDone, wg, starts, starter, panicked,
                   acceptors, tickers, sweep, connVars, sharedVars>>

\* Stop: close the listener if there is one, then close(s.done). NewServer alone makes the
\* channel, so closing it a second time panics.
StopSignal ==
    /\ stopper = "closing"
    /\ listener' = IF listener = "open" THEN "closed" ELSE listener
    /\ doneClosed' = TRUE
    /\ panicked' = doneClosed
    /\ stopper' = "waiting"
    /\ UNCHANGED <<running, ctxDone, wg, starts, starter, acceptors, tickers, sweep,
                   connVars, sharedVars>>

\* Stop returns: gracefully once wg is zero, but after five seconds in any case.
StopReturns ==
    /\ stopper = "waiting"
    /\ stopper' = "idle"
    /\ UNCHANGED <<running, listener, doneClosed, ctxDone, wg, starts, starter, panicked,
                   acceptors, tickers, sweep, connVars, sharedVars>>

\* The application cancels the context it passed to Start.
CancelContext ==
    /\ starts > 0 /\ ~ctxDone
    /\ ctxDone' = TRUE
    /\ UNCHANGED <<running, listener, doneClosed, wg, starts, starter, stopper, panicked,
                   acceptors, tickers, sweep, connVars, sharedVars>>
-----------------------------------------------------------------------------
(* The accept loop *)

InHand == {c \in Conns : pc[c] = "accepted"}

\* listener.Accept returns a connection.
Accept(c) ==
    /\ Cardinality(InHand) < acceptors
    /\ listener = "open" /\ ~doneClosed
    /\ pc[c] = "new"
    /\ pc' = [pc EXCEPT ![c] = "accepted"]
    /\ sockOpen' = [sockOpen EXCEPT ![c] = TRUE]
    /\ UNCHANGED <<serverVars, state, active, idle, pdus, jobs, sharedVars>>

\* The limit is compared with the number of registered connections: refuse and close.
Refuse(c) ==
    /\ pc[c] = "accepted"
    /\ Cardinality(connections) >= MaxConnections
    /\ pc' = [pc EXCEPT ![c] = "rejected"]
    /\ sockOpen' = [sockOpen EXCEPT ![c] = FALSE]
    /\ UNCHANGED <<serverVars, state, active, idle, pdus, jobs, sharedVars>>

\* Fault (for WaitGroupExact): the goroutine is started without wg.Add(1).
SpawnUncounted(c) ==
    /\ pc[c] = "accepted" /\ Cardinality(connections) < MaxConnections
    /\ pc' = [pc EXCEPT ![c] = "spawned"]
    /\ UNCHANGED <<serverVars, state, active, sockOpen, idle, pdus, jobs, sharedVars>>

\* Fault (for StopDrains): a connection accepted during Stop is neither served nor closed.
SpawnUnlessStopping(c) ==
    /\ pc[c] = "accepted" /\ ~doneClosed /\ Cardinality(connections) < MaxConnections
    /\ wg' = wg + 1
    /\ pc' = [pc EXCEPT ![c] = "spawned"]
    /\ UNCHANGED <<running, listener, doneClosed, ctxDone, starts, starter, stopper, panicked,
                   acceptors, tickers, sweep, state, active, sockOpen, idle, pdus, jobs,
                   sharedVars>>

\* Below the limit: wg.Add(1) and a new handleConnection goroutine.
Spawn(c) ==
    /\ pc[c] = "accepted"
    /\ Cardinality(connections) < MaxConnections
    /\ wg' = wg + 1
    /\ pc' = [pc EXCEPT ![c] = "spawned"]
    /\ UNCHANGED <<running, listener, doneClosed, ctxDone, starts, starter, stopper, panicked,
                   acceptors, tickers, sweep, state, active, sockOpen, idle,
                   pdus, jobs, sharedVars>>

\* The loop notices s.done at its top or after the closed listener's error.
AcceptorExits ==
    /\ doneClosed /\ Cardinality(InHand) < acceptors
    /\ acceptors' = acceptors - 1 /\ wg' = wg - 1
    /\ UNCHANGED <<running, listener, doneClosed, ctxDone, starts, starter, stopper, panicked,
                   tickers, sweep, connVars, sharedVars>>

-----------------------------------------------------------------------------
(* periodicTasks *)

\* The ticker fires: cleanupInactiveConnections copies the registered connections. A tick and
\* a closed done channel may both be ready, so a sweep can still start after Stop.
SweepBegins ==
    /\ tickers > 0 /\ sweep = {} /\ connections # {}
    /\ sweep' = connections
    /\ UNCHANGED <<running, listener, doneClosed, ctxDone, wg, starts, starter, stopper,
                   panicked, acceptors, tickers, connVars, sharedVars>>

\* Fault (for ServedIsRegistered): the idle connection is forgotten but not closed.
SweepWithoutClose(c) ==
    /\ c \in sweep
    /\ sweep' = sweep \ {c}
    /\ connections' = IF idle[c] THEN connections \ {c} ELSE connections
    /\ UNCHANGED <<running, listener, doneClosed, ctxDone, wg, starts, starter, stopper, panicked,
                   acceptors, tickers, connVars, bus, lost, target>>

\* Fault (for StaleEntriesGo): only connections whose socket is still open are swept.
SweepOpenOnly(c) ==
    /\ c \in sweep
    /\ sweep' = sweep \ {c}
    /\ IF idle[c] /\ sockOpen[c]
       THEN /\ active' = [active EXCEPT ![c] = FALSE]
            /\ sockOpen' = [sockOpen EXCEPT ![c] = FALSE]
            /\ connections' = connections \ {c}
       ELSE UNCHANGED <<active, sockOpen, connections>>
    /\ UNCHANGED <<running, listener, doneClosed, ctxDone, wg, starts, starter, stopper, panicked,
                   acceptors, tickers, pc, state, idle, pdus, jobs, bus, lost, target>>

\* One iteration: an idle connection is closed and removed from the manager, whatever its own
\* goroutine is doing and even when it is no longer registered.
SweepConnection(c) ==
    /\ c \in sweep
    /\ sweep' = sweep \ {c}
    /\ IF idle[c]
       THEN /\ active' = [active EXCEPT ![c] = FALSE]
            /\ sockOpen' = [sockOpen EXCEPT ![c] = FALSE]
            /\ connections' = connections \ {c}
       ELSE UNCHANGED <<active, sockOpen, connections>>
    /\ UNCHANGED <<running, listener, doneClosed, ctxDone, wg, starts, starter, stopper,
                   panicked, acceptors, tickers, pc, state, idle, pdus, jobs,
                   bus, lost, target>>

\* The periodic goroutine notices s.done between two sweeps.
TickerExits ==
    /\ doneClosed /\ tickers > 0 /\ sweep = {}
    /\ tickers' = tickers - 1 /\ wg' = wg - 1
    /\ UNCHANGED <<running, listener, doneClosed, ctxDone, starts, starter, stopper, panicked,
                   acceptors, sweep, connVars, sharedVars>>

\* IdleTimeout passes without a PDU read or sent on the connection.
BecomesIdle(c) ==
    /\ state[c] # "nil" /\ ~idle[c]
    /\ idle' = [idle EXCEPT ![c] = TRUE]
    /\ UNCHANGED <<serverVars, pc, state, active, sockOpen, pdus, jobs, sharedVars>>

-----------------------------------------------------------------------------
(* handleConnection and connectionLifecycle *)

\* The goroutine starts: the connection becomes active, a session is created and attached,
\* and the Connected event that carries the connection is published.
Open(c) ==
    /\ pc[c] = "spawned"
    /\ pc' = [pc EXCEPT ![c] = "loop"]
    /\ active' = [active EXCEPT ![c] = TRUE]
    /\ state' = [state EXCEPT ![c] = "Open"]
    /\ publishAsync(Event("Connected", c))
    /\ UNCHANGED <<serverVars, sockOpen, idle, pdus, jobs, connections, target>>

\* Top of the loop: return when the server stops or the context is cancelled, else read.
LoopTop(c) ==
    /\ pc[c] = "loop"
    /\ pc' = [pc EXCEPT ![c] = IF doneClosed \/ ctxDone THEN "ended" ELSE "reading"]
    /\ UNCHANGED <<serverVars, state, active, sockOpen, idle, pdus, jobs, sharedVars>>

\* connectionLifecycle returns from the decoder; its error is only logged.
ReadEnds(c) ==
    /\ pc[c] = "reading"
    /\ pc' = [pc EXCEPT ![c] = "ended"]
    /\ UNCHANGED <<serverVars, state, active, sockOpen, idle, jobs, sharedVars>>

\* The peer closed the connection, sent garbage, or the server closed the socket.
ReadError(c) == ReadEnds(c) /\ UNCHANGED pdus

\* The read deadline set once by handleConnection passes. The decoder wraps the error, so the
\* test err.(net.Error) fails and the loop returns instead of continuing.
ReadTimeout(c) == sockOpen[c] /\ ReadEnds(c) /\ UNCHANGED pdus

\* A documented request for which createPDUBody has no case: query_sm, replace_sm, cancel_sm,
\* submit_multi or data_sm. Their handlers behind handlePDU are therefore never reached.
ReadUndecodable(c) ==
    /\ sockOpen[c] /\ pdus[c] < MaxPDUs
    /\ pdus' = [pdus EXCEPT ![c] = @ + 1]
    /\ ReadEnds(c)

\* A decoded PDU: both activity times are refreshed before handlePDU runs.
ReadPDU(c) ==
    /\ pc[c] = "reading" /\ sockOpen[c] /\ pdus[c] < MaxPDUs
    /\ pdus' = [pdus EXCEPT ![c] = @ + 1]
    /\ idle' = [idle EXCEPT ![c] = FALSE]

Replying(c) == pc' = [pc EXCEPT ![c] = "replying"]

\* handleBindReceiver, handleBindTransmitter, handleBindTransceiver. The user store (external
\* to the server) decides; a session may bind again in any state. Only the transceiver
\* handler publishes a Bound event.
HandleBind(c, cmd) ==
    /\ ReadPDU(c) /\ Replying(c)
    /\ \/ /\ state' = [state EXCEPT ![c] = BindState[cmd]]
          /\ IF cmd = "bind_transceiver"
             THEN publishAsync(Event("Bound", c))
             ELSE UNCHANGED <<bus, lost>>
       \/ UNCHANGED <<state, bus, lost>>   \* StatusInvPaswd
    /\ UNCHANGED <<serverVars, active, sockOpen, jobs, connections, target>>

\* handleSubmitSM of a session that may transmit, accepted by the message handler: the message
\* is announced and a ProcessMessage goroutine is spawned before the response is sent.
HandleSubmitSM(c) ==
    /\ ReadPDU(c) /\ Replying(c)
    /\ state[c] \in TransmitStates
    /\ jobs' = [jobs EXCEPT ![c] = @ + 1]
    /\ publishAsync(Event("SMSSubmitted", c))
    /\ UNCHANGED <<serverVars, state, active, sockOpen, connections, target>>

\* PDUs answered without an effect on shared state: submit_sm refused with StatusInvBnd or,
\* by the message handler, with StatusSysErr; enquire_link; generic_nack for
\* a decoded PDU that handlePDU does not route (a response, deliver_sm).
HandleWithoutEffect(c) ==
    /\ ReadPDU(c) /\ Replying(c)
    /\ UNCHANGED <<serverVars, state, active, sockOpen, jobs, sharedVars>>

\* deliver_sm_resp is not answered.
HandleDeliverSMResp(c) ==
    /\ ReadPDU(c)
    /\ pc' = [pc EXCEPT ![c] = "loop"]
    /\ UNCHANGED <<serverVars, state, active, sockOpen, jobs, sharedVars>>

\* handleUnbind.
HandleUnbind(c) ==
    /\ ReadPDU(c) /\ Replying(c)
    /\ state' = [state EXCEPT ![c] = "Unbound"]
    /\ publishAsync(Event("Unbound", c))
    /\ UNCHANGED <<serverVars, active, sockOpen, jobs, connections, target>>

\* Fault (for UnboundIsFinal): the loop does not look at the session state after a reply.
AfterReplyAlwaysLoop(c) == pc' = [pc EXCEPT ![c] = "loop"]

\* After the response: an unbound session ends, any other goes back to reading.
AfterReply(c) ==
    pc' = [pc EXCEPT ![c] = IF state[c] = "Unbound" THEN "ended" ELSE "loop"]

\* ServerConnection.Send succeeds: lastActivity is refreshed.
SendReply(c) ==
    /\ pc[c] = "replying" /\ active[c] /\ sockOpen[c]
    /\ idle' = [idle EXCEPT ![c] = FALSE]
    /\ AfterReply(c)
    /\ UNCHANGED <<serverVars, state, active, sockOpen, pdus, jobs, sharedVars>>

\* Send fails: the connection is no longer active, or the write fails and deactivates it.
SendReplyFails(c) ==
    /\ pc[c] = "replying"
    /\ active' = [active EXCEPT ![c] = FALSE]
    /\ pc' = [pc EXCEPT ![c] = "ended"]
    /\ UNCHANGED <<serverVars, state, sockOpen, idle, pdus, jobs, sharedVars>>

\* Back in handleConnection: the manager entry is removed directly, not through the bus.
Unregister(c) ==
    /\ pc[c] = "ended"
    /\ pc' = [pc EXCEPT ![c] = "removed"]
    /\ connections' = connections \ {c}
    /\ UNCHANGED <<serverVars, state, active, sockOpen, idle, pdus, jobs, bus, lost, target>>

\* Fault (for NoStaleEntry): no Disconnected event, as the entry was removed directly.
FinishSilently(c) ==
    /\ pc[c] = "removed"
    /\ pc' = [pc EXCEPT ![c] = "done"]
    /\ sockOpen' = [sockOpen EXCEPT ![c] = FALSE]
    /\ wg' = wg - 1
    /\ UNCHANGED <<running, listener, doneClosed, ctxDone, starts, starter, stopper, panicked,
                   acceptors, tickers, sweep, state, active, idle, pdus, jobs, sharedVars>>

\* The Disconnected event is published, then the deferred Close and wg.Done run. Nothing sets
\* active to FALSE here.
Finish(c) ==
    /\ pc[c] = "removed"
    /\ publishAsync(Event("Disconnected", c))
    /\ pc' = [pc EXCEPT ![c] = "done"]
    /\ sockOpen' = [sockOpen EXCEPT ![c] = FALSE]
    /\ wg' = wg - 1
    /\ UNCHANGED <<running, listener, doneClosed, ctxDone, starts, starter, stopper, panicked,
                   acceptors, tickers, sweep, state, active, idle, pdus, jobs,
                   connections, target>>

-----------------------------------------------------------------------------
(* The goroutine spawned by HandleSubmitSM, as the server sees it *)

\* ProcessMessage ends with a DeliveryReport event for the session, or without one (no receipt
\* requested, or an error). It is not counted by wg and outlives the connection.
ProcessMessage(c) ==
    /\ jobs[c] > 0
    /\ jobs' = [jobs EXCEPT ![c] = @ - 1]
    /\ \/ publishAsync(Event("DeliveryReport", c))
       \/ UNCHANGED <<bus, lost>>
    /\ UNCHANGED <<serverVars, pc, state, active, sockOpen, idle, pdus, connections,
                   target>>

-----------------------------------------------------------------------------
(* Event bus, dispatching side: one goroutine, one event at a time *)

\* ConnectionManagerEventHandler adds and removes; DeliveryReportSender looks its connection up
\* and gives up when there is none; every other handler only logs.
Dispatch ==
    /\ bus # <<>> /\ target = {}
    /\ bus' = Tail(bus)
    /\ LET e == Head(bus) IN
       /\ connections' = CASE e.type = "Connected"    -> connections \cup {e.conn}
                            [] e.type = "Disconnected" -> connections \ {e.conn}
                            [] OTHER                   -> connections
       /\ target' = IF e.type = "DeliveryReport" THEN {e.conn} \cap connections ELSE {}
    /\ UNCHANGED <<serverVars, connVars, lost>>

\* DeliveryReportSender sends the receipt on the connection it found, which may have been
\* closed since. A write that fails deactivates the connection.
SendReceipt(c) ==
    /\ c \in target
    /\ target' = {}
    /\ \/ /\ active[c] /\ sockOpen[c]
          /\ idle' = [idle EXCEPT ![c] = FALSE]
          /\ UNCHANGED active
       \/ /\ active' = [active EXCEPT ![c] = FALSE]
          /\ UNCHANGED idle
    /\ UNCHANGED <<serverVars, pc, state, sockOpen, pdus, jobs, connections, bus, lost>>

-----------------------------------------------------------------------------
ServerStep == StartBegin \/ StartListening \/ StartFails \/ StopBegin \/ StopSignal
              \/ StopReturns \/ CancelContext

LoopStep == AcceptorExits \/ SweepBegins \/ TickerExits
            \/ \E c \in Conns : Accept(c) \/ Refuse(c) \/ Spawn(c) \/ SweepConnection(c)

Handle(c) == \/ \E cmd \in BindCommands : HandleBind(c, cmd)
             \/ HandleSubmitSM(c) \/ HandleWithoutEffect(c) \/ HandleDeliverSMResp(c)
             \/ HandleUnbind(c) \/ ReadUndecodable(c)

ConnStep(c) == \/ Open(c) \/ LoopTop(c) \/ ReadError(c) \/ ReadTimeout(c) \/ Handle(c)
               \/ SendReply(c) \/ SendReplyFails(c) \/ Unregister(c) \/ Finish(c)

Next ==
    /\ ~panicked
    /\ \/ ServerStep \/ LoopStep \/ Dispatch
       \/ \E c \in Conns : ConnStep(c) \/ ProcessMessage(c) \/ SendReceipt(c) \/ BecomesIdle(c)

Spec == Init /\ [][Next]_vars

\* Scheduling the Go runtime and the timers give: goroutines that can run do run, the
\* dispatcher and the sweeper keep going, time passes and the read deadline expires. Nothing
\* is assumed of clients, of the callers of Start and Stop, or of the peer's network.
Fairness ==
    /\ WF_vars(~panicked /\ Dispatch)
    /\ WF_vars(~panicked /\ SweepBegins)
    /\ WF_vars(~panicked /\ AcceptorExits)
    /\ WF_vars(~panicked /\ TickerExits)
    /\ \A c \in Conns :
        /\ WF_vars(~panicked /\ SendReceipt(c))
        /\ WF_vars(~panicked /\ SweepConnection(c))
        /\ WF_vars(~panicked /\ BecomesIdle(c))
        /\ WF_vars(~panicked /\ (Refuse(c) \/ Spawn(c)))
        /\ WF_vars(~panicked /\ (Open(c) \/ LoopTop(c) \/ ReadTimeout(c) \/ ReadError(c)))
        /\ WF_vars(~panicked /\ (SendReply(c) \/ SendReplyFails(c)))
        /\ WF_vars(~panicked /\ (Unregister(c) \/ Finish(c)))

FairSpec == Spec /\ Fairness

-----------------------------------------------------------------------------
(* Properties *)

Queued(t, c) == \E i \in DOMAIN bus : bus[i] = Event(t, c)

ServerTypes ==
    /\ running \in BOOLEAN /\ doneClosed \in BOOLEAN /\ ctxDone \in BOOLEAN /\ panicked \in BOOLEAN
    /\ listener \in {"nil", "open", "closed"}
    /\ wg \in Int /\ starts \in 0 .. MaxStarts
    /\ starter \in {"idle", "listen"} /\ stopper \in {"idle", "closing", "waiting"}
    /\ acceptors \in Nat /\ tickers \in Nat
    /\ sweep \subseteq Conns

ConnTypes ==
    /\ pc \in [Conns -> Places]
    /\ state \in [Conns -> SessionStates]
    /\ active \in [Conns -> BOOLEAN]
    /\ sockOpen \in [Conns -> BOOLEAN]
    /\ idle \in [Conns -> BOOLEAN]
    /\ pdus \in [Conns -> 0 .. MaxPDUs]
    /\ jobs \in [Conns -> Nat]

SharedTypes ==
    /\ connections \subseteq Conns
    /\ bus \in Seq(Events) /\ Len(bus) <= BufferSize
    /\ lost \subseteq Events
    /\ target \subseteq Conns

\* Every variable has its type; in particular the bus never holds more than its capacity.
TypeOK == ServerTypes /\ ConnTypes /\ SharedTypes

\* A finished connection is still registered only while its Disconnected event waits in the
\* bus or after the full bus dropped that event. The direct RemoveConnection of
\* handleConnection can run before the queued Connected event registers the connection, so
\* this rests on the bus being first-in first-out and on Connected being published first.
NoStaleEntry ==
    \A c \in connections :
        pc[c] = "done" => Queued("Disconnected", c) \/ Event("Disconnected", c) \in lost

\* A session that is being served can be found by the delivery report sender, is about to be,
\* lost its Connected event to a full bus, or had its socket closed by the idle sweeper.
ServedIsRegistered ==
    \A c \in Conns :
        pc[c] \in {"loop", "reading", "replying"} =>
            \/ c \in connections
            \/ Queued("Connected", c)
            \/ Event("Connected", c) \in lost
            \/ ~sockOpen[c]

\* Server.wg counts exactly the goroutines that have not called Done: an accept loop, a
\* periodic task, a connection from the accept loop's Add(1) to its deferred Done. So when
\* Stop's wait ends because wg is zero, nothing of the server runs and nothing can start.
WaitGroupExact == wg = acceptors + tickers + Cardinality(Handling)

\* Unbind is final: the session accepts no message and never changes state again.
UnboundIsFinal ==
    [][\A c \in Conns : state[c] = "Unbound" => state'[c] = "Unbound" /\ jobs'[c] <= jobs[c]]_vars

\* An entry left behind in the connection manager by a finished connection disappears while
\* the server runs: by the queued Disconnected event or, when it was dropped, by the sweeper.
StaleEntriesGo ==
    \A c \in Conns :
        (pc[c] = "done" /\ c \in connections) ~> (c \notin connections \/ doneClosed \/ panicked)

\* Once the done channel is closed every goroutine of the server ends, however long after Stop
\* itself returned.
StopDrains == doneClosed ~> (panicked \/ (Handling = {} /\ InHand = {}))

-----------------------------------------------------------------------------
(* The inductive strengthening of NoStaleEntry and ServedIsRegistered *)

\* In the bus a connection's Connected event is ahead of its Disconnected event.
BusOrdered ==
    \A i, j \in DOMAIN bus : \A c \in Conns :
        bus[i] = Event("Connected", c) /\ bus[j] = Event("Disconnected", c) => i < j

\* A Disconnected event is published by the last step of its connection's goroutine.
DisconnectedIsLast ==
    \A i \in DOMAIN bus : bus[i].type = "Disconnected" => pc[bus[i].conn] = "done"

\* A finished connection that is registered, or that a queued Connected event will register,
\* has its Disconnected event queued or dropped.
RemovalPending ==
    \A c \in Conns :
        pc[c] = "done" /\ (c \in connections \/ Queued("Connected", c))
            => Queued("Disconnected", c) \/ Event("Disconnected", c) \in lost

RegistryInv == BusOrdered /\ DisconnectedIsLast /\ RemovalPending /\ ServedIsRegistered

-----------------------------------------------------------------------------
(* What the documentation says and the code does not do *)

\* server.go:860 "IsRunning returns true if the server is running".
RunningMeansAccepting == running /\ starter = "idle" => acceptors > 0
=============================================================================
