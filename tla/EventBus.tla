------------------------------- MODULE EventBus -------------------------------
(***************************************************************************)
(* The asynchronous event bus of pkg/events/eventbus.go for any number of  *)
(* event types and handlers: the subscriber lists, publishAsync, the one   *)
(* dispatcher goroutine and Close. SmppServer models what the server makes *)
(* of the bus; this module is about the bus itself while subscriptions     *)
(* change and while it is being closed.                                    *)
(*                                                                         *)
(* A handler may do anything but call Close, which would wait for itself.  *)
(***************************************************************************)
EXTENDS Integers, Sequences, SequencesExt

CONSTANTS
    EventTypes,  \* smpp.EventType
    HandlerIDs,  \* what GetHandlerID returns
    ChanSize,    \* bufferSize of NewAsyncEventBus
    MaxEvents    \* bound: events that are accepted

ASSUME BusAssumption == ChanSize \in Nat /\ MaxEvents \in Nat

VARIABLES
    subscribers,  \* EventBus.subscribers: the handlers of each type, in order
    eventChan,    \* AsyncEventBus.eventChan; an event is known by its place in accepted
    dispatcher,   \* the goroutine of start: where it is, its event, the handlers still to call
    closer,       \* the caller of Close: "idle", "waiting" (done is closed), "closed"
    crashed,      \* an unrecovered panic took the process down
    \* --- history ---
    accepted,     \* types of the events publishAsync accepted, in order
    handled,      \* the events each handler was called with, in order
    since,        \* Len(accepted) when the handler subscribed to the type, -1 if it is not
    late          \* calls of a handler since it is no longer subscribed to the type

busVars == <<subscribers, eventChan, dispatcher, closer, crashed, accepted, handled, since, late>>

NoHandlers == [t \in EventTypes |-> <<>>]
AtSelect == [at |-> "select", event |-> 0, todo |-> <<>>]

BusInit ==
    /\ subscribers = NoHandlers
    /\ eventChan = <<>>
    /\ dispatcher = AtSelect
    /\ closer = "idle" /\ crashed = FALSE
    /\ accepted = <<>>
    /\ handled = [h \in HandlerIDs |-> <<>>]
    /\ since = [t \in EventTypes |-> [h \in HandlerIDs |-> -1]]
    /\ late = [t \in EventTypes |-> [h \in HandlerIDs |-> 0]]

-----------------------------------------------------------------------------
(* Subscriptions *)

\* Subscribe refuses a handler ID that is already there.
Subscribe(t, h) ==
    /\ ~Contains(subscribers[t], h)
    /\ subscribers' = [subscribers EXCEPT ![t] = Append(@, h)]
    /\ since' = [since EXCEPT ![t][h] = Len(accepted)]
    /\ late' = [late EXCEPT ![t][h] = 0]
    /\ UNCHANGED <<eventChan, dispatcher, closer, crashed, accepted, handled>>

\* Fault (for OneLateCall): the slice is cut but never stored back.
UnsubscribeKept(t, h) ==
    /\ Contains(subscribers[t], h)
    /\ since' = [since EXCEPT ![t][h] = -1]
    /\ UNCHANGED <<subscribers, eventChan, dispatcher, closer, crashed, accepted, handled, late>>

\* Unsubscribe refuses an unknown handler ID.
Unsubscribe(t, h) ==
    /\ \E i \in 1..Len(subscribers[t]) :
         /\ subscribers[t][i] = h
         /\ subscribers' = [subscribers EXCEPT ![t] = RemoveAt(@, i)]
    /\ since' = [since EXCEPT ![t][h] = -1]
    /\ UNCHANGED <<eventChan, dispatcher, closer, crashed, accepted, handled, late>>

\* Clear forgets every subscriber.
Clear ==
    /\ subscribers # NoHandlers
    /\ subscribers' = NoHandlers
    /\ since' = [t \in EventTypes |-> [h \in HandlerIDs |-> -1]]
    /\ UNCHANGED <<eventChan, dispatcher, closer, crashed, accepted, handled, late>>

-----------------------------------------------------------------------------
(* Publishing: a send that never blocks *)

\* There is room: the event is queued, whether or not the bus is being closed.
PublishAccepted(t) ==
    /\ closer # "closed" /\ Len(eventChan) < ChanSize
    /\ Len(accepted) < MaxEvents
    /\ accepted' = Append(accepted, t)
    /\ eventChan' = Append(eventChan, Len(accepted'))
    /\ UNCHANGED crashed

\* The channel is full, or the context is cancelled and the select takes that case: dropped.
PublishDropped(t) == UNCHANGED <<eventChan, accepted, crashed>>

\* Close has closed the channel: the send panics in the publisher's goroutine.
PublishPanics(t) ==
    /\ closer = "closed"
    /\ crashed' = TRUE
    /\ UNCHANGED <<eventChan, accepted>>

publishAsync(t) ==
    /\ PublishAccepted(t) \/ PublishDropped(t) \/ PublishPanics(t)
    /\ UNCHANGED <<subscribers, dispatcher, closer, handled, since, late>>

-----------------------------------------------------------------------------
(* The dispatcher *)

\* The select takes an event.
Receive ==
    /\ dispatcher.at = "select" /\ eventChan # <<>>
    /\ dispatcher' = [at |-> "publish", event |-> Head(eventChan), todo |-> <<>>]
    /\ eventChan' = Tail(eventChan)
    /\ UNCHANGED <<subscribers, closer, crashed, accepted, handled, since, late>>

\* The handlers of the dispatcher's event.
Subscribed == subscribers[accepted[dispatcher.event]]

\* publish copies the subscriber list under the read lock, and calls from the copy.
CopyHandlers ==
    /\ dispatcher.at = "publish"
    /\ dispatcher' = IF Subscribed = <<>> THEN AtSelect
                     ELSE [dispatcher EXCEPT !.at = "call", !.todo = Subscribed]
    /\ UNCHANGED <<subscribers, eventChan, closer, crashed, accepted, handled, since, late>>

\* Fault (for NoMissedEvent): a handler that panics or fails ends the loop.
CallHandlerOnce ==
    /\ dispatcher.at = "call"
    /\ handled' = [handled EXCEPT ![Head(dispatcher.todo)] = Append(@, dispatcher.event)]
    /\ dispatcher' = AtSelect
    /\ UNCHANGED <<subscribers, eventChan, closer, crashed, accepted, since, late>>

\* handleEventSafely: the next handler is called, subscribed or not by now; an error is
\* logged and a panic recovered, so the others follow in either case.
CallHandler ==
    /\ dispatcher.at = "call"
    /\ LET h == Head(dispatcher.todo) IN
       /\ handled' = [handled EXCEPT ![h] = Append(@, dispatcher.event)]
       /\ late' = IF since[accepted[dispatcher.event]][h] # -1 THEN late
                  ELSE [late EXCEPT ![accepted[dispatcher.event]][h] = @ + 1]
    /\ dispatcher' = IF Len(dispatcher.todo) = 1 THEN AtSelect
                     ELSE [dispatcher EXCEPT !.todo = Tail(@)]
    /\ UNCHANGED <<subscribers, eventChan, closer, crashed, accepted, since>>

\* Fault (for CloseReturns): the done case breaks the select and not the loop.
ObserveDoneBreaks ==
    /\ dispatcher.at = "select" /\ closer = "waiting"
    /\ UNCHANGED busVars

\* The select takes the done case; what is still queued is never dispatched.
ObserveDone ==
    /\ dispatcher.at = "select" /\ closer = "waiting"
    /\ dispatcher' = [dispatcher EXCEPT !.at = "gone"]
    /\ UNCHANGED <<subscribers, eventChan, closer, crashed, accepted, handled, since, late>>

-----------------------------------------------------------------------------
(* Close *)

\* close(done).
CloseBegin ==
    /\ closer = "idle"
    /\ closer' = "waiting"
    /\ UNCHANGED <<subscribers, eventChan, dispatcher, crashed, accepted, handled, since, late>>

\* wg.Wait returns and the channel is closed.
CloseEnd ==
    /\ closer = "waiting" /\ dispatcher.at = "gone"
    /\ closer' = "closed"
    /\ UNCHANGED <<subscribers, eventChan, dispatcher, crashed, accepted, handled, since, late>>

\* A second Close closes done again, which panics.
CloseAgain ==
    /\ closer # "idle"
    /\ crashed' = TRUE
    /\ UNCHANGED <<subscribers, eventChan, dispatcher, closer, accepted, handled, since, late>>

-----------------------------------------------------------------------------
Dispatch == ~crashed /\ (Receive \/ CopyHandlers \/ CallHandler \/ ObserveDone)

BusNext ==
    \/ Dispatch
    \/ /\ ~crashed
       /\ \/ \E t \in EventTypes, h \in HandlerIDs : Subscribe(t, h) \/ Unsubscribe(t, h)
          \/ Clear
          \/ \E t \in EventTypes : publishAsync(t)
          \/ CloseBegin \/ CloseEnd \/ CloseAgain

BusSpec == BusInit /\ [][BusNext]_busVars

-----------------------------------------------------------------------------
(* Properties *)

\* A handler that stays subscribed gets every event accepted since it subscribed, once it has
\* been dispatched, whatever other handlers come and go and fail meanwhile (publish). It sees
\* them in the order in which publishAsync accepted them and none twice: the connection manager
\* depends on Disconnected never overtaking Connected (AsyncEventBus.start).
NoMissedEvent ==
    \A h \in HandlerIDs :
        /\ \A t \in EventTypes, i \in DOMAIN accepted :
             (since[t][h] # -1 /\ i > since[t][h] /\ accepted[i] = t) =>
                 \/ Contains(handled[h], i)
                 \/ Contains(eventChan, i)
                 \/ i = dispatcher.event
        /\ \A i, j \in DOMAIN handled[h] : i < j => handled[h][i] < handled[h][j]

\* A handler that unsubscribed is called at most once more, with the event for which the list
\* was copied before (publish calls handlers after it released the lock).
OneLateCall == \A t \in EventTypes, h \in HandlerIDs : late[t][h] <= 1

\* Close returns: the dispatcher stops after its current event, even if publishers keep the
\* channel full.
CloseReturns == closer = "waiting" ~> (closer = "closed" \/ crashed)

-----------------------------------------------------------------------------
(* The inductive invariant behind the two safety properties *)

BusTypeOK ==
    /\ subscribers \in [EventTypes -> Seq(HandlerIDs)]
    /\ eventChan \in Seq(Nat) /\ accepted \in Seq(EventTypes)
    /\ dispatcher \in [at : {"select", "publish", "call", "gone"}, event : Nat, todo : Seq(HandlerIDs)]
    /\ handled \in [HandlerIDs -> Seq(Nat)]
    /\ since \in [EventTypes -> [HandlerIDs -> Int]]
    /\ late \in [EventTypes -> [HandlerIDs -> Nat]]

Distinct(s) == \A i, j \in 1..Len(s) : s[i] = s[j] => i = j

\* The subscriber lists name those whose subscription has begun and not ended, once each.
Subscriptions ==
    /\ \A t \in EventTypes : Distinct(subscribers[t])
    /\ \A t \in EventTypes, h \in HandlerIDs :
         /\ since[t][h] # -1 <=> Contains(subscribers[t], h)
         /\ since[t][h] <= Len(accepted)

\* The events that have left the channel.
Taken == Len(accepted) - Len(eventChan)

\* The channel holds the youngest accepted events in order, the dispatcher the one before.
Dispatched ==
    /\ Taken >= 0 /\ \A k \in 1..Len(eventChan) : eventChan[k] = Taken + k
    /\ IF dispatcher.at \in {"publish", "call"}
       THEN dispatcher.event = Taken /\ dispatcher.event >= 1
       ELSE dispatcher.event = 0
    /\ Distinct(dispatcher.todo) /\ (dispatcher.at = "call" => dispatcher.todo # <<>>)

\* The dispatcher is about to call h with its event.
ToCall(h) == dispatcher.at = "call" /\ Contains(dispatcher.todo, h)

\* No handler has been called with a later event, nor one that is still to be called with it.
CalledInOrder ==
    \A h \in HandlerIDs : \A k \in 1..Len(handled[h]) :
        /\ handled[h][k] <= Taken
        /\ (dispatcher.at = "publish" \/ ToCall(h)) => handled[h][k] < Taken

\* Handlers subscribed before the event are called from the copy or have been; a handler in the
\* copy has not been called since it unsubscribed.
CopyComplete ==
    dispatcher.at = "call" =>
        \A h \in HandlerIDs :
            LET t == accepted[dispatcher.event] IN
            /\ (since[t][h] # -1 /\ dispatcher.event > since[t][h]) =>
                  Contains(dispatcher.todo, h) \/ Contains(handled[h], dispatcher.event)
            /\ Contains(dispatcher.todo, h) => late[t][h] = 0

LateOnlyOutside == \A t \in EventTypes, h \in HandlerIDs : since[t][h] # -1 => late[t][h] = 0

BusInv == BusTypeOK /\ Subscriptions /\ Dispatched /\ CalledInOrder /\ CopyComplete
          /\ LateOnlyOutside /\ NoMissedEvent /\ OneLateCall

=============================================================================
