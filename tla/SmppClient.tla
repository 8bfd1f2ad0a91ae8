------------------------------ MODULE SmppClient ------------------------------
(***************************************************************************)
(* The SMPP client of pkg/smpp/client.go.                                  *)
(*                                                                         *)
(* Processes: the application thread that calls Connect, Bind, SendSMS,    *)
(* Unbind and Disconnect; one readLoop and one periodicTasks goroutine per *)
(* successful Connect; the handleDisconnection goroutines a failing        *)
(* readLoop leaves behind; one reconnect goroutine per lost connection,    *)
(* running the same Connect, Bind and Disconnect as the application.       *)
(*                                                                         *)
(* Connections are numbered in the order in which they become c.conn. The  *)
(* goroutines share c.conn, c.connected, c.bound and c.done and none of    *)
(* them, once started, belongs to one connection.                          *)
(***************************************************************************)
EXTENDS Integers, FiniteSets

CONSTANTS
    MaxAttempts,  \* ClientConfig.MaxReconnectAttempts
    MaxDials,     \* bound: connections that are established
    MaxBinds      \* bound: bind requests that are sent

ASSUME BoundsAssumption == MaxAttempts \in Nat /\ MaxDials \in Nat /\ MaxBinds \in Nat

VARIABLES
    conn,        \* Client.conn: the number of the connection, 0 for nil
    connected,   \* Client.connected
    bound,       \* Client.bound
    sess,        \* Client.session.State; every Connect makes a new session
    doneClosed,  \* Client.done has been closed
    onBind,      \* the installed bind callback: App, or the connection whose rebind installed it
    count,       \* Client.reconnectCount
    panicked,    \* an unrecovered panic took the process down
    sock,        \* each connection at the client: "none", "open", "closed"
    peer,        \* each connection at the server: "none", "open", "bound", "gone"
    asked,       \* bind requests the server has not answered, per connection
    answers,     \* successful bind responses on their way to the client, per connection
    dials, binds,\* connections established and bind requests sent so far (bounds)
    reader,      \* the readLoop goroutine that each successful Connect started
    source,      \* the connection it took from c.conn for its current read
    calling,     \* the bind callback it is blocked in
    tickers,     \* periodicTasks goroutines that have not returned
    losers,      \* handleDisconnection goroutines that have not locked c.mu yet
    at,          \* where each thread that runs Connect, Bind or Disconnect is
    made,        \* the connection its latest Connect established
    old,         \* the reconnectCount it has read and not yet written back
    signalled,   \* the bindDone channel made for rebinding on each connection is full
    stray        \* history: a submit_sm was written to a connection that is not bound

client == <<conn, connected, bound, sess, doneClosed, onBind, count, panicked>>
network == <<sock, peer, asked, answers, dials, binds>>
loops == <<reader, source, calling, tickers, losers>>
threads == <<at, made, old, signalled, stray>>
vars == <<client, network, loops, threads>>

-----------------------------------------------------------------------------
(* Vocabulary *)

\* A connection is lost at most once, so its number names the reconnect goroutine this starts.
Connections == 1 .. MaxDials
App == 0
Threads == {App} \cup Connections

ReaderRuns(g) == reader[g] \notin {"none", "exited"}

\* Client.wg
wg == Cardinality({g \in Connections : ReaderRuns(g)}) + tickers

Go(t, p) == at' = [at EXCEPT ![t] = p]

\* Where a thread goes when Connect or Disconnect fails or Disconnect is through: the
\* application gets the result, a reconnect goroutine continues its loop.
Back(t) == IF t = App THEN "idle" ELSE "retry"

-----------------------------------------------------------------------------
Init ==
    /\ conn = 0 /\ connected = FALSE /\ bound = FALSE /\ sess = "nil"
    /\ doneClosed = FALSE
    /\ onBind = App /\ count = 0 /\ panicked = FALSE
    /\ sock = [g \in Connections |-> "none"]
    /\ peer = [g \in Connections |-> "none"]
    /\ asked = [g \in Connections |-> 0]
    /\ answers = [g \in Connections |-> 0]
    /\ dials = 0 /\ binds = 0
    /\ reader = [g \in Connections |-> "none"]
    /\ source = [g \in Connections |-> 0]
    /\ calling = [g \in Connections |-> App]
    /\ tickers = 0 /\ losers = 0
    /\ at = [t \in Threads |-> IF t = App THEN "idle" ELSE "none"]
    /\ made = [t \in Threads |-> 0]
    /\ old = [t \in Threads |-> 0]
    /\ signalled = [g \in Connections |-> FALSE]
    /\ stray = FALSE

-----------------------------------------------------------------------------
(* Connect *)

\* The first critical section only reads c.connected; the dial happens outside the lock.
ConnectBegins(t) ==
    /\ \/ t = App /\ at[t] = "idle" /\ ~connected
       \/ t # App /\ at[t] = "connect"
    /\ Go(t, IF connected THEN Back(t) ELSE "dialing")
    /\ UNCHANGED <<client, network, loops, made, old, signalled, stray>>

DialFails(t) ==
    /\ at[t] = "dialing"
    /\ Go(t, Back(t))
    /\ UNCHANGED <<client, network, loops, made, old, signalled, stray>>

\* The second critical section installs the connection, without looking at c.connected again.
\* c.bound keeps its value and c.done is never made anew.
Dialled(t) ==
    /\ at[t] = "dialing" /\ dials < MaxDials
    /\ dials' = dials + 1
    /\ conn' = dials + 1
    /\ connected' = TRUE
    /\ sess' = "Open"
    /\ sock' = [sock EXCEPT ![dials + 1] = "open"]
    /\ peer' = [peer EXCEPT ![dials + 1] = "open"]
    /\ made' = [made EXCEPT ![t] = dials + 1]
    /\ Go(t, "spawning")
    /\ UNCHANGED <<bound, doneClosed, onBind, count, panicked, asked, answers, binds, loops,
                   old, signalled, stray>>

\* The goroutines are started after the unlock. A reconnect goroutine goes on to bind and
\* installs a bind callback of its own, in place of the application's.
SpawnLoops(t) ==
    /\ at[t] = "spawning"
    /\ reader' = [reader EXCEPT ![made[t]] = "top"]
    /\ tickers' = tickers + 1
    /\ Go(t, IF t = App THEN "idle" ELSE "bind")
    /\ onBind' = IF t = App THEN onBind ELSE made[t]
    /\ UNCHANGED <<conn, connected, bound, sess, doneClosed, count, panicked, network, source,
                   calling, losers, made, old, signalled, stray>>

-----------------------------------------------------------------------------
(* Bind, Unbind and SendSMS *)

\* sendPDU: the write goes to whatever c.conn is now.
Writable == connected /\ conn # 0 /\ sock[conn] = "open"

\* Bind sends its request and does not wait for the response.
BindSends(t) ==
    /\ \/ t = App /\ at[t] = "idle"
       \/ t # App /\ at[t] = "bind"
    /\ connected /\ ~bound /\ Writable /\ binds < MaxBinds
    /\ binds' = binds + 1
    /\ asked' = [asked EXCEPT ![conn] = IF peer[conn] = "gone" THEN @ ELSE @ + 1]
    /\ Go(t, IF t = App THEN "idle" ELSE "awaiting")
    /\ UNCHANGED <<client, sock, peer, answers, dials, loops, made, old, signalled, stray>>

\* Bind of a reconnect goroutine fails: not connected, already bound, or the write fails.
BindFails(t) ==
    /\ t # App /\ at[t] = "bind"
    /\ Go(t, "disconnect")
    /\ UNCHANGED <<client, network, loops, made, old, signalled, stray>>

\* Unbind checks, sends without waiting for the response...
UnbindSends ==
    /\ at[App] = "idle" /\ bound /\ Writable
    /\ Go(App, "unbinding")
    /\ UNCHANGED <<client, network, loops, made, old, signalled, stray>>

\* ... and then marks the client unbound.
UnbindMarks ==
    /\ at[App] = "unbinding"
    /\ bound' = FALSE
    /\ sess' = "Unbound"
    /\ Go(App, "idle")
    /\ UNCHANGED <<conn, connected, doneClosed, onBind, count, panicked, network, loops, made,
                   old, signalled, stray>>

\* Fault (for StraySubmitNeedsRedial): only the connection is looked at.
SendSMSChecksConnected ==
    /\ at[App] = "idle" /\ connected
    /\ Go(App, "sending")
    /\ UNCHANGED <<client, network, loops, made, old, signalled, stray>>

\* SendSMS looks at c.bound and at the session under the lock...
SendSMSChecks ==
    /\ at[App] = "idle" /\ bound /\ sess = "BoundTRX"
    /\ Go(App, "sending")
    /\ UNCHANGED <<client, network, loops, made, old, signalled, stray>>

\* ... and writes, or fails, after releasing it.
SendSMSWrites ==
    /\ at[App] = "sending"
    /\ stray' = (stray \/ (Writable /\ peer[conn] = "open"))
    /\ Go(App, "idle")
    /\ UNCHANGED <<client, network, loops, made, old, signalled>>

-----------------------------------------------------------------------------
(* Disconnect *)

\* The critical section; a client that is not connected is an error.
DisconnectBegins(t) ==
    /\ \/ t = App /\ at[t] = "idle" /\ connected
       \/ t # App /\ at[t] = "disconnect"
    /\ IF connected
       THEN /\ sock' = [sock EXCEPT ![conn] = "closed"]
            /\ peer' = [peer EXCEPT ![conn] = "gone"]
            /\ connected' = FALSE /\ bound' = FALSE
            /\ Go(t, "closing")
       ELSE /\ Go(t, Back(t))
            /\ UNCHANGED <<sock, peer, connected, bound>>
    /\ UNCHANGED <<conn, sess, doneClosed, onBind, count, panicked, asked, answers, dials,
                   binds, loops, made, old, signalled, stray>>

\* close(c.done): a second close panics.
CloseDone(t) ==
    /\ at[t] = "closing"
    /\ doneClosed' = TRUE
    /\ panicked' = doneClosed
    /\ Go(t, "waiting")
    /\ UNCHANGED <<conn, connected, bound, sess, onBind, count, network, loops, made, old,
                   signalled, stray>>

\* c.wg.Wait() returns.
DisconnectReturns(t) ==
    /\ at[t] = "waiting" /\ wg = 0
    /\ Go(t, Back(t))
    /\ UNCHANGED <<client, network, loops, made, old, signalled, stray>>

-----------------------------------------------------------------------------
(* readLoop and periodicTasks *)

\* Top of the loop: it ends when c.done is closed or the client is not connected, and else
\* reads from c.conn, which need not be the connection it was started for.
ReadTop(g) ==
    /\ reader[g] = "top"
    /\ IF doneClosed \/ ~connected \/ conn = 0
       THEN /\ reader' = [reader EXCEPT ![g] = "exited"]
            /\ UNCHANGED source
       ELSE /\ reader' = [reader EXCEPT ![g] = "reading"]
            /\ source' = [source EXCEPT ![g] = conn]
    /\ UNCHANGED <<client, network, calling, tickers, losers, threads>>

\* A successful bind response is read; handleBindResponse has not run yet.
ReadBindResponse(g) ==
    /\ reader[g] = "reading" /\ sock[source[g]] = "open" /\ answers[source[g]] > 0
    /\ answers' = [answers EXCEPT ![source[g]] = @ - 1]
    /\ reader' = [reader EXCEPT ![g] = "bind response"]
    /\ UNCHANGED <<client, sock, peer, asked, dials, binds, source, calling, tickers, losers,
                   threads>>

\* handleBindResponse: the client is bound, whatever became of the connection meanwhile; then
\* the installed callback runs. A reconnect goroutine's callback sends on its channel, which
\* holds one signal, and blocks the loop while that is still there.
HandleBindResponse(g) ==
    /\ reader[g] = "bind response"
    /\ bound' = TRUE
    /\ sess' = "BoundTRX"
    /\ IF onBind = App
       THEN /\ reader' = [reader EXCEPT ![g] = "top"]
            /\ UNCHANGED <<calling, signalled>>
       ELSE /\ reader' = [reader EXCEPT ![g] = IF signalled[onBind] THEN "blocked" ELSE "top"]
            /\ calling' = [calling EXCEPT ![g] = IF signalled[onBind] THEN onBind ELSE App]
            /\ signalled' = [signalled EXCEPT ![onBind] = TRUE]
    /\ UNCHANGED <<conn, connected, doneClosed, onBind, count, panicked, network, source,
                   tickers, losers, at, made, old, stray>>

\* The blocked callback goes on once its reconnect goroutine took the earlier signal.
CallbackResumes(g) ==
    /\ reader[g] = "blocked" /\ ~signalled[calling[g]]
    /\ signalled' = [signalled EXCEPT ![calling[g]] = TRUE]
    /\ reader' = [reader EXCEPT ![g] = "top"]
    /\ calling' = [calling EXCEPT ![g] = App]
    /\ UNCHANGED <<client, network, source, tickers, losers, at, made, old, stray>>

\* PDUs that leave the client's state alone: a refused bind, submit_sm_resp, deliver_sm and
\* enquire_link (both answered on c.conn), anything unhandled.
ReadOther(g) ==
    /\ reader[g] = "reading" /\ sock[source[g]] = "open" /\ peer[source[g]] # "gone"
    /\ reader' = [reader EXCEPT ![g] = "top"]
    /\ UNCHANGED <<client, network, source, calling, tickers, losers, threads>>

\* The read fails: the connection was closed by either side, or the read deadline passed (the
\* decoder wraps the timeout, so it is not recognised as one). The loop ends and leaves a
\* handleDisconnection goroutine that does not know which connection failed.
ReadFails(g) ==
    /\ reader[g] = "reading"
    /\ reader' = [reader EXCEPT ![g] = "exited"]
    /\ losers' = losers + 1
    /\ UNCHANGED <<client, network, source, calling, tickers, threads>>

\* periodicTasks ends only when c.done is closed.
TickerExits ==
    /\ doneClosed /\ tickers > 0
    /\ tickers' = tickers - 1
    /\ UNCHANGED <<client, network, reader, source, calling, losers, threads>>

-----------------------------------------------------------------------------
(* handleDisconnection and reconnect *)

\* Fault (for ConnectedIsOpen): the connection is closed but c.connected is not reset.
HandleDisconnectionKeepsFlag ==
    /\ losers > 0
    /\ losers' = losers - 1
    /\ IF connected
       THEN /\ sock' = [sock EXCEPT ![conn] = "closed"]
            /\ bound' = FALSE
            /\ Go(conn, "retry")
       ELSE UNCHANGED <<bound, sock, at>>
    /\ UNCHANGED <<conn, connected, sess, doneClosed, onBind, count, panicked, peer, asked,
                   answers, dials, binds, reader, source, calling, tickers, made, old,
                   signalled, stray>>

\* Fault (for LossIsNoticed): a bound client is left alone.
HandleDisconnectionUnbound ==
    /\ losers > 0
    /\ losers' = losers - 1
    /\ IF connected /\ ~bound
       THEN /\ connected' = FALSE
            /\ sock' = [sock EXCEPT ![conn] = "closed"]
            /\ peer' = [peer EXCEPT ![conn] = "gone"]
            /\ conn' = 0
            /\ IF MaxAttempts > 0 THEN Go(conn, "retry") ELSE UNCHANGED at
       ELSE UNCHANGED <<conn, connected, sock, peer, at>>
    /\ UNCHANGED <<bound, sess, doneClosed, onBind, count, panicked, asked, answers, dials,
                   binds, reader, source, calling, tickers, made, old, signalled, stray>>

\* The current connection is closed and forgotten, be it the one that failed or a newer one,
\* and a reconnect goroutine is started.
HandleDisconnection ==
    /\ losers > 0
    /\ losers' = losers - 1
    /\ IF connected
       THEN /\ connected' = FALSE /\ bound' = FALSE
            /\ sock' = [sock EXCEPT ![conn] = "closed"]
            /\ peer' = [peer EXCEPT ![conn] = "gone"]
            /\ conn' = 0
            /\ IF MaxAttempts > 0 THEN Go(conn, "retry") ELSE UNCHANGED at
       ELSE UNCHANGED <<conn, connected, bound, sock, peer, at>>
    /\ UNCHANGED <<sess, doneClosed, onBind, count, panicked, asked, answers, dials, binds,
                   reader, source, calling, tickers, made, old, signalled, stray>>

\* The loop test of reconnect, which also reads the count to increment it. Two reconnect
\* goroutines may be here at once: nothing protects the count.
ReconnectTests(t) ==
    /\ at[t] = "retry"
    /\ IF count < MaxAttempts
       THEN /\ old' = [old EXCEPT ![t] = count]
            /\ Go(t, "count")
       ELSE /\ Go(t, "finished")
            /\ UNCHANGED old
    /\ UNCHANGED <<client, network, loops, made, signalled, stray>>

\* Fault (for ReconnectEnds): failed attempts are not counted.
ReconnectUncounted(t) ==
    /\ at[t] = "count"
    /\ Go(t, "connect")
    /\ UNCHANGED <<client, network, loops, made, old, signalled, stray>>

\* The increment is written back; then the goroutine sleeps for ReconnectInterval.
ReconnectCounts(t) ==
    /\ at[t] = "count"
    /\ count' = old[t] + 1
    /\ Go(t, "connect")
    /\ UNCHANGED <<conn, connected, bound, sess, doneClosed, onBind, panicked, network, loops,
                   made, old, signalled, stray>>

\* The bind response arrived: the count is reset and reconnect returns.
Reconnected(t) ==
    /\ at[t] = "awaiting" /\ signalled[made[t]]
    /\ signalled' = [signalled EXCEPT ![made[t]] = FALSE]
    /\ count' = 0
    /\ Go(t, "finished")
    /\ UNCHANGED <<conn, connected, bound, sess, doneClosed, onBind, panicked, network, loops,
                   made, old, stray>>

\* Thirty seconds passed without it.
RebindTimeout(t) ==
    /\ at[t] = "awaiting"
    /\ Go(t, "disconnect")
    /\ UNCHANGED <<client, network, loops, made, old, signalled, stray>>

-----------------------------------------------------------------------------
(* The server, external *)

PeerBinds(g) ==
    /\ peer[g] \in {"open", "bound"} /\ asked[g] > 0
    /\ asked' = [asked EXCEPT ![g] = @ - 1]
    /\ \/ /\ peer' = [peer EXCEPT ![g] = "bound"]
          /\ answers' = [answers EXCEPT ![g] = @ + 1]
       \/ UNCHANGED <<peer, answers>>      \* refused
    /\ UNCHANGED <<client, sock, dials, binds, loops, threads>>

PeerCloses(g) ==
    /\ peer[g] \in {"open", "bound"}
    /\ peer' = [peer EXCEPT ![g] = "gone"]
    /\ UNCHANGED <<client, sock, asked, answers, dials, binds, loops, threads>>

-----------------------------------------------------------------------------
AppCalls ==
    ConnectBegins(App) \/ BindSends(App) \/ UnbindSends \/ SendSMSChecks \/ DisconnectBegins(App)

\* What a thread does by itself once it has begun.
ThreadStep(t) ==
    \/ DialFails(t) \/ Dialled(t) \/ SpawnLoops(t) \/ CloseDone(t) \/ DisconnectReturns(t)
    \/ t = App /\ (UnbindMarks \/ SendSMSWrites)
    \/ t # App /\ \/ ConnectBegins(t) \/ BindSends(t) \/ BindFails(t) \/ DisconnectBegins(t)
                  \/ ReconnectTests(t) \/ ReconnectCounts(t) \/ Reconnected(t) \/ RebindTimeout(t)

ReaderStep(g) ==
    \/ ReadTop(g) \/ ReadBindResponse(g) \/ HandleBindResponse(g) \/ CallbackResumes(g)
    \/ ReadFails(g)

Next ==
    /\ ~panicked
    /\ \/ AppCalls \/ TickerExits \/ HandleDisconnection
       \/ \E t \in Threads : ThreadStep(t)
       \/ \E g \in Connections : ReaderStep(g) \/ ReadOther(g) \/ PeerBinds(g) \/ PeerCloses(g)

Spec == Init /\ [][Next]_vars

\* Goroutines that can run do run, dials and reads end (by their timeouts at the latest).
\* Nothing is assumed of the application's calls or of the server.
Fairness ==
    /\ WF_vars(~panicked /\ TickerExits)
    /\ WF_vars(~panicked /\ HandleDisconnection)
    /\ \A t \in Threads : WF_vars(~panicked /\ ThreadStep(t))
    /\ \A g \in Connections : WF_vars(~panicked /\ ReaderStep(g))
FairSpec == Spec /\ Fairness

-----------------------------------------------------------------------------
(* Properties *)

\* IsConnected is never stale on the client's own side: c.conn is then the newest connection
\* and the client has not closed it, however Connect, Disconnect, reconnection and late
\* handleDisconnection goroutines interleave (client.go:116-125, client.go:781-792).
ConnectedIsOpen == connected => conn = dials /\ sock[conn] = "open"

\* A submit_sm goes to a connection that is not bound only if a second connection was made since:
\* the binding SendSMS checks before it releases the lock may be the one of the connection
\* before, or a late response's, but no order of binding, unbinding and loss on one connection
\* lets it through (client.go:256-300).
StraySubmitNeedsRedial == stray => dials > 1

\* Until the client is disconnected for the first time, a connection that the server ends
\* stops being the client's connection (client.go:442, client.go:787). The exception is a
\* read loop stuck in a bind callback.
LossIsNoticed ==
    \A g \in Connections :
        (connected /\ conn = g /\ peer[g] = "gone")
            ~> (~connected \/ conn # g \/ doneClosed \/ panicked
                \/ \E h \in Connections : reader[h] = "blocked")

\* A reconnect goroutine ends: bound again, out of attempts or with the process. Only a
\* Disconnect that waits for a read loop stuck in a bind callback holds it up
\* (client.go:812-866).
ReconnectEnds ==
    \A g \in Connections :
        at[g] = "retry" ~> (at[g] = "finished" \/ panicked
                            \/ \E h \in Connections : reader[h] = "blocked")

-----------------------------------------------------------------------------
(* What the documentation says and the code does not do *)

\* README.md:24 "Auto-Reconnection: Intelligent reconnection": a reconnect goroutine that gives
\* up one attempt does not crash the process.
ReconnectNeverPanics ==
    [][\A g \in Connections : at[g] = "closing" /\ at'[g] = "waiting" => ~panicked']_vars

-----------------------------------------------------------------------------
(* The inductive invariant behind the two safety properties *)

ThreadPlaces == {"none", "idle", "dialing", "spawning", "unbinding", "sending", "closing", "waiting",
                 "retry", "count", "connect", "bind", "awaiting", "disconnect", "finished"}
ReaderPlaces == {"none", "top", "reading", "bind response", "blocked", "exited"}

ClientTypeOK ==
    /\ conn \in 0..MaxDials /\ onBind \in Threads /\ dials \in 0..MaxDials
    /\ sock \in [Connections -> {"none", "open", "closed"}]
    /\ peer \in [Connections -> {"none", "open", "bound", "gone"}]
    /\ asked \in [Connections -> Nat] /\ answers \in [Connections -> Nat]
    /\ reader \in [Connections -> ReaderPlaces]
    /\ source \in [Connections -> 0..MaxDials]
    /\ at \in [Threads -> ThreadPlaces]
    /\ made \in [Threads -> 0..MaxDials]

\* c.conn is a connection while c.connected is set, and so is what a blocked read reads from.
Sourced ==
    /\ connected => conn # 0
    /\ \A g \in Connections : reader[g] = "reading" => source[g] # 0

\* The server knows only connections that were dialled, and answers on those that it bound.
ServerAnswers ==
    \A g \in Connections :
        /\ peer[g] # "none" => g <= dials
        /\ answers[g] > 0 => peer[g] \in {"bound", "gone"}

\* The client takes itself for bound, or is about to, only if the server once bound it, or has
\* gone, on some connection.
BoundSomewhere ==
    (bound \/ at[App] = "sending" \/ \E g \in Connections : reader[g] = "bind response") =>
        \E g \in Connections : peer[g] \in {"bound", "gone"}

ClientInv ==
    ClientTypeOK /\ Sourced /\ ServerAnswers /\ BoundSomewhere /\ ConnectedIsOpen
    /\ StraySubmitNeedsRedial
=============================================================================
