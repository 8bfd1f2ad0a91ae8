--------------------------- MODULE SmppClientProofs ---------------------------
(***************************************************************************)
(* Proofs about SmppClient, for any number of connections, attempts and    *)
(* bind requests.                                                          *)
(*                                                                         *)
(* That c.connected means the newest connection, open, is nearly inductive *)
(* by itself: every step that closes c.conn resets the flag in the same    *)
(* critical section. That a submit_sm strays only after a second dial      *)
(* follows the binding through all the places where it outlives its        *)
(* connection: answers on the way, a read loop in handleBindResponse,      *)
(* c.bound and SendSMS between its check and its write (BoundSomewhere).   *)
(* None of them exists unless the server bound some connection or ended    *)
(* it; with one connection only, that is the one SendSMS writes to.        *)
(***************************************************************************)
EXTENDS SmppClient, TLAPS

LEMMA ThreadsOK == App \in Threads /\ Connections \subseteq Threads /\ Threads = 0..MaxDials
                   /\ Connections = 1..MaxDials /\ MaxDials \in Nat
  BY BoundsAssumption DEF App, Threads, Connections

LEMMA ClientInit == Init => ClientInv
  <1> SUFFICES ASSUME Init PROVE ClientInv
    OBVIOUS
  <1>1. ClientTypeOK BY ThreadsOK DEF Init, ClientTypeOK, ThreadPlaces, ReaderPlaces
  <1>2. Sourced /\ ServerAnswers /\ BoundSomewhere /\ ConnectedIsOpen /\ StraySubmitNeedsRedial
    BY ThreadsOK DEF Init, Sourced, ServerAnswers, BoundSomewhere, ConnectedIsOpen,
                     StraySubmitNeedsRedial
  <1> QED BY <1>1, <1>2 DEF ClientInv

\* A step that leaves the connections alone keeps the invariant, if no read starts without a
\* connection and no binding comes out of nothing.
LEMMA QuietStep ==
    ASSUME ClientInv, ClientTypeOK',
           UNCHANGED <<conn, connected, sock, peer, answers, dials, stray>>,
           bound' => bound,
           \A g \in Connections : reader'[g] = "reading" =>
               source'[g] # 0 \/ (reader[g] = "reading" /\ source'[g] = source[g]),
           \A g \in Connections : reader'[g] = "bind response" => reader[g] = "bind response",
           at'[App] = "sending" => at[App] = "sending" \/ bound
    PROVE  ClientInv'
  <1>1. Sourced' BY DEF ClientInv, Sourced
  <1>2. ServerAnswers' BY DEF ClientInv, ServerAnswers
  <1>3. BoundSomewhere' BY DEF ClientInv, BoundSomewhere
  <1>4. ConnectedIsOpen' BY DEF ClientInv, ConnectedIsOpen
  <1>5. StraySubmitNeedsRedial' BY DEF ClientInv, StraySubmitNeedsRedial
  <1> QED BY <1>1, <1>2, <1>3, <1>4, <1>5 DEF ClientInv

\* A thread moves.
LEMMA GoStep ==
    ASSUME ClientTypeOK, NEW t \in Threads, NEW p \in ThreadPlaces, Go(t, p)
    PROVE  /\ at' \in [Threads -> ThreadPlaces] /\ at'[t] = p
           /\ \A u \in Threads : u # t => at'[u] = at[u]
  BY DEF ClientTypeOK, Go

\* Steps of one thread that do nothing but move it.
LEMMA MoveStep ==
    ASSUME ClientInv, NEW t \in Threads, NEW p \in ThreadPlaces, Go(t, p),
           p = "sending" => t = App /\ bound,
           UNCHANGED <<conn, connected, onBind, sock, peer, asked, answers, dials, reader, source,
                       made, stray>>,
           bound' => bound
    PROVE  ClientInv'
  <1>1. ClientTypeOK' BY GoStep DEF ClientInv, ClientTypeOK
  <1>2. at'[App] = "sending" => at[App] = "sending" \/ bound
    BY GoStep, ThreadsOK DEF ClientInv
  <1>3. \A g \in Connections : reader'[g] = "reading" => reader[g] = "reading" /\ source'[g] = source[g]
    OBVIOUS
  <1> QED BY <1>1, <1>2, <1>3, QuietStep

-----------------------------------------------------------------------------
(* Connect, Bind, Unbind, SendSMS, Disconnect and reconnect *)

LEMMA MovesInv ==
    ASSUME ClientInv, NEW t \in Threads,
           \/ ConnectBegins(t) \/ DialFails(t) \/ BindFails(t) \/ CloseDone(t)
           \/ DisconnectReturns(t) \/ ReconnectTests(t) \/ ReconnectCounts(t) \/ Reconnected(t)
           \/ RebindTimeout(t) \/ (t = App /\ (UnbindSends \/ UnbindMarks \/ SendSMSChecks))
    PROVE  ClientInv'
  <1> USE DEF client, network, loops
  <1>1. CASE ConnectBegins(t) BY <1>1, MoveStep DEF ConnectBegins, Back, ThreadPlaces
  <1>2. CASE DialFails(t) BY <1>2, MoveStep DEF DialFails, Back, ThreadPlaces
  <1>3. CASE BindFails(t) BY <1>3, MoveStep DEF BindFails, ThreadPlaces
  <1>4. CASE CloseDone(t) BY <1>4, MoveStep DEF CloseDone, ThreadPlaces
  <1>5. CASE DisconnectReturns(t) BY <1>5, MoveStep DEF DisconnectReturns, Back, ThreadPlaces
  <1>6. CASE ReconnectTests(t) BY <1>6, MoveStep DEF ReconnectTests, ThreadPlaces
  <1>7. CASE ReconnectCounts(t) BY <1>7, MoveStep DEF ReconnectCounts, ThreadPlaces
  <1>8. CASE Reconnected(t) BY <1>8, MoveStep DEF Reconnected, ThreadPlaces
  <1>9. CASE RebindTimeout(t) BY <1>9, MoveStep DEF RebindTimeout, ThreadPlaces
  <1>10. CASE t = App /\ UnbindSends BY <1>10, MoveStep DEF UnbindSends, ThreadPlaces
  <1>11. CASE t = App /\ UnbindMarks BY <1>11, MoveStep DEF UnbindMarks, ThreadPlaces
  <1>12. CASE t = App /\ SendSMSChecks BY <1>12, MoveStep DEF SendSMSChecks, ThreadPlaces
  <1> QED BY <1>1, <1>2, <1>3, <1>4, <1>5, <1>6, <1>7, <1>8, <1>9, <1>10, <1>11, <1>12

LEMMA DialledInv ==
    ASSUME ClientInv, NEW t \in Threads, Dialled(t)
    PROVE  ClientInv'
  <1> USE ThreadsOK
  <1> DEFINE n == dials + 1
  <1>1. /\ at[t] = "dialing" /\ dials < MaxDials /\ dials' = n /\ conn' = n /\ connected'
        /\ sock' = [sock EXCEPT ![n] = "open"] /\ peer' = [peer EXCEPT ![n] = "open"]
        /\ made' = [made EXCEPT ![t] = n] /\ Go(t, "spawning")
        /\ UNCHANGED <<bound, onBind, asked, answers, reader, source, stray>>
    BY DEF Dialled, loops
  <1>2. n \in 1..MaxDials /\ dials \in 0..MaxDials /\ n > dials
    BY <1>1 DEF ClientInv, ClientTypeOK
  <1>3. at' \in [Threads -> ThreadPlaces] /\ (at'[App] = "sending" => at[App] = "sending")
    BY <1>1, GoStep DEF ClientInv, ThreadPlaces
  <1> HIDE DEF n
  <1>4. ClientTypeOK' BY <1>1, <1>2, <1>3 DEF ClientInv, ClientTypeOK
  <1>5. /\ peer[n] = "none" /\ peer'[n] = "open" /\ sock'[n] = "open"
        /\ \A g \in Connections : g # n => peer'[g] = peer[g]
    BY <1>1, <1>2 DEF ClientInv, ClientTypeOK, ServerAnswers
  <1>6. Sourced' BY <1>1, <1>2 DEF ClientInv, Sourced
  <1>7. ServerAnswers'
    <2> SUFFICES ASSUME NEW g \in Connections
                 PROVE  /\ peer'[g] # "none" => g <= n
                        /\ answers[g] > 0 => peer'[g] \in {"bound", "gone"}
      BY <1>1 DEF ServerAnswers
    <2>1. CASE g = n BY <1>2, <1>5, <2>1 DEF ClientInv, ServerAnswers
    <2>2. CASE g # n
      <3>1. peer'[g] = peer[g] BY <1>5, <2>2
      <3>2. g <= dials => g <= n BY <1>2
      <3> QED BY <3>1, <3>2 DEF ClientInv, ServerAnswers
    <2> QED BY <2>1, <2>2
  <1>8. BoundSomewhere' BY <1>1, <1>3, <1>5 DEF ClientInv, BoundSomewhere
  <1>9. ConnectedIsOpen' BY <1>1, <1>5 DEF ConnectedIsOpen
  <1>10. StraySubmitNeedsRedial'
    BY <1>1, <1>2 DEF ClientInv, StraySubmitNeedsRedial
  <1> QED BY <1>4, <1>6, <1>7, <1>8, <1>9, <1>10 DEF ClientInv

LEMMA SpawnLoopsInv ==
    ASSUME ClientInv, NEW t \in Threads, SpawnLoops(t)
    PROVE  ClientInv'
  <1> USE ThreadsOK DEF SpawnLoops, network
  <1>1. at' \in [Threads -> ThreadPlaces] /\ (at'[App] = "sending" => at[App] = "sending")
    BY GoStep DEF ClientInv, ThreadPlaces
  <1>2. onBind' \in Threads BY DEF ClientInv, ClientTypeOK
  <1>3. /\ reader' \in [Connections -> ReaderPlaces]
        /\ \A g \in Connections : reader'[g] = "top" \/ reader'[g] = reader[g]
    BY DEF ClientInv, ClientTypeOK, ReaderPlaces
  <1>4. ClientTypeOK' BY <1>1, <1>2, <1>3 DEF ClientInv, ClientTypeOK
  <1> QED BY <1>1, <1>3, <1>4, QuietStep

LEMMA BindSendsInv ==
    ASSUME ClientInv, NEW t \in Threads, BindSends(t)
    PROVE  ClientInv'
  <1> USE ThreadsOK DEF BindSends, client, loops
  <1>1. at' \in [Threads -> ThreadPlaces] /\ (at'[App] = "sending" => at[App] = "sending")
    BY GoStep DEF ClientInv, ThreadPlaces
  <1>2. asked' \in [Connections -> Nat]
    <2>1. asked \in [Connections -> Nat] BY DEF ClientInv, ClientTypeOK
    <2>2. PICK x : /\ asked' = [asked EXCEPT ![conn] = x]
                   /\ x = asked[conn] \/ x = asked[conn] + 1
      OBVIOUS
    <2>3. conn \in Connections => x \in Nat BY <2>1, <2>2
    <2> QED BY <2>1, <2>2, <2>3
  <1>3. ClientTypeOK' BY <1>1, <1>2 DEF ClientInv, ClientTypeOK
  <1> QED BY <1>1, <1>3, QuietStep

\* The write that may stray: with the flag up, c.conn is the newest connection, and if it is not
\* bound then the connection that once was is an older one.
LEMMA SendSMSWritesInv ==
    ASSUME ClientInv, SendSMSWrites
    PROVE  ClientInv'
  <1> USE ThreadsOK DEF client, network, loops
  <1>1. /\ at[App] = "sending" /\ Go(App, "idle")
        /\ stray' => stray \/ (Writable /\ peer[conn] = "open")
        /\ UNCHANGED <<client, network, loops, made>>
    BY DEF SendSMSWrites
  <1>2. at' \in [Threads -> ThreadPlaces] /\ at'[App] = "idle"
    BY <1>1, GoStep DEF ClientInv, ThreadPlaces
  <1>3. ClientTypeOK' BY <1>1, <1>2 DEF ClientInv, ClientTypeOK
  <1>4. Sourced' /\ ServerAnswers' /\ ConnectedIsOpen'
    BY <1>1 DEF ClientInv, Sourced, ServerAnswers, ConnectedIsOpen
  <1>5. BoundSomewhere' BY <1>1, <1>2 DEF ClientInv, BoundSomewhere
  <1>6. ASSUME Writable, peer[conn] = "open" PROVE dials > 1
    <2>1. PICK g \in Connections : peer[g] \in {"bound", "gone"}
      BY <1>1 DEF ClientInv, BoundSomewhere
    <2>2. conn = dials /\ g # conn /\ g <= dials
      BY <1>6, <2>1 DEF Writable, ClientInv, ConnectedIsOpen, ServerAnswers
    <2> QED BY <2>2 DEF ClientInv, ClientTypeOK
  <1>7. StraySubmitNeedsRedial'
    BY <1>1, <1>6 DEF ClientInv, StraySubmitNeedsRedial
  <1> QED BY <1>3, <1>4, <1>5, <1>7 DEF ClientInv

\* Both ways in which the client closes c.conn reset c.connected with it.
LEMMA ClosesInv ==
    ASSUME ClientInv, connected, ClientTypeOK', ~connected', ~bound',
           peer' = [peer EXCEPT ![conn] = "gone"],
           at'[App] = "sending" => at[App] = "sending",
           UNCHANGED <<answers, dials, reader, source, stray>>
    PROVE  ClientInv'
  <1> USE ThreadsOK
  <1>1. conn \in Connections /\ conn = dials
    BY DEF ClientInv, ClientTypeOK, Sourced, ConnectedIsOpen
  <1>2. peer'[conn] = "gone" /\ \A g \in Connections : g # conn => peer'[g] = peer[g]
    BY <1>1 DEF ClientInv, ClientTypeOK
  <1>3. Sourced' BY DEF ClientInv, Sourced
  <1>4. ServerAnswers'
    <2> SUFFICES ASSUME NEW g \in Connections
                 PROVE  /\ peer'[g] # "none" => g <= dials
                        /\ answers[g] > 0 => peer'[g] \in {"bound", "gone"}
      BY DEF ServerAnswers
    <2>1. conn <= dials BY <1>1
    <2> QED BY <1>2, <2>1 DEF ClientInv, ServerAnswers
  <1>5. BoundSomewhere' BY <1>1, <1>2 DEF BoundSomewhere
  <1>6. ConnectedIsOpen' BY DEF ConnectedIsOpen
  <1>7. StraySubmitNeedsRedial' BY DEF ClientInv, StraySubmitNeedsRedial
  <1> QED BY <1>3, <1>4, <1>5, <1>6, <1>7 DEF ClientInv

LEMMA DisconnectBeginsInv ==
    ASSUME ClientInv, NEW t \in Threads, DisconnectBegins(t)
    PROVE  ClientInv'
  <1>1. CASE connected
    <2>1. /\ sock' = [sock EXCEPT ![conn] = "closed"] /\ peer' = [peer EXCEPT ![conn] = "gone"]
          /\ ~connected' /\ ~bound' /\ Go(t, "closing")
          /\ UNCHANGED <<conn, onBind, asked, answers, dials, reader, source, made, stray>>
      BY <1>1 DEF DisconnectBegins, loops
    <2>2. at' \in [Threads -> ThreadPlaces] /\ (at'[App] = "sending" => at[App] = "sending")
      BY <2>1, GoStep, ThreadsOK DEF ClientInv, ThreadPlaces
    <2>3. ClientTypeOK' BY <2>1, <2>2 DEF ClientInv, ClientTypeOK
    <2> QED BY <1>1, <2>1, <2>2, <2>3, ClosesInv
  <1>2. CASE ~connected
    BY <1>2, MoveStep DEF DisconnectBegins, loops, Back, ThreadPlaces
  <1> QED BY <1>1, <1>2

LEMMA HandleDisconnectionInv == ClientInv /\ HandleDisconnection => ClientInv'
  <1> SUFFICES ASSUME ClientInv, HandleDisconnection PROVE ClientInv'
    OBVIOUS
  <1>1. CASE connected
    <2>1. /\ sock' = [sock EXCEPT ![conn] = "closed"] /\ peer' = [peer EXCEPT ![conn] = "gone"]
          /\ ~connected' /\ ~bound' /\ conn' = 0
          /\ UNCHANGED <<onBind, asked, answers, dials, reader, source, made, stray>>
      BY <1>1 DEF HandleDisconnection
    <2>2. at' \in [Threads -> ThreadPlaces] /\ (at'[App] = "sending" => at[App] = "sending")
      <3>1. CASE UNCHANGED at BY <3>1 DEF ClientInv, ClientTypeOK
      <3>2. CASE Go(conn, "retry")
        BY <3>2, GoStep, ThreadsOK DEF ClientInv, ClientTypeOK, ThreadPlaces
      <3> QED BY <1>1, <3>1, <3>2 DEF HandleDisconnection
    <2>3. conn' \in 0..MaxDials BY <2>1, ThreadsOK
    <2>4. ClientTypeOK' BY <2>1, <2>2, <2>3 DEF ClientInv, ClientTypeOK
    <2> QED BY <1>1, <2>1, <2>2, <2>4, ClosesInv
  <1>2. CASE ~connected
    <2>1. UNCHANGED <<conn, connected, bound, sock, peer, at, onBind, asked, answers, dials, reader,
                      source, made, stray>>
      BY <1>2 DEF HandleDisconnection
    <2>2. ClientTypeOK' BY <2>1 DEF ClientInv, ClientTypeOK
    <2> QED BY <2>1, <2>2, QuietStep
  <1> QED BY <1>1, <1>2

-----------------------------------------------------------------------------
(* The read loops and the server *)

\* A read loop that goes to a place where it neither reads nor has a bind response.
LEMMA ReaderMoves ==
    ASSUME ClientInv, NEW g \in Connections, NEW p \in ReaderPlaces \ {"reading", "bind response"},
           reader' = [reader EXCEPT ![g] = p],
           UNCHANGED <<conn, connected, bound, onBind, sock, peer, asked, answers, dials, source, at,
                       made, stray>>
    PROVE  ClientInv'
  <1>1. ClientTypeOK' BY DEF ClientInv, ClientTypeOK
  <1>2. \A h \in Connections : reader'[h] = p \/ reader'[h] = reader[h]
    BY DEF ClientInv, ClientTypeOK
  <1> QED BY <1>1, <1>2, QuietStep

LEMMA ReaderMovesInv ==
    ASSUME ClientInv, NEW g \in Connections,
           CallbackResumes(g) \/ ReadOther(g) \/ ReadFails(g)
    PROVE  ClientInv'
  BY ReaderMoves DEF CallbackResumes, ReadOther, ReadFails, client, network, threads, ReaderPlaces

LEMMA ReadTopInv ==
    ASSUME ClientInv, NEW g \in Connections, ReadTop(g)
    PROVE  ClientInv'
  <1> USE DEF client, network, threads
  <1>1. CASE doneClosed \/ ~connected \/ conn = 0
    BY <1>1, ReaderMoves DEF ReadTop, ReaderPlaces
  <1>2. CASE ~(doneClosed \/ ~connected \/ conn = 0)
    <2>1. /\ reader' = [reader EXCEPT ![g] = "reading"] /\ source' = [source EXCEPT ![g] = conn]
          /\ conn # 0
          /\ UNCHANGED <<client, network, threads>>
      BY <1>2 DEF ReadTop
    <2>2. ClientTypeOK' BY <2>1 DEF ClientInv, ClientTypeOK, ReaderPlaces
    <2>3. \A h \in Connections :
            IF h = g THEN reader'[h] = "reading" /\ source'[h] = conn
            ELSE reader'[h] = reader[h] /\ source'[h] = source[h]
      BY <2>1 DEF ClientInv, ClientTypeOK
    <2> QED BY <2>1, <2>2, <2>3, QuietStep
  <1> QED BY <1>1, <1>2

\* A bind response comes from a connection that the server bound, or has left.
LEMMA ReadBindResponseInv ==
    ASSUME ClientInv, NEW g \in Connections, ReadBindResponse(g)
    PROVE  ClientInv'
  <1> USE ThreadsOK DEF client, threads
  <1>1. /\ reader[g] = "reading" /\ answers[source[g]] > 0
        /\ answers' = [answers EXCEPT ![source[g]] = @ - 1]
        /\ reader' = [reader EXCEPT ![g] = "bind response"]
        /\ UNCHANGED <<client, sock, peer, asked, dials, source, threads>>
    BY DEF ReadBindResponse
  <1>2. source[g] \in Connections
    <2>1. source[g] \in 0..MaxDials /\ source[g] # 0 BY <1>1 DEF ClientInv, ClientTypeOK, Sourced
    <2> QED BY <2>1
  <1>3. answers[source[g]] \in Nat BY <1>2 DEF ClientInv, ClientTypeOK
  <1>4. /\ answers' \in [Connections -> Nat]
        /\ \A h \in Connections : answers'[h] > 0 => answers[h] > 0
    <2> DEFINE x == answers[source[g]] - 1
    <2>0. answers[source[g]] > 0 BY <1>1
    <2>1. x \in Nat
      <3>1. \A a \in Nat : a > 0 => a - 1 \in Nat OBVIOUS
      <3> QED BY <1>3, <2>0, <3>1
    <2>2. answers' = [answers EXCEPT ![source[g]] = x] BY <1>1
    <2>3. answers \in [Connections -> Nat] BY DEF ClientInv, ClientTypeOK
    <2> HIDE DEF x
    <2>4. answers' \in [Connections -> Nat] BY <2>1, <2>2, <2>3
    <2>5. \A h \in Connections : h = source[g] \/ answers'[h] = answers[h] BY <2>2, <2>3
    <2> QED BY <1>1, <2>4, <2>5
  <1>5. reader' \in [Connections -> ReaderPlaces]
    BY <1>1 DEF ClientInv, ClientTypeOK, ReaderPlaces
  <1>6. ClientTypeOK' BY <1>1, <1>4, <1>5 DEF ClientInv, ClientTypeOK
  <1>7. \A h \in Connections : h # g => reader'[h] = reader[h]
    BY <1>1 DEF ClientInv, ClientTypeOK
  <1>8. reader'[g] = "bind response" BY <1>1 DEF ClientInv, ClientTypeOK
  <1>9. Sourced' BY <1>1, <1>7, <1>8 DEF ClientInv, Sourced
  <1>10. ServerAnswers' BY <1>1, <1>4 DEF ClientInv, ServerAnswers
  <1>11. BoundSomewhere' BY <1>1, <1>2 DEF ClientInv, ServerAnswers, BoundSomewhere
  <1>12. ConnectedIsOpen' /\ StraySubmitNeedsRedial'
    BY <1>1 DEF ClientInv, ConnectedIsOpen, StraySubmitNeedsRedial
  <1> QED BY <1>6, <1>9, <1>10, <1>11, <1>12 DEF ClientInv

LEMMA HandleBindResponseInv ==
    ASSUME ClientInv, NEW g \in Connections, HandleBindResponse(g)
    PROVE  ClientInv'
  <1> USE ThreadsOK DEF network
  <1>1. PICK p \in {"top", "blocked"} : reader' = [reader EXCEPT ![g] = p]
    BY DEF HandleBindResponse
  <1>2. /\ reader[g] = "bind response"
        /\ UNCHANGED <<conn, connected, onBind, network, source, at, made, stray>>
    BY DEF HandleBindResponse
  <1>3. ClientTypeOK' BY <1>1, <1>2 DEF ClientInv, ClientTypeOK, ReaderPlaces
  <1>4. \A h \in Connections : reader'[h] = p \/ reader'[h] = reader[h]
    BY <1>1 DEF ClientInv, ClientTypeOK
  <1>5. Sourced' BY <1>2, <1>4 DEF ClientInv, Sourced
  <1>6. ServerAnswers' BY <1>2 DEF ClientInv, ServerAnswers
  <1>7. BoundSomewhere' BY <1>2 DEF ClientInv, BoundSomewhere
  <1>8. ConnectedIsOpen' /\ StraySubmitNeedsRedial'
    BY <1>2 DEF ClientInv, ConnectedIsOpen, StraySubmitNeedsRedial
  <1> QED BY <1>3, <1>5, <1>6, <1>7, <1>8 DEF ClientInv

LEMMA TickerExitsInv == ClientInv /\ TickerExits => ClientInv'
  <1> SUFFICES ASSUME ClientInv, TickerExits PROVE ClientInv'
    OBVIOUS
  <1>1. UNCHANGED <<client, network, reader, source, threads>> BY DEF TickerExits
  <1>2. ClientTypeOK' BY <1>1 DEF ClientInv, ClientTypeOK, client, network, threads
  <1> QED BY <1>1, <1>2, QuietStep DEF client, network, threads

\* The server may change its side of a connection from open to bound and from both to gone.
LEMMA PeerInv ==
    ASSUME ClientInv, NEW g \in Connections, PeerBinds(g) \/ PeerCloses(g)
    PROVE  ClientInv'
  <1> USE ThreadsOK DEF client, loops, threads
  <1>1. UNCHANGED <<client, sock, dials, loops, threads>> BY DEF PeerBinds, PeerCloses
  <1>2. /\ asked' \in [Connections -> Nat] /\ answers' \in [Connections -> Nat]
        /\ peer' \in [Connections -> {"none", "open", "bound", "gone"}]
    <2>1. /\ asked \in [Connections -> Nat] /\ answers \in [Connections -> Nat]
          /\ peer \in [Connections -> {"none", "open", "bound", "gone"}]
      BY DEF ClientInv, ClientTypeOK
    <2>2. CASE PeerCloses(g) BY <2>1, <2>2 DEF PeerCloses
    <2>3. CASE PeerBinds(g)
      <3>1. /\ asked' = [asked EXCEPT ![g] = asked[g] - 1] /\ asked[g] > 0
            /\ \/ UNCHANGED <<peer, answers>>
               \/ /\ answers' = [answers EXCEPT ![g] = answers[g] + 1]
                  /\ peer' = [peer EXCEPT ![g] = "bound"]
        BY <2>3 DEF PeerBinds
      <3> DEFINE x == asked[g] - 1  y == answers[g] + 1
      <3>2. x \in Nat /\ y \in Nat BY <2>1, <3>1
      <3> HIDE DEF x, y
      <3>3. asked' = [asked EXCEPT ![g] = x] BY <3>1 DEF x
      <3>4. UNCHANGED answers \/ answers' = [answers EXCEPT ![g] = y] BY <3>1 DEF y
      <3>5. UNCHANGED peer \/ peer' = [peer EXCEPT ![g] = "bound"] BY <3>1
      <3> QED BY <2>1, <3>2, <3>3, <3>4, <3>5
    <2> QED BY <2>2, <2>3
  <1>3. ClientTypeOK' BY <1>1, <1>2 DEF ClientInv, ClientTypeOK
  <1>4. \A h \in Connections :
          /\ peer'[h] # "none" => peer[h] # "none"
          /\ peer[h] \in {"bound", "gone"} => peer'[h] \in {"bound", "gone"}
          /\ answers'[h] > 0 => answers[h] > 0 \/ peer'[h] = "bound"
    BY DEF PeerBinds, PeerCloses, ClientInv, ClientTypeOK
  <1>5. Sourced' BY <1>1 DEF ClientInv, Sourced
  <1>6. ServerAnswers' BY <1>1, <1>4 DEF ClientInv, ServerAnswers
  <1>7. BoundSomewhere' BY <1>1, <1>4 DEF ClientInv, BoundSomewhere
  <1>8. ConnectedIsOpen' /\ StraySubmitNeedsRedial'
    BY <1>1 DEF ClientInv, ConnectedIsOpen, StraySubmitNeedsRedial
  <1> QED BY <1>3, <1>5, <1>6, <1>7, <1>8 DEF ClientInv

-----------------------------------------------------------------------------
(* The invariant and the theorems *)

LEMMA ClientNext == ClientInv /\ [Next]_vars => ClientInv'
  <1> SUFFICES ASSUME ClientInv, [Next]_vars PROVE ClientInv'
    OBVIOUS
  <1>1. CASE AppCalls
    BY <1>1, ThreadsOK, MovesInv, BindSendsInv, DisconnectBeginsInv DEF AppCalls
  <1>2. CASE TickerExits BY <1>2, TickerExitsInv
  <1>3. CASE HandleDisconnection BY <1>3, HandleDisconnectionInv
  <1>4. ASSUME NEW t \in Threads, ThreadStep(t) PROVE ClientInv'
    BY <1>4, MovesInv, DialledInv, SpawnLoopsInv, BindSendsInv, SendSMSWritesInv,
       DisconnectBeginsInv DEF ThreadStep
  <1>5. ASSUME NEW g \in Connections, ReaderStep(g) \/ ReadOther(g) \/ PeerBinds(g) \/ PeerCloses(g)
        PROVE  ClientInv'
    BY <1>5, ReadTopInv, ReadBindResponseInv, HandleBindResponseInv, ReaderMovesInv, PeerInv
       DEF ReaderStep
  <1>6. CASE UNCHANGED vars
    <2> USE <1>6 DEF vars, client, network, loops, threads
    <2>1. ClientTypeOK' BY DEF ClientInv, ClientTypeOK
    <2> QED BY <2>1, QuietStep
  <1> QED BY <1>1, <1>2, <1>3, <1>4, <1>5, <1>6 DEF Next

LEMMA ClientSpecInv == Spec => []ClientInv
  <1> QED BY ClientInit, ClientNext, PTL DEF Spec

\* However many connections are dialled, by the application and by reconnect goroutines at once,
\* c.connected is set only while c.conn is the newest of them and not closed by the client:
\* every goroutine that closes c.conn resets the flag before it releases c.mu (Disconnect,
\* handleDisconnection), and no later step sets it for an older connection (Connect).
THEOREM ClientConnected == Spec => []ConnectedIsOpen
  <1>1. ClientInv => ConnectedIsOpen BY DEF ClientInv
  <1> QED BY <1>1, ClientSpecInv, PTL

\* On a client that has dialled once no submit_sm reaches an unbound connection, in whatever
\* order bind responses, unbinding, loss and the two halves of SendSMS come (SendSMS,
\* handleBindResponse, Unbind).
THEOREM ClientSubmits == Spec => []StraySubmitNeedsRedial
  <1>1. ClientInv => StraySubmitNeedsRedial BY DEF ClientInv
  <1> QED BY <1>1, ClientSpecInv, PTL

=============================================================================
