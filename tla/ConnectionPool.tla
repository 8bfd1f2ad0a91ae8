---------------------------- MODULE ConnectionPool ----------------------------
(***************************************************************************)
(* The client connection pool of internal/pool/connection.go. The pool     *)
(* keeps no idle connections: a buffered channel is a semaphore, Get sends *)
(* a token and dials through the factory, and Disconnect of the pooled     *)
(* client closes the connection and takes a token out again. Nothing ties  *)
(* a token to a connection, so a second Disconnect of one pooled client    *)
(* takes the token of another.                                             *)
(***************************************************************************)
EXTENDS Integers, FiniteSets

CONSTANTS
    Borrowers,  \* goroutines that use the pool, each with one pooled client at a time
    PoolLimit,  \* PoolConfig.MaxConnections, made positive by NewConnectionPool
    MaxStolen   \* bound: second Disconnects of one pooled client

ASSUME PoolAssumption ==
    /\ IsFiniteSet(Borrowers)
    /\ PoolLimit \in Nat \ {0}
    /\ MaxStolen \in Nat

VARIABLES
    userAt,      \* where each borrower is
    holds,       \* borrowers with a pooled client they have disconnected once
    tokens,      \* len(ConnectionPool.semaphore)
    poolClosed,  \* ConnectionPool.closed; the semaphore channel is closed with it
    poolPanic,   \* a send on the closed channel took the process down
    stolen       \* history: tokens taken out by second Disconnects

poolVars == <<userAt, holds, tokens, poolClosed, poolPanic, stolen>>

\* "checked": past the closed check of Get, at the select; "creating": in the factory;
\* "using": has its pooled client; "releasing": at the receive of Get's error path or of
\* Put; "stealing": at the receive of a second Put.
UserSteps == {"idle", "checked", "creating", "using", "releasing", "stealing"}

PoolInit ==
    /\ userAt = [u \in Borrowers |-> "idle"]
    /\ holds = {}
    /\ tokens = 0
    /\ poolClosed = FALSE /\ poolPanic = FALSE
    /\ stolen = 0

At(u, step) == userAt[u] = step
Go(u, step) == userAt' = [userAt EXCEPT ![u] = step]

-----------------------------------------------------------------------------
(* Get *)

\* closed is checked under the mutex, which is then released.
GetChecks(u) ==
    /\ At(u, "idle") /\ ~poolClosed
    /\ Go(u, "checked")
    /\ holds' = holds \ {u}
    /\ UNCHANGED <<tokens, poolClosed, poolPanic, stolen>>

\* The pool is closed: an error.
GetRefused(u) == At(u, "idle") /\ poolClosed /\ UNCHANGED poolVars

\* Fault (for PoolBound, PutReturns): Get looks for room and leaves no token.
AcquireLooks(u) ==
    /\ At(u, "checked") /\ ~poolClosed /\ tokens < PoolLimit
    /\ Go(u, "creating")
    /\ UNCHANGED <<holds, tokens, poolClosed, poolPanic, stolen>>

\* There is room in the semaphore.
Acquire(u) ==
    /\ At(u, "checked") /\ ~poolClosed /\ tokens < PoolLimit
    /\ tokens' = tokens + 1
    /\ Go(u, "creating")
    /\ UNCHANGED <<holds, poolClosed, poolPanic, stolen>>

\* Close came after the check: the send panics.
AcquirePanics(u) ==
    /\ At(u, "checked") /\ poolClosed
    /\ poolPanic' = TRUE
    /\ UNCHANGED <<userAt, holds, tokens, poolClosed, stolen>>

\* The context of Get ends before there is room.
GetCancelled(u) ==
    /\ At(u, "checked")
    /\ Go(u, "idle")
    /\ UNCHANGED <<holds, tokens, poolClosed, poolPanic, stolen>>

FactoryDone(u) ==
    /\ At(u, "creating")
    /\ Go(u, "using")
    /\ UNCHANGED <<holds, tokens, poolClosed, poolPanic, stolen>>

\* The factory fails, and Get takes its token back.
FactoryFails(u) ==
    /\ At(u, "creating")
    /\ Go(u, "releasing")
    /\ UNCHANGED <<holds, tokens, poolClosed, poolPanic, stolen>>

-----------------------------------------------------------------------------
(* Disconnect and Put *)

\* PooledClient.Disconnect closes the client, and Put closes it again and receives.
Disconnect(u) ==
    /\ At(u, "using")
    /\ Go(u, "releasing")
    /\ holds' = holds \cup {u}
    /\ UNCHANGED <<tokens, poolClosed, poolPanic, stolen>>

\* A pooled client is disconnected once more: nothing in it remembers the first time.
DisconnectAgain(u) ==
    /\ At(u, "idle") /\ u \in holds /\ stolen < MaxStolen
    /\ Go(u, "stealing")
    /\ holds' = holds \ {u}
    /\ UNCHANGED <<tokens, poolClosed, poolPanic, stolen>>

\* The receive: a token, or the zero value of the closed and empty channel; it blocks while
\* the channel is open and empty.
Release(u) ==
    /\ At(u, "releasing") \/ At(u, "stealing")
    /\ tokens > 0 \/ poolClosed
    /\ tokens' = IF tokens > 0 THEN tokens - 1 ELSE 0
    /\ stolen' = IF At(u, "stealing") THEN stolen + 1 ELSE stolen
    /\ Go(u, "idle")
    /\ UNCHANGED <<holds, poolClosed, poolPanic>>

-----------------------------------------------------------------------------
\* The second Close returns at once.
PoolClose ==
    /\ ~poolClosed
    /\ poolClosed' = TRUE
    /\ UNCHANGED <<userAt, holds, tokens, poolPanic, stolen>>

\* What a borrower does by itself once it has begun.
Proceed(u) ==
    /\ ~poolPanic
    /\ AcquirePanics(u) \/ FactoryDone(u) \/ FactoryFails(u) \/ Disconnect(u)

PoolNext ==
    \/ \E u \in Borrowers : Proceed(u)
    \/ /\ ~poolPanic
       /\ \/ \E u \in Borrowers :
               \/ GetChecks(u) \/ GetRefused(u) \/ Acquire(u) \/ GetCancelled(u)
               \/ DisconnectAgain(u) \/ Release(u)
          \/ PoolClose

PoolSpec == PoolInit /\ [][PoolNext]_poolVars

-----------------------------------------------------------------------------
(* Properties *)

PoolTypeOK ==
    /\ userAt \in [Borrowers -> UserSteps]
    /\ holds \subseteq Borrowers
    /\ tokens \in 0..PoolLimit
    /\ poolClosed \in BOOLEAN /\ poolPanic \in BOOLEAN
    /\ stolen \in Nat

\* Borrowers that put a token in and have not taken it out.
Holders == {u \in Borrowers : userAt[u] \in {"creating", "using", "releasing"}}

\* While the pool is open the semaphore holds one token for every borrower between the send of
\* Get and the receive of Put, less the ones second Disconnects took: no path through a failing
\* factory or a cancelled Get loses or adds one (Get, Put).
TokensMatch == ~poolClosed => tokens + stolen = Cardinality(Holders)

\* There are never more connections than MaxConnections and one for every second Disconnect,
\* also when the pool is closed while connections are being made (Get).
PoolBound == Cardinality(Holders) <= PoolLimit + stolen

\* Put returns, whatever the others do, unless a second Disconnect took a token: it can wait for
\* a token that is not there only if another took it (Put).
PutReturns ==
    \A u \in Borrowers : userAt[u] = "releasing" ~> (userAt[u] = "idle" \/ stolen > 0 \/ poolPanic)

=============================================================================
