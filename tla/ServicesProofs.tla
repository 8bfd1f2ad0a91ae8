---------------------------- MODULE ServicesProofs ----------------------------
(***************************************************************************)
(* Proofs about services with concurrent users: the connection pool and    *)
(* error recovery of internal/, the event bus of pkg/events, and the user  *)
(* and file stores of internal/, for every number of users and all limits. *)
(*                                                                         *)
(* ConnectionPool: the tokens in the semaphore are those of the borrowers  *)
(* that hold one, less the stolen ones, and the number of connections is   *)
(* bounded. The bound is carried along for the time after Close, when the  *)
(* tokens no longer match.                                                 *)
(*                                                                         *)
(* ErrorRecovery: a closed circuit is below its failure threshold whatever *)
(* late outcomes are recorded, and a cancelled Retry begins at most one    *)
(* more attempt. The second needs LateIsPast: a caller that already made   *)
(* its late attempt is cancelled and not about to make another.            *)
(*                                                                         *)
(* EventBus: neither property is inductive. That no event is missed needs  *)
(* to know where each accepted event is: taken, at the dispatcher or in    *)
(* the channel, in order (Dispatched), and that the copy of the list which *)
(* the dispatcher calls from holds every subscriber that has not been      *)
(* called (CopyComplete). That a handler is called at most once too often  *)
(* needs that no list and no copy names it twice (Subscriptions,           *)
(* Dispatched).                                                            *)
(*                                                                         *)
(* UserSessions: neither property is inductive. The answer of Authenticate *)
(* depends on what it read so far still being what the account says        *)
(* (ReadsHold), that on every hash fitting the salt next to it             *)
(* (HashFitsSalt), and a session of user 0 would come to belong to nobody  *)
(* when a user is created (Pointing).                                      *)
(*                                                                         *)
(* FileStore: what was acknowledged survives a crash at any step, and the  *)
(* file stores implement DurableStore. The strengthening, Busy, ties the   *)
(* operation that holds a store's mutex to its key: the key is one of that *)
(* store, it is unsure, and a removal finds the map entry gone.            *)
(***************************************************************************)
EXTENDS ConnectionPool, ErrorRecovery, EventBus, UserSessions, FileStore, FiniteSetTheorems, SequenceTheorems, TLAPS

-----------------------------------------------------------------------------
(* ConnectionPool: the invariant *)

PoolInv == PoolTypeOK /\ TokensMatch /\ PoolBound

HolderSteps == {"creating", "using", "releasing"}

\* Holders can be counted.
LEMMA HoldersFinite == IsFiniteSet(Holders) /\ Cardinality(Holders) \in Nat
  <1>1. IsFiniteSet(Holders) BY PoolAssumption, FS_Subset DEF Holders
  <1> QED BY <1>1, FS_CardinalityType

\* A borrower that moves among the places of a holder, or among the others, changes no count.
LEMMA HoldersStay ==
    ASSUME userAt \in [Borrowers -> UserSteps], NEW u \in Borrowers, NEW step \in UserSteps,
           Go(u, step), userAt[u] \in HolderSteps <=> step \in HolderSteps
    PROVE  Holders' = Holders
  BY DEF Go, Holders, HolderSteps

\* A borrower becomes a holder.
LEMMA HoldersGrow ==
    ASSUME userAt \in [Borrowers -> UserSteps], NEW u \in Borrowers, NEW step \in UserSteps,
           Go(u, step), userAt[u] \notin HolderSteps, step \in HolderSteps
    PROVE  Cardinality(Holders') = Cardinality(Holders) + 1
  <1>1. Holders' = Holders \cup {u} /\ u \notin Holders BY DEF Go, Holders, HolderSteps
  <1> QED BY <1>1, HoldersFinite, FS_AddElement

\* A holder is done.
LEMMA HoldersShrink ==
    ASSUME userAt \in [Borrowers -> UserSteps], NEW u \in Borrowers, NEW step \in UserSteps,
           Go(u, step), userAt[u] \in HolderSteps, step \notin HolderSteps
    PROVE  Cardinality(Holders') = Cardinality(Holders) - 1
  <1>1. Holders' = Holders \ {u} /\ u \in Holders BY DEF Go, Holders, HolderSteps
  <1> QED BY <1>1, HoldersFinite, FS_RemoveElement

LEMMA PoolInitOK == PoolInit => PoolInv
  <1> SUFFICES ASSUME PoolInit PROVE PoolInv
    OBVIOUS
  <1>1. Holders = {} BY DEF PoolInit, Holders
  <1>2. Cardinality(Holders) = 0 BY <1>1, FS_EmptySet
  <1>3. PoolTypeOK
    <2>1. poolClosed \in BOOLEAN /\ poolPanic \in BOOLEAN BY Zenon DEF PoolInit
    <2>2. tokens \in 0..PoolLimit /\ stolen \in Nat BY PoolAssumption DEF PoolInit
    <2>3. userAt \in [Borrowers -> UserSteps] /\ holds \subseteq Borrowers
      BY DEF PoolInit, UserSteps
    <2> QED BY <2>1, <2>2, <2>3, Zenon DEF PoolTypeOK
  <1> QED BY <1>2, <1>3, PoolAssumption DEF PoolInit, PoolInv, TokensMatch, PoolBound

-----------------------------------------------------------------------------
(* ConnectionPool: steps *)

\* Steps of a borrower that neither take nor give a token.
LEMMA QuietStep ==
    ASSUME PoolInv, NEW u \in Borrowers,
           \/ GetChecks(u) \/ GetCancelled(u) \/ FactoryDone(u) \/ FactoryFails(u)
           \/ Disconnect(u) \/ DisconnectAgain(u)
    PROVE  PoolInv'
  <1>1. PICK step \in UserSteps :
          /\ Go(u, step)
          /\ userAt[u] \in HolderSteps <=> step \in HolderSteps
          /\ holds' \in {holds, holds \cup {u}, holds \ {u}}
          /\ UNCHANGED <<tokens, poolClosed, poolPanic, stolen>>
    BY DEF GetChecks, GetCancelled, FactoryDone, FactoryFails, Disconnect, DisconnectAgain, At,
           HolderSteps, UserSteps
  <1>2. Holders' = Holders BY <1>1, HoldersStay DEF PoolInv, PoolTypeOK
  <1>3. PoolTypeOK' BY <1>1 DEF PoolInv, PoolTypeOK, Go
  <1> QED BY <1>1, <1>2, <1>3 DEF PoolInv, TokensMatch, PoolBound

\* Get puts its token into the semaphore.
LEMMA AcquireStep ==
    ASSUME PoolInv, NEW u \in Borrowers, Acquire(u)
    PROVE  PoolInv'
  <1>1. /\ Go(u, "creating") /\ tokens' = tokens + 1 /\ ~poolClosed /\ tokens < PoolLimit
        /\ userAt[u] = "checked"
        /\ UNCHANGED <<holds, poolClosed, poolPanic, stolen>>
    BY DEF Acquire, At
  <1>2. Cardinality(Holders') = Cardinality(Holders) + 1
    BY <1>1, HoldersGrow DEF PoolInv, PoolTypeOK, HolderSteps, UserSteps
  <1>3. PoolTypeOK' BY <1>1, PoolAssumption DEF PoolInv, PoolTypeOK, Go, UserSteps
  <1>4. tokens + stolen = Cardinality(Holders) BY <1>1 DEF PoolInv, TokensMatch
  <1>5. tokens' + stolen' = Cardinality(Holders')
    BY <1>1, <1>2, <1>4 DEF PoolInv, PoolTypeOK
  <1>6. TokensMatch' BY <1>5 DEF TokensMatch
  <1>7. PoolBound' BY <1>3, <1>5, PoolAssumption DEF PoolTypeOK, PoolBound
  <1> QED BY <1>3, <1>6, <1>7 DEF PoolInv

\* A token is taken out, by its holder or by a second Disconnect.
LEMMA ReleaseStep ==
    ASSUME PoolInv, NEW u \in Borrowers, Release(u)
    PROVE  PoolInv'
  <1>0. /\ tokens \in 0..PoolLimit /\ stolen \in Nat /\ userAt \in [Borrowers -> UserSteps]
        /\ Cardinality(Holders) \in Nat
    BY HoldersFinite DEF PoolInv, PoolTypeOK
  <1>1. /\ Go(u, "idle") /\ (tokens > 0 \/ poolClosed)
        /\ tokens' = (IF tokens > 0 THEN tokens - 1 ELSE 0)
        /\ UNCHANGED <<holds, poolClosed, poolPanic>>
    BY DEF Release
  <1>2. tokens' \in 0..PoolLimit BY <1>0, <1>1, PoolAssumption
  <1>3. ~poolClosed => tokens' = tokens - 1 BY <1>0, <1>1
  <1>4. stolen' \in Nat BY <1>0 DEF Release
  <1>5. PoolTypeOK' BY <1>1, <1>2, <1>4 DEF PoolInv, PoolTypeOK, Go, UserSteps
  <1>6. CASE userAt[u] = "stealing"
    <2>1. Holders' = Holders BY <1>0, <1>1, <1>6, HoldersStay DEF HolderSteps, UserSteps
    <2>2. stolen' = stolen + 1 BY <1>6 DEF Release, At
    <2>3. TokensMatch'
      BY <1>0, <1>1, <1>3, <2>1, <2>2 DEF PoolInv, TokensMatch
    <2>4. PoolBound' BY <1>0, <2>1, <2>2, PoolAssumption DEF PoolInv, PoolBound
    <2> QED BY <1>5, <2>3, <2>4 DEF PoolInv
  <1>7. CASE userAt[u] = "releasing"
    <2>1. Cardinality(Holders') = Cardinality(Holders) - 1
      BY <1>0, <1>1, <1>7, HoldersShrink DEF HolderSteps, UserSteps
    <2>2. stolen' = stolen BY <1>7 DEF Release, At
    <2>3. TokensMatch'
      BY <1>0, <1>1, <1>3, <2>1, <2>2 DEF PoolInv, TokensMatch
    <2>4. PoolBound' BY <1>0, <2>1, <2>2, PoolAssumption DEF PoolInv, PoolBound
    <2> QED BY <1>5, <2>3, <2>4 DEF PoolInv
  <1> QED BY <1>6, <1>7 DEF Release, At

LEMMA PoolStepOK == PoolInv /\ [PoolNext]_poolVars => PoolInv'
  <1> SUFFICES ASSUME PoolInv, [PoolNext]_poolVars PROVE PoolInv'
    OBVIOUS
  <1>1. ASSUME NEW u \in Borrowers,
               \/ GetChecks(u) \/ GetCancelled(u) \/ FactoryDone(u) \/ FactoryFails(u)
               \/ Disconnect(u) \/ DisconnectAgain(u)
        PROVE  PoolInv'
    BY <1>1, QuietStep
  <1>2. ASSUME NEW u \in Borrowers, AcquirePanics(u) PROVE PoolInv'
    <2>1. UNCHANGED <<userAt, holds, tokens, poolClosed, stolen>> /\ poolPanic' = TRUE
      BY <1>2 DEF AcquirePanics
    <2>2. poolPanic' \in BOOLEAN BY <2>1, Zenon
    <2> QED BY <2>1, <2>2 DEF PoolInv, PoolTypeOK, TokensMatch, PoolBound, Holders
  <1>3. CASE PoolClose
    <2>1. UNCHANGED <<userAt, holds, tokens, poolPanic, stolen>> /\ poolClosed' = TRUE
      BY <1>3 DEF PoolClose
    <2>2. poolClosed' \in BOOLEAN BY <2>1, Zenon
    <2> QED BY <2>1, <2>2 DEF PoolInv, PoolTypeOK, TokensMatch, PoolBound, Holders
  <1>4. CASE UNCHANGED poolVars
    BY <1>4 DEF poolVars, PoolInv, PoolTypeOK, TokensMatch, PoolBound, Holders
  <1> QED
    BY <1>1, <1>2, <1>3, <1>4, AcquireStep, ReleaseStep DEF PoolNext, Proceed, GetRefused

-----------------------------------------------------------------------------
(* ConnectionPool: theorems *)

\* The semaphore never holds more tokens than it has room for.
THEOREM PoolTypes == PoolSpec => []PoolTypeOK
  <1>1. PoolInv => PoolTypeOK BY DEF PoolInv
  <1> QED BY <1>1, PoolInitOK, PoolStepOK, PTL DEF PoolSpec

\* No path through Get and Put loses or adds a token while the pool is open, but for second
\* Disconnects.
THEOREM PoolTokens == PoolSpec => []TokensMatch
  <1>1. PoolInv => TokensMatch BY DEF PoolInv
  <1> QED BY <1>1, PoolInitOK, PoolStepOK, PTL DEF PoolSpec

\* MaxConnections bounds the connections, beyond the closing of the pool, but for one more for
\* every second Disconnect.
THEOREM PoolConnections == PoolSpec => []PoolBound
  <1>1. PoolInv => PoolBound BY DEF PoolInv
  <1> QED BY <1>1, PoolInitOK, PoolStepOK, PTL DEF PoolSpec

-----------------------------------------------------------------------------
(* ErrorRecovery: the invariant *)

\* A caller waits only if it has an attempt left.
WaitsForMore == \A c \in Callers : caller[c].at = "wait" => caller[c].attempt < MaxRetries

LateIsPast ==
    \A c \in Callers : /\ caller[c].late <= 1
                       /\ caller[c].late = 1 => caller[c].cancelled /\ caller[c].at # "call"

RecoveryInv == RecoveryTypeOK /\ WaitsForMore /\ ClosedBelowThreshold /\ LateIsPast

\* The locals of one caller, as the invariant wants them.
Local == [at : CallerSteps, attempt : 0..MaxRetries, mode : CircuitStates,
          ok : BOOLEAN, cancelled : BOOLEAN, late : Nat]
GoodLocal(r) ==
    /\ r \in Local
    /\ r.at = "wait" => r.attempt < MaxRetries
    /\ r.late <= 1
    /\ r.late = 1 => r.cancelled /\ r.at # "call"
GoodCircuit ==
    /\ circuit \in CircuitStates
    /\ failures \in 0..FailureThreshold
    /\ successes \in 0..SuccessThreshold
    /\ cooled \in BOOLEAN
    /\ ClosedBelowThreshold

\* The invariant is one about each caller by itself and one about the circuit.
LEMMA InvParts ==
    RecoveryInv <=> /\ caller \in [Callers -> Local]
                    /\ \A c \in Callers : GoodLocal(caller[c])
                    /\ GoodCircuit /\ healthy \in BOOLEAN
  BY DEF RecoveryInv, RecoveryTypeOK, WaitsForMore, LateIsPast, GoodLocal, Local, GoodCircuit

\* A caller outside Retry is in order.
LEMMA IdleGood == GoodLocal(Idle)
  BY RecoveryAssumption DEF GoodLocal, Local, Idle, CallerSteps, CircuitStates

LEMMA RecoveryInitOK == RecoveryInit => RecoveryInv
  <1> SUFFICES ASSUME RecoveryInit PROVE RecoveryInv
    OBVIOUS
  <1>1. caller \in [Callers -> Local] /\ \A c \in Callers : GoodLocal(caller[c])
    BY IdleGood DEF RecoveryInit, GoodLocal
  <1>2. GoodCircuit
    BY RecoveryAssumption DEF RecoveryInit, GoodCircuit, CircuitStates, ClosedBelowThreshold
  <1>3. healthy \in BOOLEAN BY DEF RecoveryInit
  <1> QED BY <1>1, <1>2, <1>3, InvParts

-----------------------------------------------------------------------------
(* ErrorRecovery: the parts of a step *)

\* One caller's locals become r, which is in order.
LEMMA CallerStep ==
    ASSUME RecoveryInv, NEW c \in Callers, NEW r, GoodLocal(r), caller' = [caller EXCEPT ![c] = r]
    PROVE  caller' \in [Callers -> Local] /\ \A d \in Callers : GoodLocal(caller'[d])
  <1>1. caller \in [Callers -> Local] /\ \A d \in Callers : GoodLocal(caller[d]) BY InvParts
  <1>2. r \in Local BY DEF GoodLocal
  <1>3. caller' \in [Callers -> Local] BY <1>1, <1>2
  <1>4. ASSUME NEW d \in Callers PROVE GoodLocal(caller'[d])
    <2>1. CASE d = c BY <1>1, <2>1
    <2>2. CASE d # c
      <3>1. caller'[d] = caller[d] BY <1>1, <2>2
      <3> QED BY <1>1, <3>1
    <2> QED BY <2>1, <2>2
  <1> QED BY <1>3, <1>4

\* Nothing happens to the circuit.
LEMMA CircuitStays == GoodCircuit /\ UNCHANGED circuitVars => GoodCircuit'
  BY DEF GoodCircuit, circuitVars, ClosedBelowThreshold

\* Recording an outcome of whatever state was read leaves the circuit in order.
LEMMA OutcomeKeeps ==
    ASSUME GoodCircuit, NEW c \in Callers, RecordSuccess(c) \/ RecordFailure(c)
    PROVE  GoodCircuit'
  <1>1. CASE RecordSuccess(c)
    <2>1. successes' \in 0..SuccessThreshold
      BY <1>1, RecoveryAssumption DEF RecordSuccess, GoodCircuit, CountTo
    <2>2. failures' \in {0, failures} /\ circuit' \in {circuit, "closed"} /\ cooled' = cooled
      BY <1>1 DEF RecordSuccess
    <2>3. failures' = 0 \/ circuit' = circuit
      BY <1>1 DEF RecordSuccess
    <2> QED BY <2>1, <2>2, <2>3, RecoveryAssumption DEF GoodCircuit, CircuitStates, ClosedBelowThreshold
  <1>2. CASE RecordFailure(c)
    <2>1. failures' \in 0..FailureThreshold
      BY <1>2, RecoveryAssumption DEF RecordFailure, GoodCircuit, CountTo
    <2>2. successes' = successes /\ circuit' \in {circuit, "open"} /\ cooled' = FALSE
      BY <1>2 DEF RecordFailure
    <2>3. failures' = FailureThreshold => circuit' = "open"
      BY <1>2 DEF RecordFailure
    <2>4. cooled' \in BOOLEAN BY <2>2, Zenon
    <2>5. ClosedBelowThreshold' BY <2>1, <2>3, RecoveryAssumption DEF ClosedBelowThreshold
    <2> QED BY <2>1, <2>2, <2>4, <2>5 DEF GoodCircuit, CircuitStates
  <1> QED BY <1>1, <1>2

-----------------------------------------------------------------------------
(* ErrorRecovery: all steps *)

LEMMA RecoveryStepOK == RecoveryInv /\ [RecoveryNext]_recoveryVars => RecoveryInv'
  <1> SUFFICES ASSUME RecoveryInv, [RecoveryNext]_recoveryVars PROVE RecoveryInv'
    OBVIOUS
  <1>i. /\ caller \in [Callers -> Local] /\ \A c \in Callers : GoodLocal(caller[c])
        /\ GoodCircuit /\ healthy \in BOOLEAN
    BY InvParts
  <1>p. ASSUME caller' \in [Callers -> Local], \A c \in Callers : GoodLocal(caller'[c]),
               GoodCircuit', healthy' \in BOOLEAN
        PROVE  RecoveryInv'
    BY <1>p DEF RecoveryInv, RecoveryTypeOK, WaitsForMore, LateIsPast, GoodLocal, Local, GoodCircuit
  <1>m. ASSUME NEW c \in Callers, NEW r, GoodLocal(r), caller' = [caller EXCEPT ![c] = r],
               GoodCircuit', healthy' = healthy
        PROVE  RecoveryInv'
    BY <1>i, <1>m, <1>p, CallerStep
  <1>1. ASSUME NEW c \in Callers, BeginRetry(c) PROVE RecoveryInv'
    <2> DEFINE r == [caller[c] EXCEPT !.at = "check"]
    <2>1. GoodLocal(r) BY <1>i DEF GoodLocal, Local, CallerSteps
    <2>2. caller' = [caller EXCEPT ![c] = r] BY <1>1, <1>i DEF BeginRetry, Move
    <2> QED BY <1>1, <1>i, <1>m, <2>1, <2>2, CircuitStays DEF BeginRetry
  <1>2. ASSUME NEW c \in Callers, Cancel(c) PROVE RecoveryInv'
    <2> DEFINE r == [caller[c] EXCEPT !.cancelled = TRUE]
    <2>1. GoodLocal(r) BY <1>i DEF GoodLocal, Local
    <2>2. caller' = [caller EXCEPT ![c] = r] BY <1>2, <1>i DEF Cancel
    <2> QED BY <1>2, <1>i, <1>m, <2>1, <2>2, CircuitStays DEF Cancel
  <1>3. ASSUME NEW c \in Callers, CheckContext(c) PROVE RecoveryInv'
    <2>1. CASE caller[c].cancelled
      BY <1>3, <1>i, <1>m, <2>1, IdleGood, CircuitStays DEF CheckContext, Return
    <2>2. CASE ~caller[c].cancelled
      <3> DEFINE r == [caller[c] EXCEPT !.at = "call"]
      <3>1. GoodLocal(r) BY <1>i, <2>2 DEF GoodLocal, Local, CallerSteps
      <3>2. caller' = [caller EXCEPT ![c] = r] BY <1>3, <1>i, <2>2 DEF CheckContext, Move
      <3> QED BY <1>3, <1>i, <1>m, <3>1, <3>2, CircuitStays DEF CheckContext
    <2> QED BY <2>1, <2>2
  <1>4. ASSUME NEW c \in Callers, WaitOver(c) PROVE RecoveryInv'
    <2> DEFINE r == [caller[c] EXCEPT !.at = "check", !.attempt = @ + 1]
    <2>1. GoodLocal(r)
      BY <1>4, <1>i, RecoveryAssumption DEF WaitOver, GoodLocal, Local, CallerSteps
    <2>2. caller' = [caller EXCEPT ![c] = r] BY <1>4, <1>i DEF WaitOver, Local
    <2> QED BY <1>4, <1>i, <1>m, <2>1, <2>2, CircuitStays DEF WaitOver
  <1>5. ASSUME NEW c \in Callers, WaitCancelled(c) \/ OpenRefuses(c) PROVE RecoveryInv'
    BY <1>5, <1>i, <1>m, IdleGood, CircuitStays DEF WaitCancelled, OpenRefuses, Return
  <1>6. ASSUME NEW c \in Callers, ReadState(c) PROVE RecoveryInv'
    <2>0. caller[c] \in Local /\ caller[c].late = 0 /\ circuit \in CircuitStates
      BY <1>6, <1>i DEF ReadState, GoodLocal, Local, GoodCircuit
    <2>1. GoodLocal(AfterRead(c))
      <3> DEFINE place == IF circuit = "open" THEN "refused?" ELSE "fn"
                 after == IF caller[c].cancelled THEN caller[c].late + 1 ELSE caller[c].late
                 r == [caller[c] EXCEPT !.at = place, !.mode = circuit, !.late = after]
      <3>1. AfterRead(c) = r BY <2>0 DEF AfterRead, Local
      <3>2. place \in {"refused?", "fn"} OBVIOUS
      <3>3. after \in {0, 1} BY <2>0
      <3>4. after = 1 => caller[c].cancelled BY <2>0
      <3> HIDE DEF place, after
      <3>5. r \in Local
        <4>1. after \in Nat /\ place \in CallerSteps BY <3>2, <3>3 DEF CallerSteps
        <4> QED BY <2>0, <4>1 DEF Local
      <3>6. r.at = place /\ r.late = after /\ r.cancelled = caller[c].cancelled
        BY <2>0 DEF Local
      <3> HIDE DEF r
      <3> QED BY <3>1, <3>2, <3>3, <3>4, <3>5, <3>6 DEF GoodLocal
    <2> QED BY <1>6, <1>i, <1>m, <2>1, CircuitStays DEF ReadState
  <1>7. ASSUME NEW c \in Callers, TryHalfOpen(c) PROVE RecoveryInv'
    <2> DEFINE r == [caller[c] EXCEPT !.at = "fn", !.mode = "half"]
    <2>1. GoodLocal(r) BY <1>i DEF GoodLocal, Local, CallerSteps, CircuitStates
    <2>2. caller' = [caller EXCEPT ![c] = r] BY <1>7, <1>i DEF TryHalfOpen, Local
    <2>3. GoodCircuit'
      BY <1>7, <1>i, RecoveryAssumption
      DEF TryHalfOpen, GoodCircuit, CircuitStates, ClosedBelowThreshold
    <2> QED BY <1>7, <1>i, <1>m, <2>1, <2>2, <2>3 DEF TryHalfOpen
  <1>8. ASSUME NEW c \in Callers, OpenExpires(c) PROVE RecoveryInv'
    <2> DEFINE r == [caller[c] EXCEPT !.at = "reset"]
    <2>1. GoodLocal(r) BY <1>i DEF GoodLocal, Local, CallerSteps
    <2>2. caller' = [caller EXCEPT ![c] = r] BY <1>8, <1>i DEF OpenExpires, Move
    <2> QED BY <1>8, <1>i, <1>m, <2>1, <2>2, CircuitStays DEF OpenExpires
  <1>9. ASSUME NEW c \in Callers, NEW ok \in BOOLEAN, FnReturns(c, ok) PROVE RecoveryInv'
    <2> DEFINE r == [caller[c] EXCEPT !.at = "record", !.ok = ok]
    <2>1. GoodLocal(r) BY <1>i DEF GoodLocal, Local, CallerSteps
    <2>2. caller' = [caller EXCEPT ![c] = r] BY <1>9, <1>i DEF FnReturns, Local
    <2> QED BY <1>9, <1>i, <1>m, <2>1, <2>2, CircuitStays DEF FnReturns
  <1>10. ASSUME NEW c \in Callers, Record(c) PROVE RecoveryInv'
    <2>1. GoodCircuit' BY <1>10, <1>i, OutcomeKeeps DEF Record
    <2>2. CASE Return(c, "record")
      BY <1>10, <1>m, <2>1, <2>2, IdleGood DEF Return, Record
    <2>3. CASE ~Return(c, "record")
      <3> DEFINE r == [caller[c] EXCEPT !.at = "wait", !.mode = "closed", !.ok = TRUE]
      <3>1. caller[c].at = "record" /\ caller[c].attempt < MaxRetries
        BY <1>10, <2>3 DEF Record
      <3>2. GoodLocal(r) BY <1>i, <3>1 DEF GoodLocal, Local, CallerSteps, CircuitStates
      <3>3. caller' = [caller EXCEPT ![c] = r] BY <1>10, <1>i, <2>3 DEF Record, Local
      <3> QED BY <1>10, <1>m, <2>1, <3>2, <3>3 DEF Record
    <2> QED BY <2>2, <2>3
  <1>11. CASE CoolDown \/ Outage \/ Repair
    BY <1>11, <1>i, <1>p
    DEF CoolDown, Outage, Repair, circuitVars, GoodCircuit, ClosedBelowThreshold
  <1>12. CASE UNCHANGED recoveryVars
    BY <1>12, <1>i, <1>p, CircuitStays DEF recoveryVars
  <1> QED
    BY <1>1, <1>2, <1>3, <1>4, <1>5, <1>6, <1>7, <1>9, <1>10, <1>11, <1>12, <1>8
    DEF RecoveryNext, RetrySteps

-----------------------------------------------------------------------------
(* ErrorRecovery: theorems *)

\* No attempt number exceeds MaxRetries and no counter its threshold (Retry, Call).
THEOREM RecoveryTypes == RecoverySpec => []RecoveryTypeOK
  <1>1. RecoveryInv => RecoveryTypeOK BY DEF RecoveryInv
  <1> QED BY <1>1, RecoveryInitOK, RecoveryStepOK, PTL DEF RecoverySpec

\* A closed circuit is below its threshold: outcomes of calls that began in another state never
\* leave it closed with failures that no longer count (Call).
THEOREM BreakerBelowThreshold == RecoverySpec => []ClosedBelowThreshold
  <1>1. RecoveryInv => ClosedBelowThreshold BY DEF RecoveryInv
  <1> QED BY <1>1, RecoveryInitOK, RecoveryStepOK, PTL DEF RecoverySpec

\* A cancelled Retry begins at most one more attempt (Retry).
THEOREM RetryOneLateAttempt == RecoverySpec => []OneLateAttempt
  <1>1. RecoveryInv => OneLateAttempt BY DEF RecoveryInv, LateIsPast, OneLateAttempt
  <1> QED BY <1>1, RecoveryInitOK, RecoveryStepOK, PTL DEF RecoverySpec

-----------------------------------------------------------------------------
(* EventBus: sequences *)

LEMMA AppendFacts ==
    ASSUME NEW S, NEW s \in Seq(S), NEW e \in S
    PROVE  /\ Append(s, e) \in Seq(S) /\ Len(s) \in Nat /\ Len(Append(s, e)) = Len(s) + 1
           /\ \A i \in 1..Len(s) : Append(s, e)[i] = s[i]
           /\ Append(s, e)[Len(s) + 1] = e
           /\ \A x : Contains(Append(s, e), x) <=> Contains(s, x) \/ x = e
  <1>1. /\ Append(s, e) \in Seq(S) /\ Len(s) \in Nat /\ Len(Append(s, e)) = Len(s) + 1
        /\ \A i \in 1..Len(s) : Append(s, e)[i] = s[i]
        /\ Append(s, e)[Len(s) + 1] = e
    BY AppendProperties, LenProperties
  <1>2. \A x : Contains(Append(s, e), x) <=> Contains(s, x) \/ x = e
    BY <1>1 DEF Contains
  <1> QED BY <1>1, <1>2

LEMMA TailFacts ==
    ASSUME NEW S, NEW s \in Seq(S), s # <<>>
    PROVE  /\ Head(s) = s[1] /\ Head(s) \in S /\ Tail(s) \in Seq(S)
           /\ Len(s) \in Nat /\ Len(s) >= 1 /\ Len(Tail(s)) = Len(s) - 1
           /\ \A i \in 1..Len(Tail(s)) : Tail(s)[i] = s[i + 1]
           /\ \A x : Contains(s, x) <=> Contains(Tail(s), x) \/ x = Head(s)
  <1>1. /\ Head(s) = s[1] /\ Head(s) \in S /\ Tail(s) \in Seq(S)
        /\ Len(s) \in Nat /\ Len(s) >= 1 /\ Len(Tail(s)) = Len(s) - 1
        /\ \A i \in 1..Len(Tail(s)) : Tail(s)[i] = s[i + 1]
    BY HeadTailProperties, LenProperties, EmptySeq
  <1>2. ASSUME NEW x, Contains(s, x), x # Head(s) PROVE Contains(Tail(s), x)
    <2>1. PICK i \in 1..Len(s) : s[i] = x BY <1>2 DEF Contains
    <2>2. i # 1 /\ i - 1 \in 1..Len(Tail(s)) BY <1>1, <1>2, <2>1
    <2>3. Tail(s)[i - 1] = s[(i - 1) + 1] BY <1>1, <2>2
    <2>4. Tail(s)[i - 1] = x BY <2>1, <2>2, <2>3
    <2> QED BY <2>2, <2>4 DEF Contains
  <1>3. ASSUME NEW x, Contains(Tail(s), x) \/ x = Head(s) PROVE Contains(s, x)
    BY <1>1, <1>3 DEF Contains
  <1> QED BY <1>1, <1>2, <1>3

LEMMA RemoveAtFacts ==
    ASSUME NEW S, NEW s \in Seq(S), NEW k \in 1..Len(s), Distinct(s)
    PROVE  /\ RemoveAt(s, k) \in Seq(S) /\ Distinct(RemoveAt(s, k))
           /\ \A x : Contains(RemoveAt(s, k), x) <=> Contains(s, x) /\ x # s[k]
  <1> DEFINE a == SubSeq(s, 1, k - 1)  b == SubSeq(s, k + 1, Len(s))  r == RemoveAt(s, k)
  <1>0. Len(s) \in Nat /\ k \in Nat /\ 1 <= k /\ k <= Len(s) BY LenProperties
  <1>1. /\ a \in Seq(S) /\ Len(a) = k - 1 /\ \A i \in 1..k - 1 : a[i] = s[i]
    <2>1. \A i \in 1..k - 1 : s[i] \in S BY <1>0, ElementOfSeq
    <2>2. a \in Seq(S) /\ Len(a) = IF 1 <= k - 1 THEN (k - 1) - 1 + 1 ELSE 0
      BY <1>0, <2>1, SubSeqProperties
    <2>3. \A i \in 1..k - 1 : a[i] = s[1 + i - 1] BY <1>0, <2>1, SubSeqProperties
    <2> QED BY <1>0, <2>2, <2>3
  <1>2. /\ b \in Seq(S) /\ Len(b) = Len(s) - k /\ \A i \in 1..Len(s) - k : b[i] = s[k + i]
    <2>1. \A i \in k + 1..Len(s) : s[i] \in S BY <1>0, ElementOfSeq
    <2>2. b \in Seq(S) /\ Len(b) = IF k + 1 <= Len(s) THEN Len(s) - (k + 1) + 1 ELSE 0
      BY <1>0, <2>1, SubSeqProperties
    <2>3. \A i \in 1..Len(s) - (k + 1) + 1 : b[i] = s[(k + 1) + i - 1]
      BY <1>0, <2>1, SubSeqProperties
    <2> QED BY <1>0, <2>2, <2>3
  <1>3. r = a \o b BY DEF RemoveAt
  <1> HIDE DEF a, b, r
  <1>4. /\ r \in Seq(S) /\ Len(r) = Len(s) - 1
        /\ \A i \in 1..Len(s) - 1 : r[i] = IF i < k THEN s[i] ELSE s[i + 1]
    <2>1. /\ r \in Seq(S) /\ Len(r) = Len(a) + Len(b)
          /\ \A i \in 1..Len(a) + Len(b) : r[i] = IF i <= Len(a) THEN a[i] ELSE b[i - Len(a)]
      BY <1>1, <1>2, <1>3, ConcatProperties
    <2>2. Len(a) + Len(b) = Len(s) - 1 BY <1>0, <1>1, <1>2
    <2>3. ASSUME NEW i \in 1..Len(s) - 1 PROVE r[i] = IF i < k THEN s[i] ELSE s[i + 1]
      <3>1. CASE i < k BY <1>0, <1>1, <2>1, <2>2, <3>1
      <3>2. CASE ~(i < k)
        <4>1. i - (k - 1) \in 1..Len(s) - k /\ k + (i - (k - 1)) = i + 1 BY <1>0, <3>2
        <4>2. r[i] = b[i - (k - 1)] BY <1>0, <1>1, <2>1, <2>2, <3>2
        <4> QED BY <1>2, <3>2, <4>1, <4>2
      <3> QED BY <3>1, <3>2
    <2> QED BY <2>1, <2>2, <2>3
  <1>5. Distinct(r)
    <2>1. SUFFICES ASSUME NEW i \in 1..Len(r), NEW j \in 1..Len(r), r[i] = r[j] PROVE i = j BY DEF Distinct
    <2>2. i \in 1..Len(s) - 1 /\ j \in 1..Len(s) - 1 BY <1>4
    <2>3. PICK x \in 1..Len(s) : r[i] = s[x] /\ x = (IF i < k THEN i ELSE i + 1) BY <1>0, <1>4, <2>2
    <2>4. PICK y \in 1..Len(s) : r[j] = s[y] /\ y = (IF j < k THEN j ELSE j + 1) BY <1>0, <1>4, <2>2
    <2>5. x = y BY <2>1, <2>3, <2>4 DEF Distinct
    <2> QED BY ONLY <1>0, <2>2, <2>3, <2>4, <2>5
  <1>6. ASSUME NEW x, Contains(r, x) PROVE Contains(s, x) /\ x # s[k]
    BY <1>0, <1>4, <1>6 DEF Contains, Distinct
  <1>7. ASSUME NEW x, Contains(s, x), x # s[k] PROVE Contains(r, x)
    <2>1. PICK i \in 1..Len(s) : s[i] = x BY <1>7 DEF Contains
    <2>2. CASE i < k BY <1>0, <1>4, <2>1, <2>2 DEF Contains
    <2>3. CASE i > k
      <3>1. i - 1 \in 1..Len(s) - 1 /\ ~(i - 1 < k) /\ (i - 1) + 1 = i BY <1>0, <2>3
      <3>2. r[i - 1] = s[i] BY <1>4, <3>1
      <3> QED BY <1>4, <2>1, <3>1, <3>2 DEF Contains
    <2> QED BY <1>0, <1>7, <2>1, <2>2, <2>3
  <1> QED BY <1>4, <1>5, <1>6, <1>7 DEF r

-----------------------------------------------------------------------------
(* EventBus: initial states, and steps that touch nothing the invariant speaks of *)

LEMMA BusInitInv == BusInit => BusInv
  <1> SUFFICES ASSUME BusInit PROVE BusInv
    OBVIOUS
  <1> USE DEF BusInit, NoHandlers, AtSelect
  <1>1. \A S : <<>> \in Seq(S) /\ Len(<<>>) = 0 BY EmptySeq
  <1>2. BusTypeOK BY <1>1 DEF BusTypeOK
  <1>3. Subscriptions BY <1>1 DEF Subscriptions, Distinct, Contains
  <1>4. Dispatched BY <1>1 DEF Dispatched, Taken, Distinct
  <1>5. CalledInOrder /\ CopyComplete /\ LateOnlyOutside /\ OneLateCall
    BY <1>1 DEF CalledInOrder, CopyComplete, LateOnlyOutside, OneLateCall
  <1>6. NoMissedEvent BY <1>1 DEF NoMissedEvent
  <1> QED BY <1>2, <1>3, <1>4, <1>5, <1>6 DEF BusInv

LEMMA BusQuiet ==
    ASSUME BusInv, UNCHANGED <<subscribers, eventChan, dispatcher, accepted, handled, since, late>>
    PROVE  BusInv'
  <1>1. BusTypeOK' BY DEF BusInv, BusTypeOK
  <1>2. Subscriptions' BY DEF BusInv, Subscriptions
  <1>3. Dispatched' BY DEF BusInv, Dispatched, Taken
  <1>4. CalledInOrder' BY DEF BusInv, CalledInOrder, Taken, ToCall
  <1>5. CopyComplete' BY DEF BusInv, CopyComplete
  <1>6. LateOnlyOutside' /\ NoMissedEvent' /\ OneLateCall'
    BY DEF BusInv, LateOnlyOutside, NoMissedEvent, OneLateCall
  <1> QED BY <1>1, <1>2, <1>3, <1>4, <1>5, <1>6 DEF BusInv

\* The event of the dispatcher is one that was accepted.
LEMMA EventAccepted ==
    ASSUME BusInv, dispatcher.at \in {"publish", "call"}
    PROVE  /\ dispatcher.event \in 1..Len(accepted) /\ dispatcher.event = Taken
           /\ accepted[dispatcher.event] \in EventTypes
  <1>1. /\ Len(accepted) \in Nat /\ Len(eventChan) \in Nat /\ accepted \in Seq(EventTypes)
        /\ dispatcher.event \in Nat
    BY LenProperties DEF BusInv, BusTypeOK
  <1>2. dispatcher.event = Taken /\ dispatcher.event >= 1 BY DEF BusInv, Dispatched
  <1>3. dispatcher.event \in 1..Len(accepted) BY <1>1, <1>2 DEF Taken
  <1> QED BY <1>1, <1>2, <1>3, ElementOfSeq

-----------------------------------------------------------------------------
(* EventBus: subscriptions *)

LEMMA SubscribeInv ==
    ASSUME BusInv, NEW t \in EventTypes, NEW h \in HandlerIDs, Subscribe(t, h)
    PROVE  BusInv'
  <1>1. /\ ~Contains(subscribers[t], h)
        /\ subscribers' = [subscribers EXCEPT ![t] = Append(subscribers[t], h)]
        /\ since' = [since EXCEPT ![t][h] = Len(accepted)]
        /\ late' = [late EXCEPT ![t][h] = 0]
        /\ UNCHANGED <<eventChan, dispatcher, accepted, handled>>
    BY DEF Subscribe
  <1>2. /\ subscribers \in [EventTypes -> Seq(HandlerIDs)] /\ Len(accepted) \in Nat
        /\ since \in [EventTypes -> [HandlerIDs -> Int]] /\ late \in [EventTypes -> [HandlerIDs -> Nat]]
    BY LenProperties DEF BusInv, BusTypeOK
  <1> DEFINE new == Append(subscribers[t], h)
  <1>3. /\ new \in Seq(HandlerIDs) /\ Len(subscribers[t]) \in Nat
        /\ Len(new) = Len(subscribers[t]) + 1
        /\ \A i \in 1..Len(subscribers[t]) : new[i] = subscribers[t][i]
        /\ new[Len(subscribers[t]) + 1] = h
        /\ \A x : Contains(new, x) <=> Contains(subscribers[t], x) \/ x = h
    BY <1>2, AppendFacts
  <1>4. Distinct(new)
    BY <1>1, <1>3 DEF BusInv, Subscriptions, Distinct, Contains
  <1> HIDE DEF new
  <1>5. /\ subscribers'[t] = new
        /\ \A u \in EventTypes : u # t => subscribers'[u] = subscribers[u]
    BY <1>1, <1>2 DEF new
  <1>6. /\ since'[t][h] = Len(accepted) /\ late'[t][h] = 0
        /\ \A u \in EventTypes, g \in HandlerIDs :
             (u # t \/ g # h) => since'[u][g] = since[u][g] /\ late'[u][g] = late[u][g]
    BY <1>1, <1>2
  <1>7. BusTypeOK' BY <1>1, <1>2, <1>3 DEF BusInv, BusTypeOK, new
  <1>8. Subscriptions'
    <2>1. \A u \in EventTypes : Distinct(subscribers'[u])
      BY <1>4, <1>5 DEF BusInv, Subscriptions
    <2>2. ASSUME NEW u \in EventTypes, NEW g \in HandlerIDs
          PROVE  /\ since'[u][g] # -1 <=> Contains(subscribers'[u], g)
                 /\ since'[u][g] <= Len(accepted)
      <3>1. CASE u = t /\ g = h BY <1>2, <1>3, <1>5, <1>6, <3>1
      <3>2. CASE u = t /\ g # h BY <1>3, <1>5, <1>6, <3>2 DEF BusInv, Subscriptions
      <3>3. CASE u # t BY <1>5, <1>6, <3>3 DEF BusInv, Subscriptions
      <3> QED BY <3>1, <3>2, <3>3
    <2> QED BY <1>1, <2>1, <2>2 DEF Subscriptions
  <1>9. Dispatched' BY <1>1 DEF BusInv, Dispatched, Taken
  <1>10. CalledInOrder' BY <1>1 DEF BusInv, CalledInOrder, Taken, ToCall
  <1>11. CopyComplete'
    <2> SUFFICES ASSUME dispatcher.at = "call", NEW g \in HandlerIDs
                 PROVE  LET u == accepted[dispatcher.event] IN
                        /\ (since'[u][g] # -1 /\ dispatcher.event > since'[u][g]) =>
                              Contains(dispatcher.todo, g) \/ Contains(handled[g], dispatcher.event)
                        /\ Contains(dispatcher.todo, g) => late'[u][g] = 0
      BY <1>1 DEF CopyComplete
    <2> DEFINE u == accepted[dispatcher.event]
    <2>1. u \in EventTypes /\ dispatcher.event \in 1..Len(accepted) BY EventAccepted
    <2> HIDE DEF u
    <2>2. CASE u = t /\ g = h BY <1>2, <1>6, <2>1, <2>2 DEF u
    <2>3. CASE u # t \/ g # h
      <3>1. since'[u][g] = since[u][g] /\ late'[u][g] = late[u][g] BY <1>6, <2>1, <2>3
      <3> QED BY <3>1 DEF BusInv, CopyComplete, u
    <2> QED BY <2>2, <2>3
  <1>12. LateOnlyOutside' BY <1>6 DEF BusInv, LateOnlyOutside
  <1>13. OneLateCall' BY <1>6 DEF BusInv, OneLateCall
  <1>14. NoMissedEvent'
    <2>1. DOMAIN accepted = 1..Len(accepted) BY LenProperties DEF BusInv, BusTypeOK
    <2>2. ASSUME NEW u \in EventTypes, NEW g \in HandlerIDs, NEW i \in DOMAIN accepted,
                 since'[u][g] # -1, i > since'[u][g]
          PROVE  since'[u][g] = since[u][g]
      BY <1>2, <1>6, <2>1, <2>2
    <2> QED BY <1>1, <2>2 DEF BusInv, NoMissedEvent
  <1> QED BY <1>7, <1>8, <1>9, <1>10, <1>11, <1>12, <1>13, <1>14 DEF BusInv

\* Subscriptions that end.
LEMMA FewerSubscriptions ==
    ASSUME BusInv, Subscriptions', subscribers' \in [EventTypes -> Seq(HandlerIDs)],
           since' \in [EventTypes -> [HandlerIDs -> Int]],
           \A t \in EventTypes, h \in HandlerIDs : since'[t][h] \in {since[t][h], -1},
           UNCHANGED <<eventChan, dispatcher, accepted, handled, late>>
    PROVE  BusInv'
  <1>1. BusTypeOK' BY DEF BusInv, BusTypeOK
  <1>2. Dispatched' BY DEF BusInv, Dispatched, Taken
  <1>3. CalledInOrder' BY DEF BusInv, CalledInOrder, Taken, ToCall
  <1>4. CopyComplete' BY EventAccepted DEF BusInv, CopyComplete
  <1>5. LateOnlyOutside' /\ OneLateCall' BY DEF BusInv, LateOnlyOutside, OneLateCall
  <1>6. NoMissedEvent' BY DEF BusInv, NoMissedEvent
  <1> QED BY <1>1, <1>2, <1>3, <1>4, <1>5, <1>6 DEF BusInv

LEMMA UnsubscribeInv ==
    ASSUME BusInv, NEW t \in EventTypes, NEW h \in HandlerIDs, Unsubscribe(t, h)
    PROVE  BusInv'
  <1>1. PICK i \in 1..Len(subscribers[t]) :
          /\ subscribers[t][i] = h
          /\ subscribers' = [subscribers EXCEPT ![t] = RemoveAt(subscribers[t], i)]
    BY DEF Unsubscribe
  <1>2. /\ since' = [since EXCEPT ![t][h] = -1]
        /\ UNCHANGED <<eventChan, dispatcher, accepted, handled, late>>
    BY DEF Unsubscribe
  <1>3. /\ subscribers \in [EventTypes -> Seq(HandlerIDs)] /\ Len(accepted) \in Nat
        /\ since \in [EventTypes -> [HandlerIDs -> Int]]
    BY LenProperties DEF BusInv, BusTypeOK
  <1> DEFINE new == RemoveAt(subscribers[t], i)
  <1>4. /\ new \in Seq(HandlerIDs) /\ Distinct(new)
        /\ \A x : Contains(new, x) <=> Contains(subscribers[t], x) /\ x # h
    BY <1>1, <1>3, RemoveAtFacts DEF BusInv, Subscriptions
  <1>5. subscribers' = [subscribers EXCEPT ![t] = new] BY <1>1
  <1> HIDE DEF new
  <1>6. /\ subscribers'[t] = new /\ subscribers' \in [EventTypes -> Seq(HandlerIDs)]
        /\ \A u \in EventTypes : u # t => subscribers'[u] = subscribers[u]
    BY <1>3, <1>4, <1>5
  <1>7. since' \in [EventTypes -> [HandlerIDs -> Int]] BY <1>2, <1>3
  <1>8. /\ since'[t][h] = -1
        /\ \A u \in EventTypes, g \in HandlerIDs : (u # t \/ g # h) => since'[u][g] = since[u][g]
    BY <1>2, <1>3
  <1>9. Subscriptions'
    <2>1. \A u \in EventTypes : Distinct(subscribers'[u])
      BY <1>4, <1>6 DEF BusInv, Subscriptions
    <2>2. ASSUME NEW u \in EventTypes, NEW g \in HandlerIDs
          PROVE  /\ since'[u][g] # -1 <=> Contains(subscribers'[u], g)
                 /\ since'[u][g] <= Len(accepted)
      <3>1. CASE u = t /\ g = h BY <1>3, <1>4, <1>6, <1>8, <3>1
      <3>2. CASE u = t /\ g # h BY <1>4, <1>6, <1>8, <3>2 DEF BusInv, Subscriptions
      <3>3. CASE u # t BY <1>6, <1>8, <3>3 DEF BusInv, Subscriptions
      <3> QED BY <3>1, <3>2, <3>3
    <2> QED BY <1>2, <2>1, <2>2 DEF Subscriptions
  <1>10. \A u \in EventTypes, g \in HandlerIDs : since'[u][g] \in {since[u][g], -1} BY <1>8
  <1> QED BY <1>2, <1>6, <1>7, <1>9, <1>10, FewerSubscriptions

LEMMA ClearInv == BusInv /\ Clear => BusInv'
  <1> SUFFICES ASSUME BusInv, Clear PROVE BusInv'
    OBVIOUS
  <1>1. /\ subscribers' = NoHandlers /\ since' = [t \in EventTypes |-> [h \in HandlerIDs |-> -1]]
        /\ UNCHANGED <<eventChan, dispatcher, accepted, handled, late>>
    BY DEF Clear
  <1>2. Len(<<>>) = 0 /\ <<>> \in Seq(HandlerIDs) /\ Len(accepted) \in Nat
    BY EmptySeq, LenProperties DEF BusInv, BusTypeOK
  <1>3. subscribers' \in [EventTypes -> Seq(HandlerIDs)] BY <1>1, <1>2 DEF NoHandlers
  <1>4. since' \in [EventTypes -> [HandlerIDs -> Int]] BY <1>1
  <1>5. \A t \in EventTypes, h \in HandlerIDs : since'[t][h] = -1 BY <1>1
  <1>6. Subscriptions' BY <1>1, <1>2, <1>5 DEF Subscriptions, NoHandlers, Distinct, Contains
  <1> QED BY <1>1, <1>3, <1>4, <1>5, <1>6, FewerSubscriptions

-----------------------------------------------------------------------------
(* EventBus: publishing and dispatching *)

LEMMA PublishAcceptedInv ==
    ASSUME BusInv, NEW t \in EventTypes, PublishAccepted(t),
           UNCHANGED <<subscribers, dispatcher, handled, since, late>>
    PROVE  BusInv'
  <1>1. accepted' = Append(accepted, t) /\ eventChan' = Append(eventChan, Len(accepted'))
    BY DEF PublishAccepted
  <1>2. accepted \in Seq(EventTypes) /\ eventChan \in Seq(Nat) BY DEF BusInv, BusTypeOK
  <1>3. /\ accepted' \in Seq(EventTypes) /\ Len(accepted) \in Nat
        /\ Len(accepted') = Len(accepted) + 1
        /\ \A i \in 1..Len(accepted) : accepted'[i] = accepted[i]
    BY <1>1, <1>2, AppendFacts
  <1>4. /\ eventChan' \in Seq(Nat) /\ Len(eventChan) \in Nat
        /\ Len(eventChan') = Len(eventChan) + 1
        /\ \A i \in 1..Len(eventChan) : eventChan'[i] = eventChan[i]
        /\ eventChan'[Len(eventChan) + 1] = Len(accepted) + 1
        /\ \A x : Contains(eventChan', x) <=> Contains(eventChan, x) \/ x = Len(accepted) + 1
    <2>1. PICK n : n = Len(accepted') OBVIOUS
    <2>2. n \in Nat /\ n = Len(accepted) + 1 BY ONLY <1>3, <2>1
    <2>3. eventChan \in Seq(Nat) /\ eventChan' = Append(eventChan, n) BY ONLY <1>1, <1>2, <2>1
    <2>4. /\ Append(eventChan, n) \in Seq(Nat) /\ Len(eventChan) \in Nat
          /\ Len(Append(eventChan, n)) = Len(eventChan) + 1
          /\ \A i \in 1..Len(eventChan) : Append(eventChan, n)[i] = eventChan[i]
          /\ Append(eventChan, n)[Len(eventChan) + 1] = n
          /\ \A x : Contains(Append(eventChan, n), x) <=> Contains(eventChan, x) \/ x = n
      BY ONLY <2>2, <2>3, AppendFacts
    <2> QED BY ONLY <2>2, <2>3, <2>4
  <1>5. Taken' = Taken /\ Taken \in Int BY <1>3, <1>4 DEF Taken
  <1>6. BusTypeOK' BY <1>3, <1>4 DEF BusInv, BusTypeOK
  <1>7. Subscriptions'
    <2>1. \A u \in EventTypes, g \in HandlerIDs : since[u][g] \in Int /\ since[u][g] <= Len(accepted)
      BY DEF BusInv, BusTypeOK, Subscriptions
    <2>2. \A u \in EventTypes, g \in HandlerIDs : since[u][g] <= Len(accepted')
      BY <1>3, <2>1
    <2> QED BY <2>2 DEF BusInv, Subscriptions
  <1>8. Dispatched'
    <2>1. Len(eventChan) + 1 + Taken = Len(accepted) + 1 BY <1>3, <1>4 DEF Taken
    <2>2. \A k \in 1..Len(eventChan') : eventChan'[k] = Taken + k
      <3> SUFFICES ASSUME NEW k \in 1..Len(eventChan') PROVE eventChan'[k] = Taken + k
        OBVIOUS
      <3>1. CASE k = Len(eventChan) + 1 BY <1>4, <1>5, <2>1, <3>1
      <3>2. CASE k # Len(eventChan) + 1
        <4>1. k \in 1..Len(eventChan) BY <1>4, <3>2
        <4> QED BY <1>4, <4>1 DEF BusInv, Dispatched
      <3> QED BY <3>1, <3>2
    <2> QED BY <1>5, <2>2 DEF BusInv, Dispatched
  <1>9. CalledInOrder' BY <1>5 DEF BusInv, CalledInOrder, ToCall
  <1>10. CopyComplete'
    <2>1. dispatcher.at = "call" => accepted'[dispatcher.event] = accepted[dispatcher.event]
      BY <1>3, EventAccepted
    <2> QED BY <2>1 DEF BusInv, CopyComplete
  <1>11. LateOnlyOutside' /\ OneLateCall' BY DEF BusInv, LateOnlyOutside, OneLateCall
  <1>12. NoMissedEvent'
    <2>1. DOMAIN accepted = 1..Len(accepted) /\ DOMAIN accepted' = 1..Len(accepted')
      BY <1>2, <1>3, LenProperties
    <2>2. ASSUME NEW h \in HandlerIDs, NEW u \in EventTypes, NEW i \in DOMAIN accepted',
                 since[u][h] # -1, i > since[u][h], accepted'[i] = u
          PROVE  Contains(handled[h], i) \/ Contains(eventChan', i) \/ i = dispatcher.event
      <3>1. CASE i = Len(accepted) + 1 BY <1>4, <3>1
      <3>2. CASE i # Len(accepted) + 1
        <4>1. i \in DOMAIN accepted /\ accepted[i] = u BY <1>3, <2>1, <2>2, <3>2
        <4> QED BY <1>4, <2>2, <4>1 DEF BusInv, NoMissedEvent
      <3> QED BY <3>1, <3>2
    <2> QED BY <2>2 DEF BusInv, NoMissedEvent
  <1> QED BY <1>6, <1>7, <1>8, <1>9, <1>10, <1>11, <1>12 DEF BusInv

LEMMA ReceiveInv == BusInv /\ Receive => BusInv'
  <1> SUFFICES ASSUME BusInv, Receive PROVE BusInv'
    OBVIOUS
  <1>1. /\ dispatcher.at = "select" /\ eventChan # <<>>
        /\ dispatcher' = [at |-> "publish", event |-> Head(eventChan), todo |-> <<>>]
        /\ eventChan' = Tail(eventChan)
        /\ UNCHANGED <<subscribers, accepted, handled, since, late>>
    BY DEF Receive
  <1>2. eventChan \in Seq(Nat) /\ accepted \in Seq(EventTypes) /\ Len(accepted) \in Nat
    BY LenProperties DEF BusInv, BusTypeOK
  <1>3. /\ Head(eventChan) = eventChan[1] /\ Head(eventChan) \in Nat /\ eventChan' \in Seq(Nat)
        /\ Len(eventChan) \in Nat /\ Len(eventChan) >= 1 /\ Len(eventChan') = Len(eventChan) - 1
        /\ \A i \in 1..Len(eventChan') : eventChan'[i] = eventChan[i + 1]
        /\ \A x : Contains(eventChan, x) <=> Contains(eventChan', x) \/ x = Head(eventChan)
    BY <1>1, <1>2, TailFacts
  <1>4. <<>> \in Seq(HandlerIDs) /\ Len(<<>>) = 0 BY EmptySeq
  <1>5. /\ dispatcher'.at = "publish" /\ dispatcher'.event = Head(eventChan)
        /\ dispatcher'.todo = <<>>
    BY <1>1
  <1>6. /\ Taken' = Taken + 1 /\ Taken \in Int /\ Taken >= 0 /\ Head(eventChan) = Taken + 1
    BY <1>1, <1>2, <1>3 DEF Taken, BusInv, Dispatched
  <1>7. BusTypeOK'
    <2>1. dispatcher' \in [at : {"select", "publish", "call", "gone"}, event : Nat, todo : Seq(HandlerIDs)]
      BY <1>1, <1>3, <1>4
    <2> QED BY <1>1, <1>3, <2>1 DEF BusInv, BusTypeOK
  <1>8. Subscriptions' BY <1>1 DEF BusInv, Subscriptions
  <1>9. Dispatched'
    <2>1. \A k \in 1..Len(eventChan') : eventChan'[k] = Taken' + k
      <3> SUFFICES ASSUME NEW k \in 1..Len(eventChan') PROVE eventChan'[k] = Taken' + k
        OBVIOUS
      <3>1. k + 1 \in 1..Len(eventChan) BY <1>3
      <3>2. eventChan[k + 1] = Taken + (k + 1) BY <3>1 DEF BusInv, Dispatched
      <3> QED BY <1>3, <1>6, <3>2
    <2>2. Distinct(dispatcher'.todo) BY <1>4, <1>5 DEF Distinct
    <2> QED BY <1>5, <1>6, <2>1, <2>2 DEF Dispatched
  <1>10. CalledInOrder'
    <2>1. \A h \in HandlerIDs : \A k \in 1..Len(handled[h]) : handled[h][k] \in Nat
      BY ElementOfSeq DEF BusInv, BusTypeOK
    <2> QED BY <1>1, <1>6, <2>1 DEF BusInv, CalledInOrder
  <1>11. CopyComplete' BY <1>5 DEF CopyComplete
  <1>12. LateOnlyOutside' /\ OneLateCall' BY <1>1 DEF BusInv, LateOnlyOutside, OneLateCall
  <1>13. NoMissedEvent'
    <2>1. DOMAIN accepted = 1..Len(accepted) BY <1>2, LenProperties
    <2>2. dispatcher.event = 0 BY <1>1 DEF BusInv, Dispatched
    <2>3. ASSUME NEW h \in HandlerIDs, NEW u \in EventTypes, NEW i \in DOMAIN accepted,
                 since[u][h] # -1, i > since[u][h], accepted[i] = u
          PROVE  Contains(handled[h], i) \/ Contains(eventChan', i) \/ i = dispatcher'.event
      <3>1. Contains(handled[h], i) \/ Contains(eventChan, i)
        BY <1>2, <2>1, <2>2, <2>3 DEF BusInv, NoMissedEvent
      <3> QED BY <1>3, <1>5, <3>1
    <2> QED BY <1>1, <2>3 DEF BusInv, NoMissedEvent
  <1> QED BY <1>7, <1>8, <1>9, <1>10, <1>11, <1>12, <1>13 DEF BusInv

LEMMA CopyHandlersInv == BusInv /\ CopyHandlers => BusInv'
  <1> SUFFICES ASSUME BusInv, CopyHandlers PROVE BusInv'
    OBVIOUS
  <1>1. /\ dispatcher.at = "publish"
        /\ dispatcher' = IF Subscribed = <<>> THEN AtSelect
                         ELSE [dispatcher EXCEPT !.at = "call", !.todo = Subscribed]
        /\ UNCHANGED <<subscribers, eventChan, accepted, handled, since, late>>
    BY DEF CopyHandlers
  <1> DEFINE t == accepted[dispatcher.event]
  <1>2. t \in EventTypes /\ dispatcher.event \in 1..Len(accepted) /\ dispatcher.event = Taken
    BY <1>1, EventAccepted
  <1>3. /\ Subscribed = subscribers[t] /\ Subscribed \in Seq(HandlerIDs) /\ Distinct(Subscribed)
        /\ \A h \in HandlerIDs : since[t][h] # -1 <=> Contains(Subscribed, h)
    BY <1>2 DEF Subscribed, BusInv, BusTypeOK, Subscriptions
  <1> HIDE DEF t
  <1>4. <<>> \in Seq(HandlerIDs) /\ Len(<<>>) = 0 BY EmptySeq
  <1>5. /\ dispatcher \in [at : {"select", "publish", "call", "gone"}, event : Nat, todo : Seq(HandlerIDs)]
        /\ Len(accepted) \in Nat /\ Len(eventChan) \in Nat /\ DOMAIN accepted = 1..Len(accepted)
    BY LenProperties DEF BusInv, BusTypeOK
  <1>6. Taken' = Taken BY <1>1 DEF Taken
  <1>7. Subscriptions' /\ LateOnlyOutside' /\ OneLateCall'
    BY <1>1 DEF BusInv, Subscriptions, LateOnlyOutside, OneLateCall
  <1>8. CASE Subscribed = <<>>
    <2>1. dispatcher' = AtSelect /\ dispatcher'.at = "select" /\ dispatcher'.event = 0
          /\ dispatcher'.todo = <<>>
      BY <1>1, <1>8 DEF AtSelect
    <2>2. BusTypeOK' BY <1>1, <1>4, <2>1 DEF BusInv, BusTypeOK, AtSelect
    <2>3. Dispatched' BY <1>1, <1>4, <1>6, <2>1 DEF BusInv, Dispatched, Distinct
    <2>4. CalledInOrder' BY <1>1, <1>6, <2>1 DEF BusInv, CalledInOrder, ToCall
    <2>5. CopyComplete' BY <2>1 DEF CopyComplete
    <2>6. \A h \in HandlerIDs : since[t][h] = -1 BY <1>3, <1>4, <1>8 DEF Contains
    <2>7. NoMissedEvent'
      <3>1. ASSUME NEW h \in HandlerIDs, NEW u \in EventTypes, NEW i \in DOMAIN accepted,
                   since[u][h] # -1, i > since[u][h], accepted[i] = u
            PROVE  Contains(handled[h], i) \/ Contains(eventChan, i)
        <4>1. i # dispatcher.event BY <2>6, <3>1 DEF t
        <4> QED BY <3>1, <4>1 DEF BusInv, NoMissedEvent
      <3> QED BY <1>1, <3>1 DEF BusInv, NoMissedEvent
    <2> QED BY <1>7, <2>2, <2>3, <2>4, <2>5, <2>7 DEF BusInv
  <1>9. CASE Subscribed # <<>>
    <2>1. /\ dispatcher' = [dispatcher EXCEPT !.at = "call", !.todo = Subscribed]
          /\ dispatcher'.at = "call" /\ dispatcher'.event = dispatcher.event
          /\ dispatcher'.todo = Subscribed
      BY <1>1, <1>5, <1>9
    <2>2. BusTypeOK'
      <3>1. dispatcher' \in [at : {"select", "publish", "call", "gone"}, event : Nat, todo : Seq(HandlerIDs)]
        BY <1>3, <1>5, <2>1
      <3> QED BY <1>1, <3>1 DEF BusInv, BusTypeOK
    <2>3. Dispatched' BY <1>1, <1>3, <1>6, <1>9, <2>1 DEF BusInv, Dispatched
    <2>4. CalledInOrder' BY <1>1, <1>6 DEF BusInv, CalledInOrder
    <2>5. CopyComplete'
      BY <1>1, <1>2, <1>3, <2>1 DEF BusInv, CopyComplete, LateOnlyOutside, t
    <2>6. NoMissedEvent' BY <1>1, <2>1 DEF BusInv, NoMissedEvent
    <2> QED BY <1>7, <2>2, <2>3, <2>4, <2>5, <2>6 DEF BusInv
  <1> QED BY <1>8, <1>9

LEMMA CallHandlerInv == BusInv /\ CallHandler => BusInv'
  <1> SUFFICES ASSUME BusInv, CallHandler PROVE BusInv'
    OBVIOUS
  <1> DEFINE e == dispatcher.event
             t == accepted[e]
             h == Head(dispatcher.todo)
             rest == Tail(dispatcher.todo)
  <1>1. /\ dispatcher.at = "call" /\ handled' = [handled EXCEPT ![h] = Append(handled[h], e)]
        /\ late' = IF since[t][h] # -1 THEN late ELSE [late EXCEPT ![t][h] = late[t][h] + 1]
        /\ dispatcher' = IF Len(dispatcher.todo) = 1 THEN AtSelect
                         ELSE [dispatcher EXCEPT !.todo = rest]
        /\ UNCHANGED <<subscribers, eventChan, accepted, since>>
    BY DEF CallHandler
  <1>2. /\ t \in EventTypes /\ e \in 1..Len(accepted) /\ e = Taken /\ Taken' = Taken
    BY <1>1, EventAccepted DEF Taken
  <1>3. /\ dispatcher \in [at : {"select", "publish", "call", "gone"}, event : Nat, todo : Seq(HandlerIDs)]
        /\ Len(accepted) \in Nat /\ DOMAIN accepted = 1..Len(accepted) /\ e \in Nat
        /\ dispatcher.todo \in Seq(HandlerIDs) /\ dispatcher.todo # <<>> /\ Distinct(dispatcher.todo)
        /\ handled \in [HandlerIDs -> Seq(Nat)]
        /\ late \in [EventTypes -> [HandlerIDs -> Nat]]
    BY <1>1, LenProperties DEF BusInv, BusTypeOK, Dispatched
  <1>4. /\ h = dispatcher.todo[1] /\ h \in HandlerIDs /\ rest \in Seq(HandlerIDs)
        /\ Len(dispatcher.todo) \in Nat /\ Len(dispatcher.todo) >= 1
        /\ Len(rest) = Len(dispatcher.todo) - 1
        /\ \A i \in 1..Len(rest) : rest[i] = dispatcher.todo[i + 1]
        /\ \A x : Contains(dispatcher.todo, x) <=> Contains(rest, x) \/ x = h
    BY <1>3, TailFacts
  <1> HIDE DEF t, h, rest, e
  <1>5. ~Contains(rest, h) /\ Distinct(rest)
    <2>1. ASSUME NEW i \in 1..Len(rest) PROVE i + 1 \in 1..Len(dispatcher.todo) /\ i + 1 # 1
      BY <1>4
    <2>2. 1 \in 1..Len(dispatcher.todo) BY <1>4
    <2>3. ~Contains(rest, h) BY <1>3, <1>4, <2>1, <2>2 DEF Distinct, Contains
    <2>4. ASSUME NEW i \in 1..Len(rest), NEW j \in 1..Len(rest), rest[i] = rest[j] PROVE i = j
      <3>1. i + 1 = j + 1 BY <1>3, <1>4, <2>1, <2>4 DEF Distinct
      <3> QED BY <3>1
    <2> QED BY <2>3, <2>4 DEF Distinct
  <1> DEFINE new == Append(handled[h], e)
  <1>6. /\ new \in Seq(Nat) /\ Len(handled[h]) \in Nat /\ Len(new) = Len(handled[h]) + 1
        /\ \A i \in 1..Len(handled[h]) : new[i] = handled[h][i]
        /\ new[Len(handled[h]) + 1] = e
        /\ \A x : Contains(new, x) <=> Contains(handled[h], x) \/ x = e
    <2>1. handled[h] \in Seq(Nat) /\ e \in Nat BY <1>3, <1>4
    <2> QED BY <2>1, AppendFacts
  <1> HIDE DEF new
  <1>7. /\ handled' \in [HandlerIDs -> Seq(Nat)] /\ handled'[h] = new
        /\ \A g \in HandlerIDs : g # h => handled'[g] = handled[g]
    BY <1>1, <1>3, <1>4, <1>6 DEF new
  <1>8. /\ late' \in [EventTypes -> [HandlerIDs -> Nat]]
        /\ \A u \in EventTypes, g \in HandlerIDs :
             late'[u][g] = IF u = t /\ g = h /\ since[t][h] = -1 THEN late[u][g] + 1 ELSE late[u][g]
    <2>1. CASE since[t][h] # -1 BY <1>1, <1>3, <2>1
    <2>2. CASE since[t][h] = -1
      <3> DEFINE n == late[t][h] + 1
      <3>1. late' = [late EXCEPT ![t][h] = n] BY <1>1, <2>2
      <3>2. n \in Nat BY <1>2, <1>3, <1>4
      <3> HIDE DEF n
      <3>3. late' \in [EventTypes -> [HandlerIDs -> Nat]] BY <1>2, <1>3, <1>4, <3>1, <3>2
      <3>4. \A u \in EventTypes, g \in HandlerIDs :
              late'[u][g] = IF u = t /\ g = h THEN n ELSE late[u][g]
        BY <1>2, <1>3, <1>4, <3>1
      <3> QED BY <2>2, <3>3, <3>4 DEF n
    <2> QED BY <2>1, <2>2
  <1>9. \/ dispatcher' = AtSelect /\ Len(rest) = 0
        \/ /\ dispatcher' = [dispatcher EXCEPT !.todo = rest] /\ Len(rest) # 0
           /\ dispatcher'.at = "call" /\ dispatcher'.event = e /\ dispatcher'.todo = rest
    BY <1>1, <1>3, <1>4 DEF e
  <1>10. BusTypeOK'
    <2>1. dispatcher' \in [at : {"select", "publish", "call", "gone"}, event : Nat, todo : Seq(HandlerIDs)]
      <3>1. AtSelect \in [at : {"select", "publish", "call", "gone"}, event : Nat, todo : Seq(HandlerIDs)]
        BY EmptySeq DEF AtSelect
      <3>2. [dispatcher EXCEPT !.todo = rest]
              \in [at : {"select", "publish", "call", "gone"}, event : Nat, todo : Seq(HandlerIDs)]
        BY <1>3, <1>4
      <3> QED BY <1>9, <3>1, <3>2
    <2> QED BY <1>1, <1>7, <1>8, <2>1 DEF BusInv, BusTypeOK
  <1>11. Subscriptions' BY <1>1 DEF BusInv, Subscriptions
  <1>12. Dispatched'
    <2>1. Taken >= 0 /\ (\A k \in 1..Len(eventChan) : eventChan[k] = Taken + k)'
      BY <1>1, <1>2 DEF BusInv, Dispatched
    <2>2. Len(<<>>) = 0 /\ e >= 1 BY <1>2, EmptySeq
    <2>3. CASE dispatcher' = AtSelect
      BY <1>2, <2>1, <2>2, <2>3 DEF AtSelect, Dispatched, Distinct
    <2>4. CASE dispatcher' # AtSelect
      <3>1. dispatcher'.at = "call" /\ dispatcher'.event = e /\ dispatcher'.todo = rest
            /\ rest # <<>>
        BY <1>9, <2>2, <2>4
      <3> QED BY <1>2, <1>5, <2>1, <2>2, <3>1 DEF Dispatched
    <2> QED BY <2>3, <2>4
  <1>13. /\ dispatcher'.at \in {"select", "call"}
         /\ \A g \in HandlerIDs : ToCall(g)' => ToCall(g) /\ g # h
    BY <1>1, <1>4, <1>5, <1>9 DEF ToCall, AtSelect
  <1>14. \A g \in HandlerIDs : \A k \in 1..Len(handled[g]) : handled[g][k] \in Nat
    BY <1>3, ElementOfSeq
  <1>15. CalledInOrder'
    <2> SUFFICES ASSUME NEW g \in HandlerIDs, NEW k \in 1..Len(handled'[g])
                 PROVE  /\ handled'[g][k] <= Taken
                        /\ ToCall(g)' => handled'[g][k] < Taken
      BY <1>2, <1>13 DEF CalledInOrder
    <2>1. CASE g # h BY <1>7, <1>13, <2>1 DEF BusInv, CalledInOrder
    <2>2. CASE g = h /\ k = Len(handled[h]) + 1 BY <1>2, <1>3, <1>6, <1>7, <1>13, <2>2
    <2>3. CASE g = h /\ k # Len(handled[h]) + 1
      <3>1. handled'[g] = new BY <1>7, <2>3
      <3>2. k \in 1..Len(handled[h]) BY <1>6, <2>3, <3>1
      <3>3. handled'[g][k] = handled[h][k] BY <1>6, <3>1, <3>2
      <3> QED BY <1>4, <1>13, <2>3, <3>2, <3>3 DEF BusInv, CalledInOrder
    <2> QED BY <2>1, <2>2, <2>3
  <1>16. \A g \in HandlerIDs : Contains(dispatcher.todo, g) => late[t][g] = 0
    BY <1>1 DEF BusInv, CopyComplete, t, e
  <1>17. CopyComplete'
    <2> SUFFICES ASSUME dispatcher'.at = "call", NEW g \in HandlerIDs
                 PROVE  /\ (since[t][g] # -1 /\ e > since[t][g]) =>
                              Contains(rest, g) \/ Contains(handled'[g], e)
                        /\ Contains(rest, g) => late'[t][g] = 0
      BY <1>1, <1>9 DEF CopyComplete, AtSelect, t
    <2>1. ASSUME since[t][g] # -1, e > since[t][g]
          PROVE  Contains(rest, g) \/ Contains(handled'[g], e)
      <3>1. Contains(dispatcher.todo, g) \/ Contains(handled[g], e)
        BY <1>1, <2>1 DEF BusInv, CopyComplete, t, e
      <3> QED BY <1>4, <1>6, <1>7, <3>1
    <2>2. ASSUME Contains(rest, g) PROVE late'[t][g] = 0
      BY <1>2, <1>4, <1>5, <1>8, <1>16, <2>2
    <2> QED BY <2>1, <2>2
  <1>18. LateOnlyOutside' BY <1>1, <1>8 DEF BusInv, LateOnlyOutside
  <1>19. OneLateCall'
    <2>1. late[t][h] = 0 BY <1>4, <1>16
    <2> QED BY <1>2, <1>8, <2>1 DEF BusInv, OneLateCall
  <1>20. NoMissedEvent'
    <2>1. ASSUME NEW g \in HandlerIDs, NEW u \in EventTypes, NEW i \in DOMAIN accepted,
                 since[u][g] # -1, i > since[u][g], accepted[i] = u
          PROVE  Contains(handled'[g], i) \/ Contains(eventChan, i) \/ i = dispatcher'.event
      <3>1. Contains(handled[g], i) => Contains(handled'[g], i) BY <1>6, <1>7
      <3>2. Contains(handled[g], i) \/ Contains(eventChan, i) \/ i = e
        BY <2>1 DEF BusInv, NoMissedEvent, e
      <3>3. ASSUME i = e, dispatcher' = AtSelect PROVE Contains(handled'[g], i)
        <4>1. ~Contains(rest, g) BY <1>9, <3>3 DEF Contains, AtSelect
        <4>2. Contains(dispatcher.todo, g) \/ Contains(handled[g], e)
          BY <1>1, <2>1, <3>3 DEF BusInv, CopyComplete, e
        <4> QED BY <1>4, <1>6, <1>7, <3>3, <4>1, <4>2
      <3> QED BY <1>9, <3>1, <3>2, <3>3
    <2>2. ASSUME NEW g \in HandlerIDs, NEW i \in DOMAIN handled'[g], NEW j \in DOMAIN handled'[g], i < j
          PROVE  handled'[g][i] < handled'[g][j]
      <3>1. DOMAIN handled'[g] = 1..Len(handled'[g]) /\ DOMAIN handled[g] = 1..Len(handled[g])
        BY <1>3, <1>7, LenProperties
      <3>2. CASE g # h BY <1>7, <2>2, <3>2 DEF BusInv, NoMissedEvent
      <3>3. CASE g = h /\ j = Len(handled[h]) + 1
        <4>0. i \in 1..Len(handled[h]) + 1 BY <1>6, <1>7, <3>1, <3>3
        <4>1. i \in 1..Len(handled[h]) BY <1>6, <2>2, <3>3, <4>0
        <4>2. ToCall(h) BY <1>1, <1>4 DEF ToCall
        <4>3. handled[h][i] < Taken BY <1>4, <4>1, <4>2 DEF BusInv, CalledInOrder
        <4> QED BY <1>2, <1>6, <1>7, <3>3, <4>1, <4>3
      <3>4. CASE g = h /\ j # Len(handled[h]) + 1
        <4>1. i \in 1..Len(handled[h]) /\ j \in 1..Len(handled[h])
          <5>1. i \in 1..Len(handled[h]) + 1 /\ j \in 1..Len(handled[h]) + 1
            BY <1>6, <1>7, <3>1, <3>4
          <5> QED BY <1>6, <2>2, <3>4, <5>1
        <4>2. handled[h][i] < handled[h][j] BY <1>4, <2>2, <3>1, <3>4, <4>1 DEF BusInv, NoMissedEvent
        <4> QED BY <1>6, <1>7, <3>4, <4>1, <4>2
      <3> QED BY <3>2, <3>3, <3>4
    <2> QED BY <1>1, <2>1, <2>2 DEF NoMissedEvent
  <1> QED BY <1>10, <1>11, <1>12, <1>15, <1>17, <1>18, <1>19, <1>20 DEF BusInv

LEMMA ObserveDoneInv == BusInv /\ ObserveDone => BusInv'
  <1> SUFFICES ASSUME BusInv, ObserveDone PROVE BusInv'
    OBVIOUS
  <1>1. /\ dispatcher.at = "select" /\ dispatcher' = [dispatcher EXCEPT !.at = "gone"]
        /\ UNCHANGED <<subscribers, eventChan, accepted, handled, since, late>>
    BY DEF ObserveDone
  <1>2. /\ dispatcher'.at = "gone" /\ dispatcher'.event = dispatcher.event
        /\ dispatcher'.todo = dispatcher.todo
        /\ dispatcher' \in [at : {"select", "publish", "call", "gone"}, event : Nat, todo : Seq(HandlerIDs)]
    BY <1>1 DEF BusInv, BusTypeOK
  <1>3. BusTypeOK' BY <1>1, <1>2 DEF BusInv, BusTypeOK
  <1>4. Subscriptions' BY <1>1 DEF BusInv, Subscriptions
  <1>5. Dispatched' BY <1>1, <1>2 DEF BusInv, Dispatched, Taken
  <1>6. CalledInOrder' BY <1>1, <1>2 DEF BusInv, CalledInOrder, Taken, ToCall
  <1>7. CopyComplete' BY <1>2 DEF CopyComplete
  <1>8. LateOnlyOutside' /\ OneLateCall' /\ NoMissedEvent'
    BY <1>1, <1>2 DEF BusInv, LateOnlyOutside, OneLateCall, NoMissedEvent
  <1> QED BY <1>3, <1>4, <1>5, <1>6, <1>7, <1>8 DEF BusInv

-----------------------------------------------------------------------------
(* EventBus: the invariant and the theorems *)

LEMMA BusNextInv == BusInv /\ [BusNext]_busVars => BusInv'
  <1> SUFFICES ASSUME BusInv, [BusNext]_busVars PROVE BusInv'
    OBVIOUS
  <1>1. CASE Dispatch
    BY <1>1, ReceiveInv, CopyHandlersInv, CallHandlerInv, ObserveDoneInv DEF Dispatch
  <1>2. ASSUME NEW t \in EventTypes, NEW h \in HandlerIDs, Subscribe(t, h) \/ Unsubscribe(t, h)
        PROVE  BusInv'
    BY <1>2, SubscribeInv, UnsubscribeInv
  <1>3. CASE Clear BY <1>3, ClearInv
  <1>4. ASSUME NEW t \in EventTypes, publishAsync(t) PROVE BusInv'
    <2>1. CASE PublishAccepted(t) BY <1>4, <2>1, PublishAcceptedInv DEF publishAsync
    <2>2. CASE PublishDropped(t) BY <1>4, <2>2, BusQuiet DEF publishAsync, PublishDropped
    <2>3. CASE PublishPanics(t) BY <1>4, <2>3, BusQuiet DEF publishAsync, PublishPanics
    <2> QED BY <1>4, <2>1, <2>2, <2>3 DEF publishAsync
  <1>5. CASE CloseBegin \/ CloseEnd \/ CloseAgain
    BY <1>5, BusQuiet DEF CloseBegin, CloseEnd, CloseAgain
  <1>6. CASE UNCHANGED busVars BY <1>6, BusQuiet DEF busVars
  <1> QED BY <1>1, <1>2, <1>3, <1>4, <1>5, <1>6 DEF BusNext

LEMMA BusSpecInv == BusSpec => []BusInv
  <1> QED BY BusInitInv, BusNextInv, PTL DEF BusSpec

\* A subscribed handler gets every event that was accepted since it subscribed and that has left
\* the channel, in the order of acceptance and none twice, however many types, handlers and
\* events there are and however subscriptions change while the dispatcher calls from its copy of
\* the list (AsyncEventBus.start, EventBus.publish).
THEOREM BusDelivers == BusSpec => []NoMissedEvent
  <1>1. BusInv => NoMissedEvent BY DEF BusInv
  <1> QED BY <1>1, BusSpecInv, PTL

\* After Unsubscribe or Clear a handler is called at most once more for the type, until it
\* subscribes again: the one event whose copy of the list still names it (EventBus.publish).
THEOREM BusLateCalls == BusSpec => []OneLateCall
  <1>1. BusInv => OneLateCall BY DEF BusInv
  <1> QED BY <1>1, BusSpecInv, PTL

-----------------------------------------------------------------------------
(* UserSessions: the invariant *)

LEMMA AuthInitInv == AuthInit => AuthInv
  <1> SUFFICES ASSUME AuthInit PROVE AuthInv
    OBVIOUS
  <1> USE DEF AuthInit, NoUpdate, LoggedOut
  <1>1. Len(accounts) = 0 /\ accounts \in Seq(Accounts) BY EmptySeq
  <1>2. AuthTypeOK BY <1>1 DEF AuthTypeOK, LoginPlaces
  <1>3. Pointing /\ ReadsHold /\ AnswerAsOfLookup /\ SessionsOfUsers
    BY DEF Pointing, ReadsHold, AnswerAsOfLookup, SessionsOfUsers
  <1>4. HashFitsSalt BY <1>1 DEF HashFitsSalt
  <1> QED BY <1>2, <1>3, <1>4 DEF AuthInv

-----------------------------------------------------------------------------
(* Administration *)

LEMMA CreateUserInv ==
    ASSUME AuthInv, NEW i \in SystemIDs, NEW active \in BOOLEAN, NEW pw \in Passwords,
           CreateUser(i, active, pw)
    PROVE  AuthInv'
  <1> DEFINE new == [active |-> active, salt |-> salts + 1, hash |-> <<pw, salts + 1>>]
  <1>1. /\ admin = NoUpdate /\ users[i] = 0 /\ salts' = salts + 1
        /\ accounts' = Append(accounts, new)
        /\ users' = [users EXCEPT ![i] = Len(accounts')]
        /\ UNCHANGED <<admin, login, sessions>>
    BY DEF CreateUser, Unlocked
  <1>2. AuthTypeOK BY DEF AuthInv
  <1>3. new \in Accounts BY <1>2 DEF AuthTypeOK, Accounts
  <1>4. /\ accounts' \in Seq(Accounts) /\ Len(accounts') = Len(accounts) + 1 /\ Len(accounts) \in Nat
        /\ \A a \in 1..Len(accounts) : accounts'[a] = accounts[a]
        /\ accounts'[Len(accounts) + 1] = new
    BY <1>1, <1>2, <1>3, AppendProperties, LenProperties DEF AuthTypeOK
  <1> HIDE DEF new
  <1>5. AuthTypeOK' BY <1>1, <1>2, <1>4 DEF AuthTypeOK
  <1>6. Pointing' BY <1>1 DEF AuthInv, Pointing
  <1>7. HashFitsSalt' BY <1>1, <1>4 DEF AuthInv, HashFitsSalt, new, NoUpdate
  <1>8. \A l \in Logins : login[l].account # 0 => accounts'[login[l].account] = accounts[login[l].account]
    BY <1>2, <1>4 DEF AuthTypeOK
  <1>9. ReadsHold' BY <1>1, <1>8 DEF AuthInv, ReadsHold, Pointing, Account
  <1>10. AnswerAsOfLookup' BY <1>1 DEF AuthInv, AnswerAsOfLookup
  <1>11. SessionsOfUsers' BY <1>1, <1>2 DEF AuthInv, AuthTypeOK, Pointing, SessionsOfUsers
  <1> QED BY <1>5, <1>6, <1>7, <1>9, <1>10, <1>11 DEF AuthInv

LEMMA UpdateUserInv ==
    ASSUME AuthInv, NEW i \in SystemIDs, NEW active \in BOOLEAN, NEW pw \in SUBSET Passwords,
           UpdateUser(i, active, pw)
    PROVE  AuthInv'
  <1> DEFINE a == users[i]
             touched == {l \in Logins : login[l].account = a /\ login[l].at \in {"active", "salt", "hash"}}
  <1>1. /\ admin = NoUpdate /\ a # 0
        /\ accounts' = [accounts EXCEPT ![a].active = active]
        /\ admin' = IF pw = {} THEN NoUpdate ELSE [at |-> "salt", account |-> a, pw |-> pw]
        /\ login' = [l \in Logins |-> IF l \in touched THEN [login[l] EXCEPT !.overlap = TRUE]
                                      ELSE login[l]]
        /\ UNCHANGED <<users, sessions, salts>>
    BY DEF UpdateUser, Unlocked, Reading
  <1>2. AuthTypeOK /\ a \in 1..Len(accounts) BY <1>1, LenProperties DEF AuthInv, AuthTypeOK
  <1>3. /\ accounts' \in Seq(Accounts) /\ Len(accounts') = Len(accounts) /\ Len(accounts) \in Nat
        /\ \A b \in 1..Len(accounts) :
             /\ b # a => accounts'[b] = accounts[b]
             /\ accounts'[b].salt = accounts[b].salt /\ accounts'[b].hash = accounts[b].hash
    <2>1. accounts \in Seq(Accounts) BY <1>2 DEF AuthTypeOK
    <2>2. accounts[a] \in Accounts /\ Len(accounts) \in Nat BY <1>2, <2>1, ElementOfSeq, LenProperties
    <2>3. [accounts[a] EXCEPT !.active = active] \in Accounts BY <2>2 DEF Accounts
    <2>4. accounts' = [accounts EXCEPT ![a] = [accounts[a] EXCEPT !.active = active]] BY <1>1
    <2> HIDE DEF a
    <2> QED BY <1>2, <2>1, <2>2, <2>3, <2>4, ExceptSeq DEF Accounts
  <1> HIDE DEF a
  <1>4. \A l \in Logins : /\ login'[l].at = login[l].at /\ login'[l].account = login[l].account
                          /\ login'[l].pw = login[l].pw /\ login'[l].salt = login[l].salt
                          /\ login'[l].valid = login[l].valid /\ login'[l].id = login[l].id
                          /\ l \in touched => login'[l].overlap = TRUE
                          /\ l \notin touched => login'[l] = login[l]
    BY <1>1, <1>2 DEF AuthTypeOK
  <1>5. AuthTypeOK'
    <2>1. login' \in [Logins -> [at : LoginPlaces, id : SUBSET SystemIDs, account : 0..Len(accounts),
                             pw : SUBSET Passwords, salt : Nat, valid : BOOLEAN, overlap : BOOLEAN]]
      <3>1. login \in [Logins -> [at : LoginPlaces, id : SUBSET SystemIDs, account : 0..Len(accounts),
                               pw : SUBSET Passwords, salt : Nat, valid : BOOLEAN, overlap : BOOLEAN]]
        BY <1>2 DEF AuthTypeOK
      <3>2. login' = [l \in Logins |-> IF l \in touched THEN [login[l] EXCEPT !.overlap = TRUE] ELSE login[l]]
        BY <1>1
      <3> HIDE DEF touched
      <3> QED BY ONLY <3>1, <3>2
    <2>2. admin' \in [at : {"none", "salt", "hash"}, account : 0..Len(accounts), pw : SUBSET Passwords]
      BY <1>1, <1>2, <1>3 DEF AuthTypeOK, NoUpdate
    <2> QED BY <1>1, <1>2, <1>3, <2>1, <2>2 DEF AuthTypeOK
  <1>6. Pointing' BY <1>1, <1>4 DEF AuthInv, Pointing, NoUpdate
  <1>7. HashFitsSalt' BY <1>1, <1>3 DEF AuthInv, HashFitsSalt, NoUpdate
  <1>8. ReadsHold'
    <2> SUFFICES ASSUME NEW l \in Logins, login'[l].at \in {"active", "salt", "hash"}, ~login'[l].overlap
                 PROVE  /\ admin'.at # "none" => admin'.account # login'[l].account
                        /\ login'[l].valid <=> (Account(l)'.active /\ login'[l].pw = {Account(l)'.hash[1]})
                        /\ login'[l].at # "active" => Account(l)'.active
                        /\ login'[l].at = "hash" => login'[l].salt = Account(l)'.salt
                        /\ \E p \in Passwords : login'[l].pw = {p}
      BY DEF ReadsHold
    <2>1. l \notin touched /\ login'[l] = login[l] BY <1>4
    <2>2. login[l].account # a /\ login[l].account \in 1..Len(accounts)
      BY <1>2, <1>3, <2>1 DEF AuthInv, AuthTypeOK, Pointing
    <2>3. Account(l)' = Account(l) BY <1>3, <2>1, <2>2 DEF Account
    <2>4. admin'.at # "none" => admin'.account = a BY <1>1 DEF NoUpdate
    <2> QED BY <2>1, <2>2, <2>3, <2>4 DEF AuthInv, ReadsHold
  <1>9. AnswerAsOfLookup' BY <1>4 DEF AuthInv, AnswerAsOfLookup
  <1>10. SessionsOfUsers' BY <1>1 DEF AuthInv, SessionsOfUsers
  <1> QED BY <1>5, <1>6, <1>7, <1>8, <1>9, <1>10 DEF AuthInv

\* Both further steps of UpdateUser change one account that no goroutine without overlap reads.
LEMMA AccountStep ==
    ASSUME AuthInv, admin.at # "none", NEW r \in Accounts,
           accounts' = [accounts EXCEPT ![admin.account] = r],
           r.active = accounts[admin.account].active,
           UNCHANGED <<users, login, sessions>>
    PROVE  /\ admin.account \in 1..Len(accounts) /\ accounts' \in Seq(Accounts)
           /\ Len(accounts') = Len(accounts) /\ Len(accounts) \in Nat
           /\ accounts'[admin.account] = r
           /\ \A b \in 1..Len(accounts) : b # admin.account => accounts'[b] = accounts[b]
           /\ (admin'.at # "none" => admin'.account = admin.account) => ReadsHold'
  <1>1. AuthTypeOK /\ Pointing /\ ReadsHold BY DEF AuthInv
  <1>2. accounts \in Seq(Accounts) /\ Len(accounts) \in Nat BY <1>1, LenProperties DEF AuthTypeOK
  <1>3. admin.account \in 1..Len(accounts) BY <1>1, <1>2 DEF AuthTypeOK, Pointing
  <1>4. /\ accounts' \in Seq(Accounts) /\ Len(accounts') = Len(accounts)
        /\ accounts'[admin.account] = r
        /\ \A b \in 1..Len(accounts) : b # admin.account => accounts'[b] = accounts[b]
    BY <1>2, <1>3, ExceptSeq
  <1>5. ASSUME admin'.at # "none" => admin'.account = admin.account PROVE ReadsHold'
    <2>1. \A l \in Logins : (login[l].at \in {"active", "salt", "hash"} /\ ~login[l].overlap) =>
             login[l].account # admin.account /\ login[l].account \in 1..Len(accounts)
      BY <1>1, <1>2 DEF AuthTypeOK, Pointing, ReadsHold
    <2> QED BY <1>1, <1>4, <1>5, <2>1 DEF ReadsHold, Account
  <1> QED BY <1>2, <1>3, <1>4, <1>5

LEMMA UpdateSaltInv == AuthInv /\ UpdateSalt => AuthInv'
  <1> SUFFICES ASSUME AuthInv, UpdateSalt PROVE AuthInv'
    OBVIOUS
  <1> DEFINE a == admin.account
             r == [accounts[a] EXCEPT !.salt = salts + 1]
  <1>1. /\ admin.at = "salt" /\ salts' = salts + 1
        /\ accounts' = [accounts EXCEPT ![a] = r]
        /\ admin' = [admin EXCEPT !.at = "hash"]
        /\ UNCHANGED <<users, login, sessions>>
    BY DEF UpdateSalt
  <1>2. AuthTypeOK BY DEF AuthInv
  <1>3. accounts[a] \in Accounts
    BY <1>1, <1>2, LenProperties, ElementOfSeq DEF AuthInv, AuthTypeOK, Pointing
  <1>4. r \in Accounts /\ r.active = accounts[a].active
    <2>1. salts + 1 \in Nat BY <1>2 DEF AuthTypeOK
    <2> DEFINE b == accounts[a]  n == salts + 1
    <2>2. b \in Accounts /\ n \in Nat BY <1>3, <2>1
    <2> HIDE DEF b, n
    <2>3. [b EXCEPT !.salt = n] \in Accounts /\ [b EXCEPT !.salt = n].active = b.active
      BY <2>2 DEF Accounts
    <2> QED BY <2>3 DEF b, n
  <1>5. admin'.at = "hash" /\ admin'.account = a /\ admin'.pw = admin.pw
    BY <1>1, <1>2 DEF AuthTypeOK
  <1>6. admin' \in [at : {"none", "salt", "hash"}, account : 0..Len(accounts), pw : SUBSET Passwords]
    BY <1>1, <1>2 DEF AuthTypeOK
  <1> HIDE DEF r
  <1>7. /\ a \in 1..Len(accounts) /\ accounts' \in Seq(Accounts)
        /\ Len(accounts') = Len(accounts) /\ Len(accounts) \in Nat
        /\ \A b \in 1..Len(accounts) : b # a => accounts'[b] = accounts[b]
        /\ ReadsHold'
    BY <1>1, <1>4, <1>5, AccountStep
  <1> HIDE DEF a
  <1>8. AuthTypeOK'
    <2>1. salts' \in Nat BY <1>1, <1>2 DEF AuthTypeOK
    <2> QED BY <1>1, <1>2, <1>6, <1>7, <2>1 DEF AuthTypeOK
  <1>9. Pointing' BY <1>1, <1>5, <1>7 DEF AuthInv, Pointing
  <1>10. HashFitsSalt' BY <1>1, <1>5, <1>7 DEF AuthInv, HashFitsSalt
  <1>11. AnswerAsOfLookup' /\ SessionsOfUsers'
    BY <1>1 DEF AuthInv, AnswerAsOfLookup, SessionsOfUsers
  <1> QED BY <1>7, <1>8, <1>9, <1>10, <1>11 DEF AuthInv

LEMMA UpdateHashInv == AuthInv /\ UpdateHash => AuthInv'
  <1> SUFFICES ASSUME AuthInv, UpdateHash PROVE AuthInv'
    OBVIOUS
  <1>1. PICK pw \in admin.pw :
          accounts' = [accounts EXCEPT ![admin.account].hash = <<pw, accounts[admin.account].salt>>]
    BY DEF UpdateHash
  <1> DEFINE a == admin.account
             r == [accounts[a] EXCEPT !.hash = <<pw, accounts[a].salt>>]
  <1>2. /\ admin.at = "hash" /\ admin' = NoUpdate /\ accounts' = [accounts EXCEPT ![a] = r]
        /\ UNCHANGED <<users, login, sessions, salts>>
    BY <1>1 DEF UpdateHash
  <1>3. AuthTypeOK /\ pw \in Passwords BY DEF AuthInv, AuthTypeOK
  <1>4. accounts[a] \in Accounts
    BY <1>2, <1>3, LenProperties, ElementOfSeq DEF AuthInv, AuthTypeOK, Pointing
  <1>5. r \in Accounts /\ r.active = accounts[a].active /\ r.hash[2] = r.salt
    BY <1>3, <1>4 DEF Accounts
  <1>6. admin'.at = "none" /\ admin'.account = 0 /\ admin'.pw = {} BY <1>2 DEF NoUpdate
  <1> HIDE DEF r
  <1>7. /\ a \in 1..Len(accounts) /\ accounts' \in Seq(Accounts) /\ accounts'[a] = r
        /\ Len(accounts') = Len(accounts) /\ Len(accounts) \in Nat
        /\ \A b \in 1..Len(accounts) : b # a => accounts'[b] = accounts[b]
        /\ ReadsHold'
    BY <1>2, <1>5, <1>6, AccountStep
  <1> HIDE DEF a
  <1>8. AuthTypeOK' BY <1>2, <1>3, <1>7 DEF AuthTypeOK, NoUpdate
  <1>9. Pointing' BY <1>2, <1>6 DEF AuthInv, Pointing
  <1>10. \A b \in 1..Len(accounts) : b # a => accounts[b].hash[2] = accounts[b].salt
    BY DEF AuthInv, HashFitsSalt, a
  <1>11. HashFitsSalt' BY <1>5, <1>7, <1>10 DEF HashFitsSalt
  <1>12. AnswerAsOfLookup' /\ SessionsOfUsers'
    BY <1>2 DEF AuthInv, AnswerAsOfLookup, SessionsOfUsers
  <1> QED BY <1>7, <1>8, <1>9, <1>11, <1>12 DEF AuthInv

LEMMA DeleteUserInv ==
    ASSUME AuthInv, NEW i \in SystemIDs, DeleteUser(i)
    PROVE  AuthInv'
  <1>1. /\ users' = [users EXCEPT ![i] = 0] /\ sessions' = {s \in sessions : s.id # i}
        /\ UNCHANGED <<accounts, admin, login, salts>>
    BY DEF DeleteUser
  <1>2. AuthTypeOK' BY <1>1, LenProperties DEF AuthInv, AuthTypeOK
  <1>3. Pointing' /\ HashFitsSalt' /\ AnswerAsOfLookup'
    BY <1>1 DEF AuthInv, Pointing, HashFitsSalt, AnswerAsOfLookup
  <1>4. ReadsHold' BY <1>1 DEF AuthInv, ReadsHold, Account
  <1>5. SessionsOfUsers' BY <1>1 DEF AuthInv, AuthTypeOK, SessionsOfUsers
  <1> QED BY <1>2, <1>3, <1>4, <1>5 DEF AuthInv

-----------------------------------------------------------------------------
(* Authenticate and CreateSession: a step of one goroutine *)

\* What ReadsHold says of one goroutine in state r.
Holds(r) ==
    LET acc == accounts[r.account] IN
    (r.at \in {"active", "salt", "hash"} /\ ~r.overlap) =>
        /\ admin.at # "none" => admin.account # r.account
        /\ r.valid <=> (acc.active /\ r.pw = {acc.hash[1]})
        /\ r.at # "active" => acc.active
        /\ r.at = "hash" => r.salt = acc.salt
        /\ \E pw \in Passwords : r.pw = {pw}

LoginRecords == [at : LoginPlaces, id : SUBSET SystemIDs, account : 0..Len(accounts),
                 pw : SUBSET Passwords, salt : Nat, valid : BOOLEAN, overlap : BOOLEAN]

\* A step of one goroutine that only moves it keeps the invariant if its new state does.
LEMMA LoginStep ==
    ASSUME AuthInv, NEW l \in Logins, NEW r \in LoginRecords,
           login' = [login EXCEPT ![l] = r],
           r.at \in {"active", "salt", "hash", "session"} => r.account # 0,
           Holds(r),
           (r.at \in {"granted", "refused"} /\ ~r.overlap) => (r.at = "granted" <=> r.valid),
           UNCHANGED <<users, accounts, admin, salts>>,
           sessions' \subseteq [n : Nat, id : SystemIDs, account : Nat, raced : BOOLEAN],
           \A s \in sessions' : s.account # 0,
           SessionsOfUsers'
    PROVE  AuthInv'
  <1>1. /\ login'[l] = r /\ \A k \in Logins : k # l => login'[k] = login[k]
        /\ login' \in [Logins -> LoginRecords]
    BY DEF AuthInv, AuthTypeOK, LoginRecords
  <1>2. AuthTypeOK' BY <1>1 DEF AuthInv, AuthTypeOK, LoginRecords
  <1>3. Pointing' BY <1>1 DEF AuthInv, Pointing
  <1>4. HashFitsSalt' BY DEF AuthInv, HashFitsSalt
  <1>5. ReadsHold'
    <2> SUFFICES ASSUME NEW k \in Logins PROVE Holds(login'[k])
      BY DEF ReadsHold, Holds, Account
    <2>1. CASE k = l BY <1>1, <2>1
    <2>2. CASE k # l BY <1>1, <2>2 DEF AuthInv, ReadsHold, Holds, Account
    <2> QED BY <2>1, <2>2
  <1>6. AnswerAsOfLookup' BY <1>1 DEF AuthInv, AnswerAsOfLookup
  <1> QED BY <1>2, <1>3, <1>4, <1>5, <1>6 DEF AuthInv

LEMMA AuthLookupInv ==
    ASSUME AuthInv, NEW l \in Logins, NEW i \in SystemIDs, NEW pw \in Passwords, AuthLookup(l, i, pw)
    PROVE  AuthInv'
  <1> DEFINE a == accounts[users[i]]
             r == [at |-> "active", id |-> {i}, account |-> users[i], pw |-> {pw}, salt |-> 0,
                   valid |-> a.active /\ a.hash[1] = pw, overlap |-> FALSE]
  <1>1. /\ admin = NoUpdate /\ users[i] # 0 /\ login' = [login EXCEPT ![l] = r]
        /\ UNCHANGED <<users, accounts, admin, sessions, salts>>
    BY DEF AuthLookup, Unlocked
  <1>2. users[i] \in 0..Len(accounts) BY DEF AuthInv, AuthTypeOK
  <1>3. r.valid \in BOOLEAN BY Zenon
  <1>4. r \in LoginRecords BY <1>2, <1>3 DEF LoginRecords, LoginPlaces
  <1>5. r.valid <=> (a.active /\ r.pw = {a.hash[1]}) OBVIOUS
  <1>6. Holds(r) BY <1>1, <1>5 DEF Holds, NoUpdate
  <1>7. r.at = "active" /\ r.account = users[i] OBVIOUS
  <1> HIDE DEF r
  <1> QED BY <1>1, <1>4, <1>6, <1>7, LoginStep DEF AuthInv, AuthTypeOK, Pointing, SessionsOfUsers

LEMMA CheckActiveInv ==
    ASSUME AuthInv, NEW l \in Logins, CheckActive(l)
    PROVE  AuthInv'
  <1> DEFINE r == [login[l] EXCEPT !.at = IF Account(l).active THEN "salt" ELSE "refused"]
  <1>1. /\ login[l].at = "active" /\ login' = [login EXCEPT ![l] = r]
        /\ UNCHANGED <<users, accounts, admin, sessions, salts>>
    BY DEF CheckActive
  <1>2. login[l] \in LoginRecords BY DEF AuthInv, AuthTypeOK, LoginRecords
  <1>3. r \in LoginRecords BY <1>2 DEF LoginRecords, LoginPlaces
  <1>4. /\ r.at = (IF Account(l).active THEN "salt" ELSE "refused")
        /\ r.account = login[l].account /\ r.pw = login[l].pw /\ r.salt = login[l].salt
        /\ r.valid = login[l].valid /\ r.overlap = login[l].overlap
    BY <1>2 DEF LoginRecords
  <1> HIDE DEF r
  <1>5. r.account # 0 BY <1>1, <1>4 DEF AuthInv, Pointing
  <1>6. Holds(r) BY <1>1, <1>4 DEF AuthInv, ReadsHold, Holds, Account
  <1>7. (r.at \in {"granted", "refused"} /\ ~r.overlap) => (r.at = "granted" <=> r.valid)
    BY <1>1, <1>4 DEF AuthInv, ReadsHold
  <1> QED BY <1>1, <1>3, <1>5, <1>6, <1>7, LoginStep DEF AuthInv, AuthTypeOK, Pointing, SessionsOfUsers

LEMMA ReadSaltInv ==
    ASSUME AuthInv, NEW l \in Logins, ReadSalt(l)
    PROVE  AuthInv'
  <1> DEFINE r == [login[l] EXCEPT !.at = "hash", !.salt = Account(l).salt]
  <1>1. /\ login[l].at = "salt"
        /\ UNCHANGED <<users, accounts, admin, sessions, salts>>
    BY DEF ReadSalt
  <1>2. login[l] \in LoginRecords /\ login \in [Logins -> LoginRecords]
    BY DEF AuthInv, AuthTypeOK, LoginRecords
  <1>3. login' = [login EXCEPT ![l] = r] BY <1>2 DEF ReadSalt
  <1>4. login[l].account # 0 BY <1>1 DEF AuthInv, Pointing
  <1>5. Account(l).salt \in Nat
    <2>1. login[l].account \in 1..Len(accounts)
      BY <1>2, <1>4, LenProperties DEF AuthInv, AuthTypeOK, LoginRecords
    <2>2. Account(l) \in Accounts BY <2>1, ElementOfSeq DEF AuthInv, AuthTypeOK, Account
    <2> QED BY <2>2 DEF Accounts
  <1>6. r \in LoginRecords BY <1>2, <1>5 DEF LoginRecords, LoginPlaces
  <1>7. /\ r.at = "hash" /\ r.salt = Account(l).salt
        /\ r.account = login[l].account /\ r.pw = login[l].pw
        /\ r.valid = login[l].valid /\ r.overlap = login[l].overlap
    BY <1>2 DEF LoginRecords
  <1> HIDE DEF r
  <1>8. Holds(r) BY <1>1, <1>7 DEF AuthInv, ReadsHold, Holds, Account
  <1> QED BY <1>1, <1>3, <1>4, <1>6, <1>7, <1>8, LoginStep DEF AuthInv, AuthTypeOK, Pointing, SessionsOfUsers

LEMMA CompareHashInv ==
    ASSUME AuthInv, NEW l \in Logins, CompareHash(l)
    PROVE  AuthInv'
  <1>1. PICK pw \in login[l].pw :
          login' = [login EXCEPT ![l].at =
                      IF Account(l).hash = <<pw, login[l].salt>> THEN "granted" ELSE "refused"]
    BY DEF CompareHash
  <1> DEFINE r == [login[l] EXCEPT !.at = IF Account(l).hash = <<pw, login[l].salt>> THEN "granted"
                                          ELSE "refused"]
  <1>2. /\ login[l].at = "hash" /\ login' = [login EXCEPT ![l] = r]
        /\ UNCHANGED <<users, accounts, admin, sessions, salts>>
    BY <1>1 DEF CompareHash
  <1>3. login[l] \in LoginRecords BY DEF AuthInv, AuthTypeOK, LoginRecords
  <1>4. r \in LoginRecords BY <1>3 DEF LoginRecords, LoginPlaces
  <1>5. /\ r.at = (IF Account(l).hash = <<pw, login[l].salt>> THEN "granted" ELSE "refused")
        /\ r.valid = login[l].valid /\ r.overlap = login[l].overlap
    BY <1>3 DEF LoginRecords
  <1>6. login[l].account \in 1..Len(accounts)
    BY <1>2, <1>3, LenProperties DEF AuthInv, AuthTypeOK, Pointing, LoginRecords
  <1>7. Account(l) \in Accounts BY <1>6, ElementOfSeq DEF AuthInv, AuthTypeOK, Account
  <1>8. Account(l).hash = <<Account(l).hash[1], Account(l).hash[2]>> BY <1>7 DEF Accounts
  <1> HIDE DEF r
  <1>9. (r.at \in {"granted", "refused"} /\ ~r.overlap) => (r.at = "granted" <=> r.valid)
    <2> SUFFICES ASSUME ~login[l].overlap PROVE r.at = "granted" <=> r.valid
      BY <1>5
    <2>1. /\ admin.at # "none" => admin.account # login[l].account
          /\ login[l].valid <=> (Account(l).active /\ login[l].pw = {Account(l).hash[1]})
          /\ Account(l).active /\ login[l].salt = Account(l).salt
          /\ login[l].pw = {pw}
      BY <1>1, <1>2 DEF AuthInv, ReadsHold
    <2>2. Account(l).hash[2] = Account(l).salt
      BY <1>6, <2>1 DEF AuthInv, HashFitsSalt, Account
    <2>3. login[l].valid <=> Account(l).hash[1] = pw BY <2>1
    <2>4. Account(l).hash = <<pw, login[l].salt>> <=> Account(l).hash[1] = pw
      BY <1>8, <2>1, <2>2
    <2> QED BY <1>5, <2>3, <2>4
  <1>10. r.at \in {"granted", "refused"} BY <1>5
  <1>11. Holds(r) BY <1>10 DEF Holds
  <1> QED BY <1>2, <1>4, <1>9, <1>10, <1>11, LoginStep
          DEF AuthInv, AuthTypeOK, Pointing, SessionsOfUsers

LEMMA LoggedOutRecord ==
    ASSUME AuthInv
    PROVE  LoggedOut \in LoginRecords /\ LoggedOut.at = "out" /\ Holds(LoggedOut)
  BY LenProperties DEF AuthInv, AuthTypeOK, LoggedOut, LoginRecords, LoginPlaces, Holds

LEMMA AuthReturnsInv ==
    ASSUME AuthInv, NEW l \in Logins, AuthReturns(l)
    PROVE  AuthInv'
  BY LoggedOutRecord, LoginStep DEF AuthReturns, AuthInv, AuthTypeOK, Pointing, SessionsOfUsers

LEMMA SessionLookupInv ==
    ASSUME AuthInv, NEW l \in Logins, NEW i \in SystemIDs, SessionLookup(l, i)
    PROVE  AuthInv'
  <1> DEFINE r == [LoggedOut EXCEPT !.at = "session", !.id = {i}, !.account = users[i]]
  <1>1. /\ users[i] # 0 /\ login' = [login EXCEPT ![l] = r]
        /\ UNCHANGED <<users, accounts, admin, sessions, salts>>
    BY DEF SessionLookup
  <1>2. users[i] \in 0..Len(accounts) BY DEF AuthInv, AuthTypeOK
  <1>3. r \in LoginRecords /\ r.at = "session" /\ r.account = users[i]
    BY <1>2 DEF LoginRecords, LoginPlaces, LoggedOut
  <1> HIDE DEF r
  <1>4. Holds(r) BY <1>3 DEF Holds
  <1> QED BY <1>1, <1>3, <1>4, LoginStep DEF AuthInv, AuthTypeOK, Pointing, SessionsOfUsers

LEMMA AddSessionInv ==
    ASSUME AuthInv, NEW l \in Logins, AddSession(l)
    PROVE  AuthInv'
  <1>1. PICK i \in login[l].id, n \in 1..MaxSessions :
          sessions' = sessions \cup {[n |-> n, id |-> i, account |-> login[l].account,
                                      raced |-> users[i] # login[l].account]}
    BY DEF AddSession
  <1> DEFINE s == [n |-> n, id |-> i, account |-> login[l].account,
                   raced |-> users[i] # login[l].account]
  <1>2. /\ login[l].at = "session" /\ login' = [login EXCEPT ![l] = LoggedOut]
        /\ UNCHANGED <<users, accounts, admin, salts>>
    BY DEF AddSession
  <1>3. /\ i \in SystemIDs /\ login[l].account \in Nat /\ login[l].account # 0 /\ n \in Nat
    BY <1>2, LenProperties, SessionsAssumption DEF AuthInv, AuthTypeOK, Pointing
  <1>4. s.raced \in BOOLEAN BY Zenon
  <1>5. s \in [n : Nat, id : SystemIDs, account : Nat, raced : BOOLEAN] BY <1>3, <1>4
  <1>6. s.account # 0 /\ (~s.raced => users[s.id] = s.account) BY <1>3
  <1>7. sessions' = sessions \cup {s} BY <1>1
  <1> HIDE DEF s
  <1>8. SessionsOfUsers' BY <1>2, <1>6, <1>7 DEF AuthInv, SessionsOfUsers
  <1>9. /\ sessions' \subseteq [n : Nat, id : SystemIDs, account : Nat, raced : BOOLEAN]
        /\ \A t \in sessions' : t.account # 0
    BY <1>5, <1>6, <1>7 DEF AuthInv, AuthTypeOK, Pointing
  <1> QED BY <1>2, <1>8, <1>9, LoggedOutRecord, LoginStep

LEMMA RemoveSessionInv ==
    ASSUME AuthInv, NEW s \in sessions, RemoveSession(s)
    PROVE  AuthInv'
  <1> USE DEF RemoveSession
  <1>1. AuthTypeOK' BY DEF AuthInv, AuthTypeOK
  <1>2. Pointing' /\ HashFitsSalt' /\ AnswerAsOfLookup' /\ SessionsOfUsers'
    BY DEF AuthInv, Pointing, HashFitsSalt, AnswerAsOfLookup, SessionsOfUsers
  <1>3. ReadsHold' BY DEF AuthInv, ReadsHold, Account
  <1> QED BY <1>1, <1>2, <1>3 DEF AuthInv

-----------------------------------------------------------------------------
(* The invariant and the theorems *)

LEMMA AuthNextInv == AuthInv /\ [AuthNext]_authVars => AuthInv'
  <1> SUFFICES ASSUME AuthInv, [AuthNext]_authVars PROVE AuthInv'
    OBVIOUS
  <1>1. CASE \E i \in SystemIDs, active \in BOOLEAN :
               \/ \E pw \in Passwords : CreateUser(i, active, pw) \/ UpdateUser(i, active, {pw})
               \/ UpdateUser(i, active, {})
    <2> PICK i \in SystemIDs, active \in BOOLEAN :
               \/ \E pw \in Passwords : CreateUser(i, active, pw) \/ UpdateUser(i, active, {pw})
               \/ UpdateUser(i, active, {})
      BY <1>1
    <2>1. ASSUME NEW pw \in Passwords, CreateUser(i, active, pw) PROVE AuthInv'
      BY <2>1, CreateUserInv
    <2>2. ASSUME NEW pw \in SUBSET Passwords, UpdateUser(i, active, pw) PROVE AuthInv'
      BY <2>2, UpdateUserInv
    <2>3. {} \in SUBSET Passwords /\ \A pw \in Passwords : {pw} \in SUBSET Passwords
      OBVIOUS
    <2> QED BY <2>1, <2>2, <2>3
  <1>2. CASE UpdateSalt BY <1>2, UpdateSaltInv
  <1>3. CASE UpdateHash BY <1>3, UpdateHashInv
  <1>4. CASE \E i \in SystemIDs : DeleteUser(i) BY <1>4, DeleteUserInv
  <1>5. ASSUME NEW l \in Logins,
               \/ \E i \in SystemIDs, pw \in Passwords : AuthLookup(l, i, pw)
               \/ CheckActive(l) \/ ReadSalt(l) \/ CompareHash(l) \/ AuthReturns(l)
               \/ \E i \in SystemIDs : SessionLookup(l, i)
               \/ AddSession(l)
        PROVE  AuthInv'
    BY <1>5, AuthLookupInv, CheckActiveInv, ReadSaltInv, CompareHashInv, AuthReturnsInv,
       SessionLookupInv, AddSessionInv
  <1>6. CASE \E s \in sessions : RemoveSession(s) BY <1>6, RemoveSessionInv
  <1>7. CASE UNCHANGED authVars
    <2> USE <1>7 DEF authVars
    <2>1. AuthTypeOK' BY DEF AuthInv, AuthTypeOK
    <2>2. Pointing' /\ HashFitsSalt' /\ AnswerAsOfLookup' /\ SessionsOfUsers'
      BY DEF AuthInv, Pointing, HashFitsSalt, AnswerAsOfLookup, SessionsOfUsers
    <2>3. ReadsHold' BY DEF AuthInv, ReadsHold, Account
    <2> QED BY <2>1, <2>2, <2>3 DEF AuthInv
  <1> QED BY <1>1, <1>2, <1>3, <1>4, <1>5, <1>6, <1>7 DEF AuthNext

LEMMA AuthSpecInv == AuthSpec => []AuthInv
  <1>1. AuthInit => AuthInv BY AuthInitInv
  <1>2. AuthInv /\ [AuthNext]_authVars => AuthInv' BY AuthNextInv
  <1> QED BY <1>1, <1>2, PTL DEF AuthSpec

\* An Authenticate that no UpdateUser of the same user overlaps grants exactly the active user
\* with that password, as of its lookup, for any number of goroutines: releasing the lock between
\* the lookup and the reads of Active, Salt and PasswordHash costs nothing as long as the user is
\* only deleted, replaced, or updated before or after (DefaultUserAuth.Authenticate).
THEOREM AuthAnswer == AuthSpec => []AnswerAsOfLookup
  <1>1. AuthInv => AnswerAsOfLookup BY DEF AuthInv
  <1> QED BY <1>1, AuthSpecInv, PTL

\* Every session belongs to the user its system ID names now, unless the user was deleted between
\* the lookup and the insertion of the CreateSession that made it (DefaultUserAuth.DeleteUser
\* removes the sessions of the user under the same lock).
THEOREM AuthSessions == AuthSpec => []SessionsOfUsers
  <1>1. AuthInv => SessionsOfUsers BY DEF AuthInv
  <1> QED BY <1>1, AuthSpecInv, PTL

-----------------------------------------------------------------------------
(* FileStore: the invariant *)

\* What the holder of a mutex may rely on.
Busy ==
    \A s \in Stores : \A k \in op[s].key :
        /\ StoreOf(k) = s
        /\ k \in unsure
        /\ op[s].step = "remove" => entries[k] = NoEntry

FileInv == FileTypeOK /\ Busy /\ Durability

\* Each key belongs to one of the two stores.
LEMMA KeysOfStores == \A k \in FileKeys : StoreOf(k) \in Stores
  BY DEF FileKeys, SmsKeys, ReportKeys, StoreOf, Stores

\* Nothing is stored at the start.
LEMMA FileInitOK == FileInit => FileInv
  BY MarksAssumption DEF FileInit, FileInv, FileTypeOK, Busy, Durability, OnDisk, Readable, Steps

-----------------------------------------------------------------------------
(* One lemma per kind of step *)

\* An operation that changes the map entry of k to v and goes on with the file.
LEMMA ChangeKeeps ==
    ASSUME FileInv, NEW k \in FileKeys, NEW v \in Contents \cup {NoEntry},
           NEW step \in {"save", "remove"}, step = "remove" => v = NoEntry,
           Change(k, v, step)
    PROVE  FileInv' /\ Contract!Attempt(k, v)
  <1> DEFINE s == StoreOf(k)
  <1>0. s \in Stores BY KeysOfStores
  <1>1. /\ entries' = [entries EXCEPT ![k] = v]
        /\ unsure' = unsure \cup {k}
        /\ op' = [op EXCEPT ![s] = [step |-> step, key |-> {k}]]
        /\ files' = files /\ skips' = skips
        /\ op[s].step = "free"
    BY DEF Change, Begin, Free
  <1>2. FileTypeOK'
    BY <1>0, <1>1 DEF FileInv, FileTypeOK, Steps
  <1>3. Busy'
    <2> SUFFICES ASSUME NEW t \in Stores, NEW j \in op'[t].key
                 PROVE  /\ StoreOf(j) = t /\ j \in unsure'
                        /\ op'[t].step = "remove" => entries'[j] = NoEntry
      BY DEF Busy
    <2>1. CASE t = s
      BY <1>0, <1>1, <2>1 DEF FileInv, FileTypeOK
    <2>2. CASE t # s
      <3>1. op'[t] = op[t] BY <1>0, <1>1, <2>2 DEF FileInv, FileTypeOK
      <3>2. StoreOf(j) = t /\ j \in unsure /\ (op[t].step = "remove" => entries[j] = NoEntry)
        BY <3>1 DEF FileInv, Busy
      <3>3. j # k BY <3>2, <2>2
      <3>4. j \in FileKeys BY <3>1 DEF FileInv, FileTypeOK
      <3> QED BY <1>1, <3>1, <3>2, <3>3, <3>4 DEF FileInv, FileTypeOK
    <2> QED BY <2>1, <2>2
  <1>4. Durability'
    BY <1>1 DEF FileInv, FileTypeOK, Durability, OnDisk
  <1>5. Contract!Attempt(k, v)
    BY <1>1 DEF Contract!Attempt, OnDisk
  <1> QED BY <1>2, <1>3, <1>4, <1>5 DEF FileInv

\* The holder of a mutex gives it up without touching anything else.
LEMMA GiveUpKeeps ==
    ASSUME FileInv, NEW s \in Stores, Finish(s), UNCHANGED <<entries, files, unsure, skips>>
    PROVE  FileInv'
  <1>1. op' = [op EXCEPT ![s] = [step |-> "free", key |-> {}]] BY DEF Finish
  <1>2. FileTypeOK' BY <1>1 DEF FileInv, FileTypeOK, Steps
  <1>3. Busy'
    <2> SUFFICES ASSUME NEW t \in Stores, NEW j \in op'[t].key
                 PROVE  /\ StoreOf(j) = t /\ j \in unsure
                        /\ op'[t].step = "remove" => entries[j] = NoEntry
      BY DEF Busy
    <2>1. t # s /\ op'[t] = op[t] BY <1>1 DEF FileInv, FileTypeOK
    <2> QED BY <2>1 DEF FileInv, Busy
  <1>4. Durability' BY DEF FileInv, Durability, OnDisk
  <1> QED BY <1>2, <1>3, <1>4 DEF FileInv

\* os.WriteFile empties the file of an unsure key.
LEMMA TruncateKeeps ==
    ASSUME FileInv, NEW s \in Stores, Truncate(s)
    PROVE  FileInv' /\ \E k \in FileKeys : Contract!Settle(k)
  <1>1. PICK k \in op[s].key : files' = [files EXCEPT ![k] = Torn] /\ Begin(k, "write")
    BY DEF Truncate
  <1>2. /\ StoreOf(k) = s /\ k \in unsure /\ k \in FileKeys
    BY <1>1 DEF FileInv, Busy, FileTypeOK
  <1>3. /\ op' = [op EXCEPT ![s] = [step |-> "write", key |-> {k}]]
        /\ entries' = entries /\ unsure' = unsure /\ skips' = skips
    BY <1>1, <1>2 DEF Truncate, Begin
  <1>4. FileTypeOK' BY <1>1, <1>2, <1>3 DEF FileInv, FileTypeOK, Steps
  <1>5. Busy'
    <2> SUFFICES ASSUME NEW t \in Stores, NEW j \in op'[t].key
                 PROVE  /\ StoreOf(j) = t /\ j \in unsure
                        /\ op'[t].step = "remove" => entries[j] = NoEntry
      BY <1>3 DEF Busy
    <2>1. CASE t = s BY <1>2, <1>3, <2>1 DEF FileInv, FileTypeOK
    <2>2. CASE t # s
      <3>1. op'[t] = op[t] BY <1>3, <2>2 DEF FileInv, FileTypeOK
      <3> QED BY <3>1 DEF FileInv, Busy
    <2> QED BY <2>1, <2>2
  <1>6. Durability' BY <1>1, <1>2, <1>3 DEF FileInv, FileTypeOK, Durability, OnDisk
  <1>7. OnDisk' = [OnDisk EXCEPT ![k] = NoEntry]
    BY <1>1, <1>2 DEF FileInv, FileTypeOK, OnDisk, Readable
  <1>8. Contract!Settle(k) BY <1>2, <1>3, <1>7 DEF Contract!Settle
  <1> QED BY <1>2, <1>4, <1>5, <1>6, <1>8 DEF FileInv

\* An operation is acknowledged after the file of its key has become what the map says.
LEMMA AcknowledgeKeeps ==
    ASSUME FileInv, NEW s \in Stores, NEW k \in op[s].key,
           files' = [files EXCEPT ![k] = entries[k]], unsure' = unsure \ {k},
           Finish(s), UNCHANGED <<entries, skips>>
    PROVE  FileInv' /\ Contract!Acknowledge(k)
  <1>1. op' = [op EXCEPT ![s] = [step |-> "free", key |-> {}]] BY DEF Finish
  <1>2. StoreOf(k) = s /\ k \in unsure /\ k \in FileKeys
    BY DEF FileInv, Busy, FileTypeOK
  <1>3. entries[k] # Torn BY <1>2, MarksAssumption DEF FileInv, FileTypeOK
  <1>4. FileTypeOK' BY <1>1, <1>2 DEF FileInv, FileTypeOK, Steps
  <1>5. Busy'
    <2> SUFFICES ASSUME NEW t \in Stores, NEW j \in op'[t].key
                 PROVE  /\ StoreOf(j) = t /\ j \in unsure'
                        /\ op'[t].step = "remove" => entries[j] = NoEntry
      BY DEF Busy
    <2>1. t # s /\ op'[t] = op[t] BY <1>1 DEF FileInv, FileTypeOK
    <2>2. StoreOf(j) = t /\ j \in unsure /\ (op[t].step = "remove" => entries[j] = NoEntry)
      BY <2>1 DEF FileInv, Busy
    <2>3. j # k BY <1>2, <2>1, <2>2
    <2> QED BY <2>1, <2>2, <2>3
  <1>6. OnDisk' = [OnDisk EXCEPT ![k] = entries[k]]
    BY <1>2, <1>3 DEF FileInv, FileTypeOK, OnDisk, Readable
  <1>7. Durability'
    BY <1>2, <1>6 DEF FileInv, FileTypeOK, Durability, OnDisk
  <1>8. Contract!Acknowledge(k) BY <1>2, <1>6 DEF Contract!Acknowledge
  <1> QED BY <1>4, <1>5, <1>7, <1>8 DEF FileInv

\* A crash loses what the files do not hold, and nothing else.
LEMMA CrashKeeps == FileInv /\ CrashAndLoad => FileInv' /\ Contract!Restart
  <1> SUFFICES ASSUME FileInv, CrashAndLoad PROVE FileInv' /\ Contract!Restart
    OBVIOUS
  <1>1. PICK skipped \in SUBSET {k \in FileKeys : OnDisk[k] # NoEntry} :
          /\ skips' = skips + Cardinality(skipped)
          /\ entries' = [k \in FileKeys |-> IF k \in skipped THEN NoEntry ELSE OnDisk[k]]
          /\ unsure' = skipped
          /\ op' = [s \in Stores |-> [step |-> "free", key |-> {}]]
          /\ files' = files
    BY DEF CrashAndLoad
  <1>2. skips' \in Nat
    <2>1. IsFiniteSet(skipped) BY KeysAssumption, FS_Subset
    <2>2. Cardinality(skipped) \in Nat BY <2>1, FS_CardinalityType
    <2> QED BY <1>1, <2>2 DEF FileInv, FileTypeOK
  <1>3. \A k \in FileKeys : OnDisk[k] \in Contents \cup {NoEntry}
    BY DEF FileInv, FileTypeOK, OnDisk, Readable
  <1>4. FileTypeOK'
    BY <1>1, <1>2, <1>3 DEF FileInv, FileTypeOK, Steps
  <1>5. Busy' BY <1>1 DEF Busy
  <1>6. OnDisk' = OnDisk BY <1>1 DEF OnDisk
  <1>7. Durability' BY <1>1, <1>6 DEF Durability
  <1>8. unsure' = {k \in skipped : OnDisk[k] # NoEntry} BY <1>1
  <1>9. Contract!Restart BY <1>1, <1>6, <1>8 DEF Contract!Restart
  <1> QED BY <1>4, <1>5, <1>7, <1>9 DEF FileInv

-----------------------------------------------------------------------------
(* All steps *)

\* Every step keeps the invariant, and is a step of the contract or leaves its variables alone.
LEMMA FileStepOK ==
    FileInv /\ [FileNext]_fileVars => FileInv' /\ [Contract!StoreNext]_(Contract!storeVars)
  <1> SUFFICES ASSUME FileInv, [FileNext]_fileVars
               PROVE  FileInv' /\ [Contract!StoreNext]_(Contract!storeVars)
    OBVIOUS
  <1> USE DEF Contract!StoreNext
  <1>0. SmsKeys \subseteq FileKeys /\ ReportKeys \subseteq FileKeys BY DEF FileKeys
  <1>1. ASSUME NEW k \in FileKeys, NEW v \in Contents, Change(k, v, "save")
        PROVE  FileInv' /\ Contract!StoreNext
    <2>1. FileInv' /\ Contract!Attempt(k, v) BY <1>1, ChangeKeeps
    <2> QED BY <2>1
  <1>2. ASSUME NEW k \in FileKeys, Change(k, NoEntry, "remove")
        PROVE  FileInv' /\ Contract!StoreNext
    <2>1. FileInv' /\ Contract!Attempt(k, NoEntry) BY <1>2, ChangeKeeps
    <2> QED BY <2>1
  <1>3. ASSUME NEW s \in Stores, Finish(s), UNCHANGED <<entries, files, unsure, skips>>
        PROVE  FileInv' /\ UNCHANGED Contract!storeVars
    <2>1. FileInv' BY <1>3, GiveUpKeeps
    <2> QED BY <1>3, <2>1 DEF Contract!storeVars, OnDisk
  <1>4. CASE \E k \in SmsKeys, v \in Contents : StoreSMS(k, v) \/ UpdateSMS(k, v)
    BY <1>0, <1>1, <1>4 DEF StoreSMS, UpdateSMS
  <1>5. CASE \E k \in SmsKeys, s \in Statuses : UpdateSMSStatus(k, s)
    <2>1. PICK k \in SmsKeys, s \in Statuses : UpdateSMSStatus(k, s) BY <1>5
    <2>2. [entries[k] EXCEPT !.status = s] \in Contents
      BY <1>0, <2>1 DEF UpdateSMSStatus, FileInv, FileTypeOK, Contents
    <2> QED BY <1>0, <1>1, <2>1, <2>2 DEF UpdateSMSStatus
  <1>6. CASE \E k \in SmsKeys : DeleteSMS(k)
    BY <1>0, <1>2, <1>6 DEF DeleteSMS
  <1>7. CASE \E k \in ReportKeys, v \in Contents : StoreReport(k, v)
    BY <1>0, <1>1, <1>7 DEF StoreReport
  <1>8. CASE \E k \in ReportKeys : DeleteReport(k)
    BY <1>0, <1>2, <1>8 DEF DeleteReport
  <1>9. ASSUME NEW s \in Stores, SaveFails(s) \/ WriteFails(s) \/ RemoveFails(s)
        PROVE  FileInv' /\ UNCHANGED Contract!storeVars
    BY <1>3, <1>9 DEF SaveFails, WriteFails, RemoveFails
  <1>10. ASSUME NEW s \in Stores, Truncate(s) PROVE FileInv' /\ Contract!StoreNext
    BY <1>10, TruncateKeeps
  <1>11. ASSUME NEW s \in Stores, WriteDone(s) PROVE FileInv' /\ Contract!StoreNext
    <2>1. PICK k \in op[s].key : files' = [files EXCEPT ![k] = entries[k]] /\ unsure' = unsure \ {k}
      BY <1>11 DEF WriteDone
    <2>2. k \in FileKeys BY <2>1 DEF FileInv, FileTypeOK
    <2>3. FileInv' /\ Contract!Acknowledge(k) BY <1>11, <2>1, AcknowledgeKeeps DEF WriteDone
    <2> QED BY <2>2, <2>3
  <1>12. ASSUME NEW s \in Stores, RemoveDone(s) PROVE FileInv' /\ Contract!StoreNext
    <2>1. PICK k \in op[s].key : files' = [files EXCEPT ![k] = NoEntry] /\ unsure' = unsure \ {k}
      BY <1>12 DEF RemoveDone
    <2>2. k \in FileKeys BY <2>1 DEF FileInv, FileTypeOK
    <2>3. entries[k] = NoEntry BY <1>12, <2>1 DEF RemoveDone, FileInv, Busy
    <2>4. FileInv' /\ Contract!Acknowledge(k)
      BY <1>12, <2>1, <2>3, AcknowledgeKeeps DEF RemoveDone
    <2> QED BY <2>2, <2>4
  <1>13. CASE CrashAndLoad BY <1>13, CrashKeeps
  <1>14. CASE UNCHANGED fileVars
    BY <1>14 DEF fileVars, FileInv, FileTypeOK, Busy, Durability, OnDisk, Contract!storeVars
  <1> QED
    BY <1>4, <1>5, <1>6, <1>7, <1>8, <1>9, <1>10, <1>11, <1>12, <1>13, <1>14 DEF FileNext

-----------------------------------------------------------------------------
(* Theorems *)

\* The map holds messages or nothing, never the rest of a torn file; the files hold messages,
\* nothing or a rest (file.go).
THEOREM FileTypes == FileSpec => []FileTypeOK
  <1>1. FileInv => FileTypeOK BY DEF FileInv
  <1> QED BY <1>1, FileInitOK, FileStepOK, PTL DEF FileSpec

\* What was acknowledged survives a crash at any later step, for any number of messages, reports,
\* failed writes and restarts (StoreSMS, UpdateSMS, UpdateSMSStatus, DeleteSMS, StoreReport).
THEOREM FileDurability == FileSpec => []Durability
  <1>1. FileInv => Durability BY DEF FileInv
  <1> QED BY <1>1, FileInitOK, FileStepOK, PTL DEF FileSpec

\* The two file stores implement the durable store (file.go).
THEOREM FileImplementsContract == FileSpec => StoreContract
  <1>1. FileInit => Contract!StoreInit
    BY MarksAssumption DEF FileInit, Contract!StoreInit, OnDisk, Readable
  <1> QED BY <1>1, FileInitOK, FileStepOK, PTL DEF FileSpec, StoreContract, Contract!StoreSpec

=============================================================================
