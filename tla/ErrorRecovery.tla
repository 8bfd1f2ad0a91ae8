----------------------------- MODULE ErrorRecovery -----------------------------
(***************************************************************************)
(* Retry and CircuitBreaker of internal/errorrecovery/retry.go, used       *)
(* together: every caller runs Retry around CircuitBreaker.Call around a   *)
(* function that talks to a backend. Call reads the state under the read   *)
(* lock, runs the function unlocked and records the outcome under the      *)
(* write lock, by what it read before: by then the circuit may be in any   *)
(* state.                                                                  *)
(***************************************************************************)
EXTENDS Integers, FiniteSets

CONSTANTS
    Callers,
    Impatient,                           \* callers whose context may end
    FailureThreshold, SuccessThreshold,  \* CircuitBreakerConfig
    MaxRetries                           \* RetryConfig.MaxRetries

ASSUME RecoveryAssumption ==
    /\ Impatient \subseteq Callers
    /\ FailureThreshold \in Nat \ {0}
    /\ SuccessThreshold \in Nat \ {0}
    /\ MaxRetries \in Nat

VARIABLES
    caller,     \* the locals of each caller in Retry and Call, see Idle
    circuit,    \* CircuitBreaker.state
    failures,   \* CircuitBreaker.failures, counted up to FailureThreshold
    successes,  \* CircuitBreaker.successes, counted up to SuccessThreshold
    cooled,     \* ResetTimeout has passed since lastFailure
    healthy     \* the backend answers

circuitVars == <<circuit, failures, successes, cooled>>
recoveryVars == <<caller, circuitVars, healthy>>

CircuitStates == {"closed", "open", "half"}
\* "check": the loop's context check; "call": about to read the state; "refused?": read open;
\* "reset": found ResetTimeout over; "fn": in the function; "record": it returned; "wait":
\* between two attempts.
CallerSteps == {"idle", "check", "call", "refused?", "reset", "fn", "record", "wait"}

\* A caller outside Retry. mode: the state Call read; ok: the function returned nil;
\* cancelled: the context is done; late: history, attempts begun since.
Idle == [at |-> "idle", attempt |-> 0, mode |-> "closed", ok |-> TRUE,
         cancelled |-> FALSE, late |-> 0]

RecoveryInit ==
    /\ caller = [c \in Callers |-> Idle]
    /\ circuit = "closed"
    /\ failures = 0 /\ successes = 0 /\ cooled = TRUE
    /\ healthy = TRUE

Move(c, from, to) == caller[c].at = from /\ caller' = [caller EXCEPT ![c].at = to]
Return(c, from) == caller[c].at = from /\ caller' = [caller EXCEPT ![c] = Idle]
CountTo(n, limit) == IF n < limit THEN n + 1 ELSE limit

-----------------------------------------------------------------------------
(* Retry *)

BeginRetry(c) == Move(c, "idle", "check") /\ UNCHANGED <<circuitVars, healthy>>

\* The caller's context is cancelled or times out.
Cancel(c) ==
    /\ c \in Impatient /\ caller[c].at # "idle" /\ ~caller[c].cancelled
    /\ caller' = [caller EXCEPT ![c].cancelled = TRUE]
    /\ UNCHANGED <<circuitVars, healthy>>

\* Fault (for OneLateAttempt): the context is only looked at while waiting.
CheckContextNot(c) == Move(c, "check", "call") /\ UNCHANGED <<circuitVars, healthy>>

\* The check at the top of the loop.
CheckContext(c) ==
    /\ IF caller[c].cancelled THEN Return(c, "check") ELSE Move(c, "check", "call")
    /\ UNCHANGED <<circuitVars, healthy>>

\* time.After fires; when the context is done as well, the select may still take this case.
WaitOver(c) ==
    /\ caller[c].at = "wait"
    /\ caller' = [caller EXCEPT ![c].at = "check", ![c].attempt = @ + 1]
    /\ UNCHANGED <<circuitVars, healthy>>

WaitCancelled(c) == caller[c].cancelled /\ Return(c, "wait") /\ UNCHANGED <<circuitVars, healthy>>

-----------------------------------------------------------------------------
(* CircuitBreaker.Call *)

\* Call of caller c after reading the state.
AfterRead(c) ==
    [caller[c] EXCEPT !.at = IF circuit = "open" THEN "refused?" ELSE "fn",
                      !.mode = circuit,
                      !.late = IF caller[c].cancelled THEN @ + 1 ELSE @]

\* Fault (for CircuitRecovers): every half-open call starts the count of successes again.
ReadStateResets(c) ==
    /\ caller[c].at = "call"
    /\ caller' = [caller EXCEPT ![c] = AfterRead(c)]
    /\ successes' = IF circuit = "half" THEN 0 ELSE successes
    /\ UNCHANGED <<circuit, failures, cooled, healthy>>

\* The state is read under the read lock.
ReadState(c) ==
    /\ caller[c].at = "call"
    /\ caller' = [caller EXCEPT ![c] = AfterRead(c)]
    /\ UNCHANGED <<circuitVars, healthy>>

\* lastFailure is read without the lock: while another caller may be writing it, the value
\* read is anything.
TornRead(c) == \E d \in Callers \ {c} : caller[d].at = "record" /\ ~caller[d].ok

\* "circuit breaker is open" is no retryable error, so Retry returns as well.
OpenRefuses(c) ==
    /\ ~cooled \/ TornRead(c)
    /\ Return(c, "refused?")
    /\ UNCHANGED <<circuitVars, healthy>>

\* ResetTimeout has passed.
OpenExpires(c) ==
    /\ cooled \/ TornRead(c)
    /\ Move(c, "refused?", "reset")
    /\ UNCHANGED <<circuitVars, healthy>>

\* The lock is taken: half-open, if the circuit is (again) open, and on to the function.
TryHalfOpen(c) ==
    /\ caller[c].at = "reset"
    /\ caller' = [caller EXCEPT ![c].at = "fn", ![c].mode = "half"]
    /\ IF circuit = "open" THEN circuit' = "half" /\ successes' = 0
       ELSE UNCHANGED <<circuit, successes>>
    /\ UNCHANGED <<failures, cooled, healthy>>

FnReturns(c, ok) ==
    /\ healthy => ok
    /\ caller[c].at = "fn"
    /\ caller' = [caller EXCEPT ![c].at = "record", ![c].ok = ok]
    /\ UNCHANGED <<circuitVars, healthy>>

\* Fault (for ClosedBelowThreshold): closing the circuit keeps the failures.
RecordSuccessKeepsFailures(c) ==
    /\ caller[c].ok
    /\ IF caller[c].mode = "half"
       THEN /\ successes' = CountTo(successes, SuccessThreshold)
            /\ circuit' = IF successes' = SuccessThreshold THEN "closed" ELSE circuit
            /\ UNCHANGED failures
       ELSE failures' = 0 /\ UNCHANGED <<circuit, successes>>
    /\ UNCHANGED cooled

\* A success recorded: enough of them close the circuit, in whatever state it is by now.
RecordSuccess(c) ==
    /\ caller[c].ok
    /\ IF caller[c].mode = "half"
       THEN /\ successes' = CountTo(successes, SuccessThreshold)
            /\ IF successes' = SuccessThreshold THEN circuit' = "closed" /\ failures' = 0
               ELSE UNCHANGED <<circuit, failures>>
       ELSE failures' = 0 /\ UNCHANGED <<circuit, successes>>
    /\ UNCHANGED cooled

\* A failure recorded: one half-open call is enough to open the circuit.
RecordFailure(c) ==
    /\ ~caller[c].ok
    /\ failures' = CountTo(failures, FailureThreshold)
    /\ cooled' = FALSE
    /\ circuit' = IF caller[c].mode = "half" \/ failures' = FailureThreshold
                  THEN "open" ELSE circuit
    /\ UNCHANGED successes

\* Call returns to Retry, which goes on only after a retryable error and before its last
\* attempt.
Record(c) ==
    /\ RecordSuccess(c) \/ RecordFailure(c)
    /\ \/ Return(c, "record")
       \/ /\ caller[c].at = "record" /\ ~caller[c].ok /\ caller[c].attempt < MaxRetries
          /\ caller' = [caller EXCEPT ![c].at = "wait", ![c].mode = "closed", ![c].ok = TRUE]
    /\ UNCHANGED healthy

-----------------------------------------------------------------------------
(* The environment *)

CoolDown == ~cooled /\ cooled' = TRUE /\ UNCHANGED <<caller, circuit, failures, successes, healthy>>
Outage == healthy /\ healthy' = FALSE /\ UNCHANGED <<caller, circuitVars>>
Repair == ~healthy /\ healthy' = TRUE /\ UNCHANGED <<caller, circuitVars>>

\* What a caller does by itself inside Retry.
RetrySteps(c) ==
    \/ CheckContext(c) \/ WaitOver(c) \/ WaitCancelled(c) \/ ReadState(c)
    \/ OpenRefuses(c) \/ OpenExpires(c) \/ TryHalfOpen(c) \/ Record(c)
    \/ \E ok \in BOOLEAN : FnReturns(c, ok)

RecoveryNext ==
    \/ \E c \in Callers : BeginRetry(c) \/ Cancel(c) \/ RetrySteps(c)
    \/ CoolDown \/ Outage \/ Repair

RecoverySpec == RecoveryInit /\ [][RecoveryNext]_recoveryVars

-----------------------------------------------------------------------------
(* Properties *)

RecoveryTypeOK ==
    /\ caller \in [Callers -> [at : CallerSteps, attempt : 0..MaxRetries, mode : CircuitStates,
                               ok : BOOLEAN, cancelled : BOOLEAN, late : Nat]]
    /\ circuit \in CircuitStates
    /\ failures \in 0..FailureThreshold
    /\ successes \in 0..SuccessThreshold
    /\ cooled \in BOOLEAN /\ healthy \in BOOLEAN

\* A closed circuit is below its failure threshold, whatever calls of older states report:
\* the next failures are counted from a state in which they can open it (Call).
ClosedBelowThreshold == circuit = "closed" => failures < FailureThreshold

\* A cancelled Retry begins at most one more attempt, the one it was about to make, even when
\* the timer and the context end together (Retry).
OneLateAttempt == \A c \in Callers : caller[c].late <= 1

\* When the backend stays healthy and callers keep calling, the circuit closes for good, from
\* whatever state the outage and the late outcomes left it in (Call).
CircuitRecovers == <>[]healthy => <>[](circuit = "closed")

=============================================================================
