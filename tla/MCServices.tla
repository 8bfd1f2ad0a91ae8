------------------------------ MODULE MCServices ------------------------------
(* Model checking of the concurrent services that share no state with each other: each
   behaviour is one of a single service, chosen at the start, while the others stay as they are. *)
EXTENDS EventBus, ConnectionPool, ErrorRecovery

VARIABLE focus  \* the service that runs

servicesVars == <<focus, busVars, poolVars, recoveryVars>>

ServicesInit ==
    /\ focus \in {"bus", "pool", "recovery"}
    /\ BusInit /\ PoolInit /\ RecoveryInit

ServicesNext ==
    /\ UNCHANGED focus
    /\ \/ focus = "bus" /\ BusNext /\ UNCHANGED <<poolVars, recoveryVars>>
       \/ focus = "pool" /\ PoolNext /\ UNCHANGED <<busVars, recoveryVars>>
       \/ focus = "recovery" /\ RecoveryNext /\ UNCHANGED <<busVars, poolVars>>

\* Bus: the scheduler runs the dispatcher and the closer, handlers return, and a select that
\* is tried again and again takes its done case sooner or later.
BusFairness ==
    /\ WF_busVars(focus = "bus" /\ Dispatch)
    /\ SF_busVars(focus = "bus" /\ ~crashed /\ ObserveDone)
    /\ WF_busVars(focus = "bus" /\ ~crashed /\ CloseEnd)

\* Pool: a Put whose token is there runs. Borrowers may keep their connections.
PoolFairness == \A u \in Borrowers : WF_poolVars(focus = "pool" /\ ~poolPanic /\ Release(u))

\* Recovery: functions return and timers fire; callers keep calling, and not every call is
\* cancelled before it begins.
RecoveryFairness ==
    /\ WF_recoveryVars(focus = "recovery" /\ CoolDown)
    /\ SF_recoveryVars(focus = "recovery" /\ \E c \in Callers : ~caller[c].cancelled /\ CheckContext(c))
    /\ \A c \in Callers :
         /\ WF_recoveryVars(focus = "recovery" /\ BeginRetry(c))
         /\ WF_recoveryVars(focus = "recovery" /\ RetrySteps(c))

ServicesSpec ==
    /\ ServicesInit /\ [][ServicesNext]_servicesVars
    /\ BusFairness /\ PoolFairness /\ RecoveryFairness

=============================================================================
