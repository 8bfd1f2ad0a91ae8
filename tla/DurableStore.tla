----------------------------- MODULE DurableStore -----------------------------
(***************************************************************************)
(* What a message or report store promises its users, whatever holds the   *)
(* data: reads return the last attempted write, and a restart brings back  *)
(* the last value of every key whose last operation was acknowledged.      *)
(* After a failed or interrupted operation the key is unsure: a restart    *)
(* may find the old value, the new one or nothing, but never another.      *)
(***************************************************************************)
CONSTANTS
    Keys,    \* what the store is asked for
    Values,  \* what it may be given
    Absent   \* not a value: there is nothing under the key

VARIABLES
    seen,     \* what a read of each key returns
    durable,  \* what a restart would find under each key
    unsure    \* keys whose last operation has not been acknowledged

storeVars == <<seen, durable, unsure>>

StoreInit ==
    /\ seen = [k \in Keys |-> Absent]
    /\ durable = [k \in Keys |-> Absent]
    /\ unsure = {}

\* An operation takes effect for readers: a write of v, or a deletion when v is Absent.
Attempt(k, v) ==
    /\ seen' = [seen EXCEPT ![k] = v]
    /\ unsure' = unsure \cup {k}
    /\ UNCHANGED durable

\* What is durable under an unsure key changes: to nothing while it is rewritten, or to
\* what readers see. Nothing else can appear there.
Settle(k) ==
    /\ k \in unsure
    /\ \E v \in {Absent, seen[k]} : durable' = [durable EXCEPT ![k] = v]
    /\ UNCHANGED <<seen, unsure>>

\* The operation is acknowledged: what readers see is durable.
Acknowledge(k) ==
    /\ k \in unsure
    /\ durable' = [durable EXCEPT ![k] = seen[k]]
    /\ unsure' = unsure \ {k}
    /\ UNCHANGED seen

\* The process dies and comes back with what was durable. A key that cannot be read at
\* that moment is missing, and unsure until it is written again or read at a later start.
Restart ==
    \E skipped \in SUBSET Keys :
        /\ seen' = [k \in Keys |-> IF k \in skipped THEN Absent ELSE durable[k]]
        /\ unsure' = {k \in skipped : durable[k] # Absent}
        /\ UNCHANGED durable

StoreNext ==
    \/ \E k \in Keys, v \in Values \cup {Absent} : Attempt(k, v)
    \/ \E k \in Keys : Settle(k) \/ Acknowledge(k)
    \/ Restart

StoreSpec == StoreInit /\ [][StoreNext]_storeVars

=============================================================================
