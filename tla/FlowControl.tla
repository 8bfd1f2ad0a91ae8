----------------------------- MODULE FlowControl -----------------------------
(***************************************************************************)
(* FlowController and SlidingWindow of internal/flowcontrol/window.go.     *)
(* Acquire looks its session's window up under the controller's lock and   *)
(* then tries it, possibly several times, without; Cleanup may drop the    *)
(* window from the map meanwhile, and Release looks the window up again.   *)
(***************************************************************************)
EXTENDS Integers, Sequences, SequencesExt, FiniteSets, Ages

CONSTANTS
    FlowSessions,    \* session IDs
    Requesters,      \* goroutines that acquire and release
    MaxOutstanding,  \* WindowConfig.MaxOutstanding
    WindowSize,      \* WindowConfig.WindowSize, in ticks
    MaxTries,        \* WindowConfig.MaxRetries
    MaxAge,          \* the age Cleanup is called with, in ticks
    MaxWindows       \* bound: windows that are created

\* An age below WindowSize would let Cleanup forget requests that still count.
ASSUME FlowAssumption ==
    /\ MaxOutstanding \in Nat /\ WindowSize \in Nat \ {0}
    /\ MaxTries \in Nat /\ MaxAge \in Nat /\ MaxWindows \in Nat
    /\ MaxAge >= WindowSize
    /\ IsFiniteSet(Requesters)

VARIABLES
    windowOf,   \* FlowController.windows: the number of the session's window, 0 if none
    window,     \* the windows created: the ages of SlidingWindow.window, and outstanding
    requester,  \* each requester: where it is, its session, its window, its tries
    flowPanic,  \* Cleanup indexed an empty slice
    \* --- history ---
    grants,     \* ages of the session's grants, the youngest last, while within WindowSize
    orphaned    \* sessions whose window was dropped while an Acquire held it

flowVars == <<windowOf, window, requester, flowPanic, grants, orphaned>>

Away == [at |-> "away", session |-> {}, win |-> 0, tries |-> 0]

FlowInit ==
    /\ windowOf = [s \in FlowSessions |-> 0]
    /\ window = <<>>
    /\ requester = [r \in Requesters |-> Away]
    /\ flowPanic = FALSE
    /\ grants = [s \in FlowSessions |-> <<>>]
    /\ orphaned = {}

\* Entries after windowStart.
Recent(ages) == Younger(ages, WindowSize)

-----------------------------------------------------------------------------
\* FlowController.Acquire finds or creates the window, and releases the lock.
LookUp(r, s) ==
    /\ requester[r].at = "away"
    /\ IF windowOf[s] # 0
       THEN UNCHANGED <<windowOf, window>>
       ELSE /\ Len(window) < MaxWindows
            /\ window' = Append(window, [ages |-> <<>>, outstanding |-> 0])
            /\ windowOf' = [windowOf EXCEPT ![s] = Len(window')]
    /\ requester' = [requester EXCEPT ![r] =
                        [at |-> "held", session |-> {s}, win |-> windowOf'[s], tries |-> 0]]
    /\ UNCHANGED <<flowPanic, grants, orphaned>>

\* Fault (for RateBound): the entry at the edge of the window is dropped a tick early.
TryGrantsEarly(r) ==
    /\ requester[r].at = "held" /\ requester[r].tries < MaxTries
    /\ LET w == requester[r].win
           recent == Younger(window[w].ages, WindowSize - 1) IN
       /\ Len(recent) < MaxOutstanding
       /\ window' = [window EXCEPT ![w] = [ages |-> Append(recent, 0), outstanding |-> @.outstanding + 1]]
    /\ requester' = [requester EXCEPT ![r].at = "granted"]
    /\ grants' = [s \in FlowSessions |->
                    IF s \in requester[r].session THEN Append(grants[s], 0) ELSE grants[s]]
    /\ UNCHANGED <<windowOf, flowPanic, orphaned>>

\* tryAcquire drops the old entries and there is room.
TryGrants(r) ==
    /\ requester[r].at = "held" /\ requester[r].tries < MaxTries
    /\ LET w == requester[r].win
           recent == Recent(window[w].ages) IN
       /\ Len(recent) < MaxOutstanding
       /\ window' = [window EXCEPT ![w] = [ages |-> Append(recent, 0), outstanding |-> @.outstanding + 1]]
    /\ requester' = [requester EXCEPT ![r].at = "granted"]
    /\ grants' = [s \in FlowSessions |->
                    IF s \in requester[r].session THEN Append(grants[s], 0) ELSE grants[s]]
    /\ UNCHANGED <<windowOf, flowPanic, orphaned>>

\* tryAcquire drops the old entries and there is no room: Acquire waits RetryDelay.
TryRefuses(r) ==
    /\ requester[r].at = "held" /\ requester[r].tries < MaxTries
    /\ LET w == requester[r].win
           recent == Recent(window[w].ages) IN
       /\ Len(recent) >= MaxOutstanding
       /\ window' = [window EXCEPT ![w].ages = recent]
    /\ requester' = [requester EXCEPT ![r].tries = @ + 1]
    /\ UNCHANGED <<windowOf, flowPanic, grants, orphaned>>

\* Acquire gives up: ErrWindowFull after MaxTries, or the context ends while it waits.
GiveUp(r) ==
    /\ requester[r].at = "held"
    /\ requester[r].tries = MaxTries \/ requester[r].tries > 0
    /\ requester' = [requester EXCEPT ![r] = Away]
    /\ UNCHANGED <<windowOf, window, flowPanic, grants, orphaned>>

\* FlowController.Release finds the session's window of now, if there is one.
ReleaseSlot(r) ==
    /\ requester[r].at = "granted"
    /\ \E s \in requester[r].session :
         IF windowOf[s] = 0 THEN UNCHANGED window
         ELSE window' = [window EXCEPT ![windowOf[s]].outstanding = @ - 1]
    /\ requester' = [requester EXCEPT ![r] = Away]
    /\ UNCHANGED <<windowOf, flowPanic, grants, orphaned>>

-----------------------------------------------------------------------------
(* Cleanup *)

Holding(s) == {r \in Requesters : requester[r].at = "held" /\ requester[r].win = windowOf[s]}

\* Cleanup's first condition.
Quiet(s) ==
    /\ windowOf[s] # 0
    /\ window[windowOf[s]].outstanding = 0 /\ window[windowOf[s]].ages # <<>>

\* Fault (for OutstandingExact): outstanding requests do not keep a window.
CleanupIgnoresOutstanding ==
    LET old == {s \in FlowSessions : windowOf[s] # 0 /\ window[windowOf[s]].ages # <<>>
                                     /\ Last(window[windowOf[s]].ages) > MaxAge} IN
    /\ old # {}
    /\ windowOf' = [s \in FlowSessions |-> IF s \in old THEN 0 ELSE windowOf[s]]
    /\ orphaned' = orphaned \cup {s \in old : Holding(s) # {}}
    /\ UNCHANGED <<window, requester, flowPanic, grants>>

\* Windows with nothing outstanding and no recent request are dropped, also when an Acquire
\* holds a pointer to one.
Cleanup ==
    LET old == {s \in FlowSessions : Quiet(s) /\ Last(window[windowOf[s]].ages) > MaxAge} IN
    /\ old # {}
    /\ windowOf' = [s \in FlowSessions |-> IF s \in old THEN 0 ELSE windowOf[s]]
    /\ orphaned' = orphaned \cup {s \in old : Holding(s) # {}}
    /\ UNCHANGED <<window, requester, flowPanic, grants>>

\* Cleanup reads SlidingWindow.window without its lock: a tryAcquire that drops every entry
\* between the check of the length and the index makes the index -1.
CleanupPanics(s) ==
    /\ Quiet(s) /\ Recent(window[windowOf[s]].ages) = <<>>
    /\ \E r \in Holding(s) : requester[r].tries < MaxTries
    /\ flowPanic' = TRUE
    /\ UNCHANGED <<windowOf, window, requester, grants, orphaned>>

-----------------------------------------------------------------------------
\* Time passes.
Tick ==
    /\ window' = [w \in DOMAIN window |-> [window[w] EXCEPT !.ages = Older(@, MaxAge)]]
    /\ grants' = [s \in FlowSessions |-> Recent(Older(grants[s], MaxAge))]
    /\ UNCHANGED <<windowOf, requester, flowPanic, orphaned>>

FlowNext ==
    /\ ~flowPanic
    /\ \/ \E r \in Requesters :
            \/ \E s \in FlowSessions : LookUp(r, s)
            \/ TryGrants(r) \/ TryRefuses(r) \/ GiveUp(r) \/ ReleaseSlot(r)
       \/ Cleanup
       \/ \E s \in FlowSessions : CleanupPanics(s)
       \/ Tick

FlowSpec == FlowInit /\ [][FlowNext]_flowVars

-----------------------------------------------------------------------------
(* Properties *)

\* In no WindowSize are there more grants to a session than MaxOutstanding, across windows that
\* Cleanup drops and Acquire creates again, unless one was dropped under a waiting Acquire
\* (FlowController.Acquire, Cleanup).
RateBound == \A s \in FlowSessions \ orphaned : Len(grants[s]) <= MaxOutstanding

\* The requests of a session that were granted and not released.
Granted(s) == {r \in Requesters : requester[r].at = "granted" /\ s \in requester[r].session}

\* What GetOutstanding reports is the number of requests granted and not released, unless a
\* window was dropped under a waiting Acquire; then Release finds another window or none
\* (FlowController.Release, Cleanup).
OutstandingExact ==
    \A s \in FlowSessions \ orphaned :
        (IF windowOf[s] = 0 THEN 0 ELSE window[windowOf[s]].outstanding)
            = Cardinality(Granted(s))

-----------------------------------------------------------------------------
(* The inductive strengthening of OutstandingExact *)

FlowTypeOK ==
    /\ window \in Seq(Range(window))
    /\ \A w \in 1 .. Len(window) : window[w] \in [ages : {window[w].ages}, outstanding : Int]
    /\ windowOf \in [FlowSessions -> 0 .. Len(window)]
    /\ requester \in [Requesters -> [at : {"away", "held", "granted"}, session : SUBSET FlowSessions,
                                     win : Nat, tries : Nat]]

\* No two sessions share a window.
OwnWindows ==
    \A s, t \in FlowSessions : windowOf[s] # 0 /\ windowOf[s] = windowOf[t] => s = t

\* The window an Acquire holds is its session's, or no session's: Cleanup dropped it then, and a
\* window made since has another number.
HeldWindow(r, s) ==
    /\ requester[r].win \in 1 .. Len(window)
    /\ s \notin orphaned => windowOf[s] = requester[r].win
    /\ \A t \in FlowSessions : windowOf[t] = requester[r].win => t = s

HeldWindows ==
    \A r \in Requesters :
        requester[r].at # "away" =>
            \E s \in FlowSessions : /\ requester[r].session = {s}
                                    /\ requester[r].at = "held" => HeldWindow(r, s)

FlowInv == FlowTypeOK /\ OwnWindows /\ HeldWindows /\ OutstandingExact

-----------------------------------------------------------------------------
(* The inductive strengthening of RateBound *)

AgesTypeOK ==
    /\ grants \in [FlowSessions -> Seq(Nat)]
    /\ \A w \in 1 .. Len(window) : window[w].ages \in Seq(Nat) /\ YoungestLast(window[w].ages)

\* The window remembers every grant that is still within WindowSize. Without a window there is
\* none.
GrantsRemembered ==
    \A s \in FlowSessions \ orphaned :
        IF windowOf[s] = 0 THEN grants[s] = <<>>
        ELSE Remembers(window[windowOf[s]].ages, grants[s], WindowSize)

RateInv == FlowInv /\ AgesTypeOK /\ GrantsRemembered /\ RateBound

=============================================================================
