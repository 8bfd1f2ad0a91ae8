------------------------------ MODULE MCLibrary ------------------------------
(* Model checking of the components of internal/ and pkg/encoding that share no state with each
   other: each behaviour is one of a single component, chosen at the start, while the others
   stay as they are. *)
EXTENDS FlowControl, RateLimiter, UserSessions, FileStore, LongMessage, MessageSearch

VARIABLE focus  \* the component that runs

libraryVars == <<focus, flowVars, rateVars, authVars, fileVars, longVars, stored>>

MCLongTexts == {<<"a", "euro", "e", "a">>, <<"emoji", "a", "han", "e", "emoji">>,
                <<"a", "e", "a", "e", "a", "e", "a">>}

LibraryInit ==
    /\ focus \in {"flow", "rate", "auth", "file", "long", "search"}
    /\ FlowInit /\ RateInit /\ AuthInit /\ FileInit /\ LongInit /\ SearchInit

LibraryNext ==
    /\ UNCHANGED focus
    /\ \/ focus = "flow" /\ FlowNext /\ UNCHANGED <<rateVars, authVars, fileVars, longVars, stored>>
       \/ focus = "rate" /\ RateNext /\ UNCHANGED <<flowVars, authVars, fileVars, longVars, stored>>
       \/ focus = "auth" /\ AuthNext /\ UNCHANGED <<flowVars, rateVars, fileVars, longVars, stored>>
       \/ focus = "file" /\ FileNext /\ UNCHANGED <<flowVars, rateVars, authVars, longVars, stored>>
       \/ focus = "long" /\ LongNext /\ UNCHANGED <<flowVars, rateVars, authVars, fileVars, stored>>
       \/ focus = "search" /\ SearchNext /\ UNCHANGED <<flowVars, rateVars, authVars, fileVars, longVars>>

LibrarySpec == LibraryInit /\ [][LibraryNext]_libraryVars

=============================================================================
