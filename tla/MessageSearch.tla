---------------------------- MODULE MessageSearch ----------------------------
(***************************************************************************)
(* SearchSMS of FileSMSStorage (file.go) and InMemorySMSStorage            *)
(* (memory.go). Both collect the matching messages by ranging over a map,  *)
(* in an order that differs from call to call, sort them and cut a page    *)
(* out. The file storage sorts by exchanging pairs and only if asked to;   *)
(* the memory storage always sorts by submit time, newest first, and not   *)
(* stably.                                                                 *)
(***************************************************************************)
EXTENDS Integers, Sequences, SequencesExt, FiniteSets

CONSTANTS
    StoredIDs,    \* message IDs
    SubmitTimes,  \* submit times, numbers
    Ranks         \* message statuses, numbers as in MessageStatus

ASSUME SearchAssumption == SubmitTimes \subseteq Nat /\ Ranks \subseteq Nat /\ IsFiniteSet(StoredIDs)

VARIABLE stored  \* the map: submit time and status of each message, or Nothing

Nothing == [submit_time |-> -1, status |-> -1]

SearchInit == stored = [i \in StoredIDs |-> Nothing]

\* StoreSMS or UpdateSMS, and DeleteSMS, of either storage.
Put(i, time, status) == stored' = [stored EXCEPT ![i] = [submit_time |-> time, status |-> status]]
Drop(i) == stored[i] # Nothing /\ stored' = [stored EXCEPT ![i] = Nothing]

SearchNext ==
    \E i \in StoredIDs :
        \/ \E time \in SubmitTimes, status \in Ranks : Put(i, time, status)
        \/ Drop(i)

SearchSpec == SearchInit /\ [][SearchNext]_stored

-----------------------------------------------------------------------------
(* A search *)

\* SMSSearchCriteria as far as it selects and sorts; status -1 selects every message.
SortKeys == {"none", "submit_time", "status"}
SearchCriteria == [status : Ranks \cup {-1}, SortBy : SortKeys, desc : BOOLEAN]

\* matchesCriteria, for the status.
MatchesCriteria(i, c) == stored[i] # Nothing /\ (c.status = -1 \/ stored[i].status = c.status)
Found(c) == {i \in StoredIDs : MatchesCriteria(i, c)}

\* The orders in which the range over the map may meet the matching messages.
MapOrders(c) == SetToSeqs(Found(c))

Key(i, c) == IF c.SortBy = "status" THEN stored[i].status ELSE stored[i].submit_time

\* The comparison of the exchange: strictly out of order.
Wrong(i, j, c) == IF c.desc THEN Key(i, c) < Key(j, c) ELSE Key(i, c) > Key(j, c)

Exchange(s, i, j, c) == IF Wrong(s[i], s[j], c) THEN [s EXCEPT ![i] = s[j], ![j] = s[i]] ELSE s

\* The inner loop: position i is compared with each later one in turn.
InnerLoop(s, i, c) ==
    LET after[j \in i..Len(s)] == IF j = i THEN s ELSE Exchange(after[j - 1], i, j, c)
    IN  after[Len(s)]

\* The outer loop. The code leaves out the last position, after which none is left to compare.
OuterLoop(s, c) ==
    LET after[i \in 0..Len(s)] == IF i = 0 THEN s ELSE InnerLoop(after[i - 1], i, c)
    IN  after[Len(s)]

\* The sort of the file storage.
SortResults(s, c) == IF c.SortBy = "none" THEN s ELSE OuterLoop(s, c)

\* Fault (for PagesTile): the limit is the end of the page.
FilePageToLimit(s, offset, limit) ==
    IF offset > 0 /\ offset >= Len(s) THEN <<>>
    ELSE SubSeq(s, offset + 1, IF limit > 0 /\ limit < Len(s) THEN limit ELSE Len(s))

\* Offset and limit of the file storage.
FilePage(s, offset, limit) ==
    IF offset > 0 /\ offset >= Len(s) THEN <<>>
    ELSE SubSeq(s, offset + 1, IF limit > 0 /\ offset + limit < Len(s) THEN offset + limit ELSE Len(s))

\* Limit and offset of the memory storage: without a limit the offset does nothing, unless it is
\* past the end.
MemoryPage(s, offset, limit) ==
    IF offset >= Len(s) THEN <<>>
    ELSE IF limit = 0 THEN s
    ELSE SubSeq(s, offset + 1, IF offset + limit > Len(s) THEN Len(s) ELSE offset + limit)

\* What the memory storage may sort to: any order by submit time, newest first.
NewestFirst == [status |-> -1, SortBy |-> "submit_time", desc |-> TRUE]
Sorted(s, c) == \A i, j \in DOMAIN s : i < j => ~Wrong(s[i], s[j], c)

-----------------------------------------------------------------------------
(* Properties *)

\* No two matching messages have the same key.
DistinctKeys(c) == \A i, j \in Found(c) : i # j => Key(i, c) # Key(j, c)

\* Pages of a sorted search follow each other without gap or overlap although every call meets
\* the map in another order, if no two messages tie: one page with its offset and the next give
\* what one page of both sizes gives (SearchSMS of file.go). A page of the newest messages, which
\* is all the memory storage sorts, is the same in both storages (SearchSMS of memory.go).
PagesTile ==
    \A c \in SearchCriteria : (c.SortBy # "none" /\ DistinctKeys(c)) =>
        \A s, t \in MapOrders(c) : \A offset \in 0..Cardinality(StoredIDs), limit \in 1..2 :
            LET page == FilePage(SortResults(s, c), offset, limit) IN
            /\ page \o FilePage(SortResults(t, c), offset + limit, limit)
                 = FilePage(SortResults(s, c), offset, 2 * limit)
            /\ c = NewestFirst /\ Sorted(t, c) => page = MemoryPage(t, offset, limit)

=============================================================================
