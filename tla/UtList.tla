------------------------------- MODULE UtList -------------------------------
(***************************************************************************)
(* The two-way list of XtraDB (ut0lst.h) as Project3 left it: prepend and  *)
(* append call the lock free variants.  Here every operation runs alone,   *)
(* as it does for the lists whose users hold a latch (LRU, free and flush  *)
(* lists, buddy lists, transaction lists); MutexList has the two lists     *)
(* whose latch Project3 took away.  A removed node keeps its stale links,  *)
(* UT_LIST_REMOVE_CLEAR being empty outside the debug build.               *)
(***************************************************************************)
EXTENDS Integers, FiniteSets, SequencesExt

CONSTANTS Elem,  \* the elements that embed a node of the list
          NULL,  \* the null pointer
          Junk   \* what the memory of a fresh node holds

ASSUME ElemAssumption ==
    IsFiniteSet(Elem) /\ NULL \notin Elem /\ Junk \notin Elem \cup {NULL}

VARIABLES start, end, count,  \* ut_list_base
          prev, next          \* ut_list_node of each element

vars == <<start, end, count, prev, next>>

\* UT_LIST_INIT, over nodes nobody has written yet.
Init ==
    /\ start = NULL /\ end = NULL /\ count = 0
    /\ prev = [e \in Elem |-> Junk]
    /\ next = [e \in Elem |-> Junk]

----------------------------------------------------------------------------
(* Walking the list.                                                       *)

\* The nodes met from node e along the links f, with more steps than there
\* are elements, so that a cycle shows.
Walk(f, e) ==
    LET walk[k \in 0 .. Cardinality(Elem) + 1] ==
            IF k = 0 THEN IF e \in Elem THEN <<e>> ELSE <<>>
            ELSE LET w == walk[k - 1]
                 IN  IF w # <<>> /\ f[Last(w)] \in Elem THEN Append(w, f[Last(w)]) ELSE w
    IN  walk[Cardinality(Elem) + 1]

Forward == Walk(next, start)
Backward == Walk(prev, end)

Listed == Range(Forward)

----------------------------------------------------------------------------
(* The operations.  A user adds what is not in the list and removes what is. *)

\* ut_list_prepend, that is ut_list_free_prepend: exchange the start.
ut_list_prepend(e) ==
    /\ e \notin Listed
    /\ start' = e
    /\ next' = [next EXCEPT ![e] = start]
    /\ prev' = [f \in Elem |-> IF f = e THEN NULL
                               ELSE IF f = start THEN e ELSE prev[f]]
    /\ end' = IF end = NULL THEN e ELSE end
    /\ count' = count + 1

\* ut_list_append, that is ut_list_free_append: exchange the end.
ut_list_append(e) ==
    /\ e \notin Listed
    /\ end' = e
    /\ prev' = [prev EXCEPT ![e] = end]
    /\ next' = [f \in Elem |-> IF f = e THEN NULL
                               ELSE IF f = end THEN e ELSE next[f]]
    /\ start' = IF start = NULL THEN e ELSE start
    /\ count' = count + 1

\* Mutant: the list end stays where it was.
EndStays(e1, e2) == end

\* if (list.end == &elem1) list.end = &elem2
EndAfterInsert(e1, e2) == IF end = e1 THEN e2 ELSE end

\* ut_list_insert.
ut_list_insert(e1, e2) ==
    /\ e1 \in Listed
    /\ e2 \notin Listed
    /\ prev' = [f \in Elem |-> IF f = e2 THEN e1
                               ELSE IF f = next[e1] THEN e2 ELSE prev[f]]
    /\ next' = [next EXCEPT ![e2] = next[e1], ![e1] = e2]
    /\ end' = EndAfterInsert(e1, e2)
    /\ count' = count + 1
    /\ UNCHANGED start

\* Mutant: the first element does not hand on the start.
StartStays(e) == start

\* list.start = elem_node.next, for the first element.
StartAfterRemove(e) == IF prev[e] = NULL THEN next[e] ELSE start

\* --list.count
CountAfterRemove == count - 1

\* ut_list_remove.
ut_list_remove(e) ==
    /\ e \in Listed
    /\ prev' = [f \in Elem |-> IF f = next[e] THEN prev[e] ELSE prev[f]]
    /\ end' = IF next[e] = NULL THEN prev[e] ELSE end
    /\ next' = [f \in Elem |-> IF f = prev[e] THEN next[e] ELSE next[f]]
    /\ start' = StartAfterRemove(e)
    /\ count' = CountAfterRemove

Next ==
    \/ \E e \in Elem : ut_list_prepend(e) \/ ut_list_append(e) \/ ut_list_remove(e)
    \/ \E e1, e2 \in Elem : ut_list_insert(e1, e2)

Spec == Init /\ [][Next]_vars

----------------------------------------------------------------------------
(* Properties.                                                             *)

\* The two assertions of ut_list_validate hold after every operation: the
\* walk from the start and the walk from the end both meet count elements;
\* and they meet the same ones in opposite order.
Validates ==
    /\ Len(Forward) = count
    /\ Backward = Reverse(Forward)

\* Whatever was done before, an operation changes the sequence of elements
\* only as ListSpec says: the list implements the abstract one.
Abstract == INSTANCE ListSpec WITH seq <- Forward

ImplementsList == Abstract!Spec
=============================================================================
