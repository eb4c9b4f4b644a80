--------------------------- MODULE FarthestHouses ---------------------------
(***************************************************************************)
(* The parallel search of Project1 (Project1.cpp).  Threads draw the       *)
(* houses from a common counter; for the house it drew, a thread searches  *)
(* breadth first until it has met all houses of a greater index, or until  *)
(* what others found shows that no greater distance can turn up.           *)
(*                                                                         *)
(* Every access to a word that other threads write is a step of its own;   *)
(* the walk over the graph between two houses is local.  The memory from   *)
(* malloc is zero, as the program presupposes, and the houses are at least *)
(* three edges apart.  A thread that draws an index beyond the houses      *)
(* reads outside of house[]; what it does then is not described, and the   *)
(* others go on.                                                           *)
(***************************************************************************)
EXTENDS Houses

CONSTANT NUM_THREAD

ASSUME ThreadAssumption == NUM_THREAD \in Nat \ {0}

VARIABLES met,                    \* what the walk from each house comes across
          g_cnt_global, g_total_max, g_i_max,
          g_house_distance_i_to_all,
          house_distance_least, house_distance_most,
          pc, start_num,          \* of each thread
          my,                     \* its other locals
          printed

shared == <<g_cnt_global, g_total_max, g_i_max, g_house_distance_i_to_all>>
results == <<house_distance_least, house_distance_most>>
given == <<input, apart, met>>
vars == <<given, shared, results, pc, start_num, my, printed>>

\* The threads that main starts.
Thread == 1 .. Min({NUM_THREAD, house_num - 1})

Goto(t, where) == pc' = [pc EXCEPT ![t] = where]

----------------------------------------------------------------------------
(* The walk of Search over the graph.                                      *)

\* InsertEdge: where the houses are among the neighbours of v; the field house
\* of the vertex has the last one.
HousesNextTo(v) ==
    {k \in 1 .. Len(input.graph[v]) : input.graph[v][k] \in ToSet(input.house)}

\* The loop over the neighbours of v: append those that have not been visited.
Enqueue(search_array, v) ==
    LET adjacency == input.graph[v]
        enqueue[j \in 0 .. Len(adjacency)] ==
            IF j = 0 THEN search_array
            ELSE IF adjacency[j] \in ToSet(enqueue[j - 1]) THEN enqueue[j - 1]
            ELSE Append(enqueue[j - 1], adjacency[j])
    IN  enqueue[Len(adjacency)]

\* Mutant: the next level begins one vertex late.
LevelEndsLate(st, i) == i = st.cycle_count + 1

\* if (i == cycle_count)
LevelEnds(st, i) == i = st.cycle_count

\* One round of the loop, for the i-th vertex of search_array: note the house
\* next to it, if it is new, append its new neighbours, count the level.
Visit(st, i) ==
    LET v      == st.search_array[i + 1]
        near   == HousesNextTo(v)
        temp   == input.graph[v][Max(near)]
        isnew  == near # {} /\ \A k \in 1 .. Len(st.met) : st.met[k].house # temp
        array  == Enqueue(st.search_array, v)
        total  == st.total_count + Len(array) - Len(st.search_array)
    IN  [search_array |-> array,
         met |-> IF isnew THEN Append(st.met, [house |-> temp, distance |-> st.distance])
                 ELSE st.met,
         cycle_count |-> IF LevelEnds(st, i) THEN st.cycle_count + total ELSE st.cycle_count,
         total_count |-> IF LevelEnds(st, i) THEN 0 ELSE total,
         distance |-> IF LevelEnds(st, i) THEN st.distance + 1 ELSE st.distance]

\* What the program presupposes of its input: an undirected graph in one piece,
\* and three or more houses, at least three edges apart.
Presupposed(x) ==
    /\ Connected(x.graph)
    /\ Len(x.house) >= 3
    /\ \A i, j \in DOMAIN x.house : i # j =>
          /\ x.house[i] # x.house[j] /\ x.house[i] \notin ToSet(x.graph[x.house[j]])
          /\ ToSet(x.graph[x.house[i]]) \cap ToSet(x.graph[x.house[j]]) = {}

\* The houses that the walk from house s meets, each with the value that
\* distance has then.
Walk(s) ==
    LET V == Len(input.graph)
        walk[i \in 0 .. V] ==
            IF i = 0
              THEN [search_array |-> <<house(s)>>, met |-> <<>>, cycle_count |-> 0,
                    total_count |-> 0, distance |-> 0]
              ELSE Visit(walk[i - 1], i - 1)
    IN  walk[V].met

\* The locals of Search at its beginning, for house s; found counts the
\* houses that have been met.
Locals(s) ==
    [found |-> 0, count_end |-> 1 + s, least |-> 0, most |-> 0, least_flag |-> TRUE, q |-> 0]

Init ==
    /\ InputInit
    /\ met = [s \in HouseIndex |-> Walk(s)]
    /\ g_cnt_global = 0 /\ g_total_max = 0
    /\ g_i_max = [s \in HouseIndex |-> 0]
    /\ g_house_distance_i_to_all = [p \in HouseIndex \X HouseIndex |-> 0]
    /\ house_distance_least = [s \in HouseIndex |-> 0]
    /\ house_distance_most = [s \in HouseIndex |-> 0]
    /\ pc = [t \in Thread |-> "loop"]
    /\ start_num = [t \in Thread |-> 0]
    /\ my = [t \in Thread |-> Locals(0)]
    /\ printed = <<>>

----------------------------------------------------------------------------
(* ThreadFunc.                                                             *)

\* Mutant: one house too many.
OneMore == g_cnt_global < house_num

\* while (g_cnt_global < (my_arg->house_num - 1))
MoreHouses == g_cnt_global < house_num - 1

\* Mutant: a thread that has nothing to do stays in the loop.
StayOrDraw == IF MoreHouses THEN "draw" ELSE "loop"

DrawOrEnd == IF MoreHouses THEN "draw" ELSE "end"

\* The test, outside of the mutex.
Test(t) ==
    /\ pc[t] = "loop"
    /\ Goto(t, DrawOrEnd)
    /\ UNCHANGED <<given, shared, results, start_num, my, printed>>

\* Draw an index under g_mutex, and begin the search.
Draw(t) ==
    /\ pc[t] = "draw"
    /\ start_num' = [start_num EXCEPT ![t] = g_cnt_global]
    /\ g_cnt_global' = g_cnt_global + 1
    /\ my' = [my EXCEPT ![t] = Locals(g_cnt_global)]
    /\ Goto(t, IF g_cnt_global < house_num THEN "search" ELSE "outside")
    /\ UNCHANGED <<given, g_total_max, g_i_max, g_house_distance_i_to_all, results, printed>>

\* Search returns.
Return(t) ==
    /\ Goto(t, "loop")
    /\ my' = [my EXCEPT ![t] = Locals(0)]

\* if (count_end == house_num), after a house with c as the new count_end.
AfterHouse(c) == IF c = house_num THEN "report" ELSE "search"

\* The walk meets its next house: note the distance if the index is greater.
Meet(t) ==
    /\ pc[t] = "search"
    /\ LET s == start_num[t]
           e == met[s][my[t].found + 1]
           J == {j \in s + 1 .. house_num - 1 : house(j) = e.house}
           counted == [my[t] EXCEPT !.found = @ + 1, !.count_end = @ + Cardinality(J)]
       IN  /\ g_house_distance_i_to_all' =
                 [p \in HouseIndex \X HouseIndex |->
                     IF p[1] = s /\ p[2] \in J THEN e.distance + 1
                     ELSE g_house_distance_i_to_all[p]]
           /\ \/ /\ ~my[t].least_flag
                 /\ my' = [my EXCEPT ![t] = [counted EXCEPT !.most = e.distance, !.q = 0]]
                 /\ Goto(t, "prune")
              \/ /\ my[t].least_flag
                 /\ my' = [my EXCEPT ![t] =
                             IF e.distance > 1
                               THEN [counted EXCEPT !.least = e.distance, !.least_flag = FALSE]
                               ELSE counted]
                 /\ Goto(t, AfterHouse(counted.count_end))
    /\ UNCHANGED <<given, g_cnt_global, g_total_max, g_i_max, results, start_num, printed>>

\* Mutant: the way to house p is forgotten.
FarthestOnly(t, p) == g_i_max[p] # 0 /\ g_i_max[p] < g_total_max

\* No house is farther over house p than the greatest distance known.
Prunes(t, p) ==
    LET d == g_house_distance_i_to_all[<<p, start_num[t]>>]
    IN  g_i_max[p] # 0 /\ d # 0 /\ d + g_i_max[p] < g_total_max

\* What Search leaves for main.
Results(t, l, m) ==
    /\ house_distance_least' = [house_distance_least EXCEPT ![start_num[t]] = l]
    /\ house_distance_most' = [house_distance_most EXCEPT ![start_num[t]] = m]

\* One round of the loop over the other houses.
Prune(t) ==
    /\ pc[t] = "prune"
    /\ my[t].q < house_num - 1
    /\ \/ /\ Prunes(t, my[t].q)
          /\ Results(t, my[t].least + 1, my[t].least + 1)
          /\ Return(t)
       \/ /\ ~Prunes(t, my[t].q)
          /\ my' = [my EXCEPT ![t].q = @ + 1]
          /\ UNCHANGED <<results, pc>>
    /\ UNCHANGED <<given, shared, start_num, printed>>

PruneEnds(t) ==
    /\ pc[t] = "prune"
    /\ my[t].q = house_num - 1
    /\ Goto(t, AfterHouse(my[t].count_end))
    /\ UNCHANGED <<given, shared, results, start_num, my, printed>>

\* All houses are met: the results, and if (g_total_max < most + 1).
Report(t) ==
    /\ pc[t] = "report"
    /\ Results(t, my[t].least + 1, my[t].most + 1)
    /\ Goto(t, IF g_total_max < my[t].most + 1 THEN "raise" ELSE "i_max")
    /\ UNCHANGED <<given, shared, start_num, my, printed>>

\* g_total_max = most + 1, whatever it is by now.
Raise(t) ==
    /\ pc[t] = "raise"
    /\ g_total_max' = my[t].most + 1
    /\ Goto(t, "i_max")
    /\ UNCHANGED <<given, g_cnt_global, g_i_max, g_house_distance_i_to_all, results, start_num,
                   my, printed>>

SetIMax(t) ==
    /\ pc[t] = "i_max"
    /\ g_i_max' = [g_i_max EXCEPT ![start_num[t]] = my[t].most + 1]
    /\ Return(t)
    /\ UNCHANGED <<given, g_cnt_global, g_total_max, g_house_distance_i_to_all, results,
                   start_num, printed>>

\* main joins the threads and prints.
Answer ==
    /\ printed = <<>>
    /\ \A t \in Thread : pc[t] = "end"
    /\ printed' = <<Min({house_distance_least[s] : s \in 0 .. house_num - 2}),
                    Max({house_distance_most[s] : s \in 0 .. house_num - 2})>>
    /\ UNCHANGED <<given, shared, results, pc, start_num, my>>

Next ==
    \/ \E t \in Thread :
          \/ Test(t) \/ Draw(t) \/ Meet(t) \/ Prune(t) \/ PruneEnds(t)
          \/ Report(t) \/ Raise(t) \/ SetIMax(t)
    \/ Answer

Spec == Init /\ [][Next]_vars

\* As long as a thread can go on, one does.
FairSpec == Spec /\ WF_vars(Next)

----------------------------------------------------------------------------
(* Properties.                                                             *)

\* What the threads tell each other is true although nobody locks: the
\* distances are right, g_i_max is not below the distance to any house of
\* a greater index, and g_total_max, which a slow thread may lower, never
\* exceeds the answer.  (The last house but one keeps 1 in g_i_max when the
\* last house is the first one it meets; nobody reads it there.)
HintsAreTrue ==
    /\ \A p \in HouseIndex \X HouseIndex :
          g_house_distance_i_to_all[p] \in {0, apart[p]}
    /\ \A s \in 0 .. house_num - 3 :
          g_i_max[s] # 0 => \A j \in s + 1 .. house_num - 1 : g_i_max[s] >= apart[<<s, j>>]
    /\ g_total_max <= MostDistance

\* The program prints the least and the greatest distance, in spite of the
\* searches that are cut short and of the race for g_total_max.
AnswerRight == printed # <<>> => printed = <<LeastDistance, MostDistance>>

\* The counter is tested outside of the mutex, so threads may draw an index
\* beyond the houses to search: all but one of them, and no more, although
\* those that are not outside of house[] go on drawing.
DrawBound == \A t \in Thread : start_num[t] <= house_num - 2 + Cardinality(Thread) - 1

\* "start_num: the index of the house that the search starts from": it is one
\* of house[], which has house_num elements.
IndexInHouse == \A t \in Thread : start_num[t] < house_num

\* The program is over: the answer is printed, or main waits for a thread that
\* is outside of house[] and all others have ended.
Over ==
    \/ printed # <<>>
    \/ /\ \A t \in Thread : pc[t] \in {"end", "outside"}
       /\ \E t \in Thread : pc[t] = "outside"

\* All loops end, also beside a thread that is outside of house[].
Ends == <>Over
=============================================================================
