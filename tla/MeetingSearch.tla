---------------------------- MODULE MeetingSearch ----------------------------
(***************************************************************************)
(* The other solution of Project1 (project1_TA.cpp): one breadth first     *)
(* search per house, all at the same time.  Every search leaves its mark   *)
(* on the vertices by an atomic or, learns from the marks it finds there   *)
(* whom it has met, and ends with the level in which it has met all        *)
(* others.  The distances are put together from the places of the first    *)
(* meetings.                                                               *)
(*                                                                         *)
(* A search looks at its own marks only before the atomic or, so one step  *)
(* is: skip the neighbours it has marked, mark and enqueue the next one.   *)
(* MakeResult reads the vector of fences one element past its end when a   *)
(* meeting was in the last level; what it finds there is arbitrary.        *)
(***************************************************************************)
EXTENDS Houses

VARIABLES g_vertex_flag,   \* the searches that have marked each vertex
          g_visit_info,    \* where search p[1] first met search p[2]
          pc, my,          \* of each search
          printed

given == <<input, apart>>
vars == <<given, g_vertex_flag, g_visit_info, pc, my, printed>>

Thread == HouseIndex

\* What the program presupposes of its input: an undirected graph in one piece,
\* and two or more houses, no two in the same place.
Presupposed(x) ==
    /\ Connected(x.graph)
    /\ Len(x.house) >= 2
    /\ \A i, j \in DOMAIN x.house : i # j => x.house[i] # x.house[j]

\* A depth fence in a queue; the vertices are 1, 2, ...
FENCE == 0

\* The locals of search k, with its queue and g_depth_fence_in_queue[k].  The
\* neighbours of curr_node up to the i-th have been seen.
Locals(k) ==
    [queue |-> <<house(k), FENCE>>, fences |-> <<0>>, front |-> 0,
     curr_node |-> FENCE, i |-> 0, curr_depth |-> 0, visited |-> {k}]

\* InputGraph marks the houses, main starts the threads.
Init ==
    /\ InputInit
    /\ g_vertex_flag = [v \in DOMAIN input.graph |-> {k \in Thread : house(k) = v}]
    /\ g_visit_info = [p \in Thread \X Thread |-> [vid |-> 0, depth |-> 0]]
    /\ pc = [k \in Thread |-> "search"]
    /\ my = [k \in Thread |-> Locals(k)]
    /\ printed = <<>>

Neighbours(v) == IF v = FENCE THEN <<>> ELSE input.graph[v]

\* The neighbours of curr_node that search k has still to mark.
Unmarked(k) ==
    {i \in my[k].i + 1 .. Len(Neighbours(my[k].curr_node)) :
        k \notin g_vertex_flag[Neighbours(my[k].curr_node)[i]]}

\* Mutant: a plain store, which takes the marks of others away.
MarkAlone(k, v) == {k}

\* What __sync_fetch_and_or leaves on vertex v.
Marked(k, v) == g_vertex_flag[v] \cup {k}

\* Mark the next neighbour, note whom it is shared with, and enqueue it.
Mark(k) ==
    /\ pc[k] = "search"
    /\ Unmarked(k) # {}
    /\ LET i    == Min(Unmarked(k))
           v    == Neighbours(my[k].curr_node)[i]
           news == g_vertex_flag[v] \ my[k].visited
       IN  /\ g_vertex_flag' = [g_vertex_flag EXCEPT ![v] = Marked(k, v)]
           /\ g_visit_info' =
                 [p \in Thread \X Thread |->
                     IF p[1] = k /\ p[2] \in news
                       THEN [vid |-> v, depth |-> (my[k].curr_depth + 1) % 2^16]
                       ELSE g_visit_info[p]]
           /\ my' = [my EXCEPT ![k].i = i, ![k].visited = @ \cup news,
                               ![k].queue = Append(@, v)]
    /\ UNCHANGED <<given, pc, printed>>

\* Dequeue a vertex.
Dequeue(k) ==
    LET node == my[k].queue[my[k].front + 1]
    IN  /\ pc[k] = "search"
        /\ Unmarked(k) = {}
        /\ node # FENCE
        /\ my' = [my EXCEPT ![k].front = @ + 1, ![k].curr_node = node, ![k].i = 0]
        /\ UNCHANGED <<given, g_vertex_flag, g_visit_info, pc, printed>>

\* Mutant: stop as soon as anybody is met.
MetSome(k) == my[k].visited # {k}

\* if (visited_flag == g_full_flag)
MetAll(k) == my[k].visited = Thread

\* Dequeue a fence: a level is complete.  The next fence is put behind the
\* vertices found so far; the search ends here when it has met all others.
NextLevel(k) ==
    /\ pc[k] = "search"
    /\ Unmarked(k) = {}
    /\ my[k].queue[my[k].front + 1] = FENCE
    /\ my' = [my EXCEPT ![k].front = @ + 1, ![k].curr_node = FENCE, ![k].i = 0,
                        ![k].curr_depth = @ + 1, ![k].queue = Append(@, FENCE),
                        ![k].fences = Append(@, my[k].front)]
    /\ pc' = [pc EXCEPT ![k] = IF MetAll(k) THEN "end" ELSE "search"]
    /\ UNCHANGED <<given, g_vertex_flag, g_visit_info, printed>>

----------------------------------------------------------------------------
(* MakeResult, after the threads have been joined.                         *)

Pairs == {p \in Thread \X Thread : p[1] < p[2]}
Swap(p) == <<p[2], p[1]>>
Depth(p) == g_visit_info[p].depth

\* D1 + D2
Sum(p) == Depth(p) + Depth(Swap(p))

\* What the loop that looks for vertex v between the fences d and d + 1 of
\* search k may answer: anything when there is no fence d + 1.
LooksFor(k, d, v) ==
    LET f == my[k].fences
    IN  IF d + 2 <= Len(f)
          THEN {\E j \in f[d + 1] .. f[d + 2] - 1 : my[k].queue[j + 1] = v}
          ELSE BOOLEAN

\* The vertex where p[1] first met p[2], in level d of search p[2].
InLevel(p, d) == LooksFor(p[2], d, g_visit_info[p].vid)

\* The least sum, less one if the loop over its pairs is left early.
Minima ==
    LET min   == Min({Sum(p) : p \in Pairs})
        cands == {p \in Pairs : Sum(p) = min}
        In(p) == InLevel(p, Depth(Swap(p)))
    IN  (IF \E p \in cands : FALSE \in In(p) \cup In(Swap(p)) THEN {min - 1} ELSE {})
          \cup (IF \A p \in cands : TRUE \in In(p) /\ TRUE \in In(Swap(p)) THEN {min} ELSE {})

\* The greatest sum, less one if no pair of it leaves the loop.
Maximum ==
    LET max   == Max({Sum(p) : p \in Pairs})
        cands == {p \in Pairs : Sum(p) = max}
        In(p) == InLevel(p, Depth(Swap(p)) - 1)
    IN  IF \E p \in cands : In(p) = {FALSE} /\ In(Swap(p)) = {FALSE} THEN max ELSE max - 1

MakeResult ==
    /\ printed = <<>>
    /\ \A k \in Thread : pc[k] = "end"
    /\ \E min \in Minima : printed' = <<min, Maximum>>
    /\ UNCHANGED <<given, g_vertex_flag, g_visit_info, pc, my>>

Next == MakeResult \/ \E k \in Thread : Mark(k) \/ Dequeue(k) \/ NextLevel(k)

Spec == Init /\ [][Next]_vars

\* As long as a thread can go on, one does.
FairSpec == Spec /\ WF_vars(Next)

----------------------------------------------------------------------------
(* Properties.                                                             *)

\* The guarantee in front of MakeResult: two searches that first met each
\* other in depths D1 and D2 started D1 + D2 or D1 + D2 - 1 apart, whoever
\* was faster, and although a search goes on after it has been met.
SumTells ==
    \A p \in Pairs :
        Depth(p) > 0 /\ Depth(Swap(p)) > 0 => Sum(p) \in {apart[p], apart[p] + 1}

\* The greatest distance is never printed too small, and both numbers are at
\* most one off.
AnswerWithinOne ==
    printed # <<>> =>
        /\ printed[1] \in LeastDistance - 1 .. LeastDistance + 1
        /\ printed[2] \in {MostDistance, MostDistance + 1}

\* "finds the maximum shortest path": the greatest distance is printed, not
\* one more.
GreatestRight == printed # <<>> => printed[2] = MostDistance

\* No search waits for one that has ended: all meet and the answer is printed.
Ends == <>(printed # <<>>)
=============================================================================
