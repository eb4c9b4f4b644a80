----------------------------- MODULE MCProject1 -----------------------------
(* Inputs of Project1 for TLC.                                              *)
EXTENDS Project1

\* The graph of vertices 1 .. V with the given edges.
GraphOf(V, edges) == [v \in 1 .. V |-> SetToSeq({w \in 1 .. V : {v, w} \in edges})]

Line(k) == {{i, i + 1} : i \in 1 .. k - 1}

\* A line with a branch in the middle, a ring, a triangle with tails, a ladder.
Branched == GraphOf(12, Line(11) \cup {{6, 12}})
Ring     == GraphOf(10, Line(10) \cup {{10, 1}})
Kite     == GraphOf(7, Line(6) \cup {{2, 7}, {3, 7}})
Ladder   == GraphOf(8, {{1, 2}, {1, 3}, {2, 4}, {3, 5}, {4, 6}, {5, 6}, {4, 5}, {6, 7}, {3, 8}})

\* Two neighbours with two others in common, which each looks at in its own order.
Crossed  == <<<<4, 3, 2>>, <<3, 4, 1>>, <<1, 2>>, <<1, 2>>>>

Four == {<<12, 1, 4, 11>>, <<1, 12, 4, 11>>, <<12, 11, 4, 1>>, <<4, 12, 11, 1>>}
Three == {<<1, 4, 7>>, <<4, 7, 1>>, <<7, 1, 4>>, <<1, 4, 8>>}

Solve(solution, graph, houses) ==
    {[solution |-> solution, graph |-> graph, house |-> h] : h \in houses}

CrossedInput == Solve("project1_TA", Crossed, {<<1, 2>>})

SmallInputs ==
    Solve("Project1", Branched, Four) \cup Solve("Project1", Ring, Three)
      \cup Solve("project1_TA", Kite, {<<1, 6, 7>>})
      \cup Solve("project1_TA", Ladder, {<<1, 6>>, <<7, 8, 2>>})
      \cup CrossedInput
=============================================================================
