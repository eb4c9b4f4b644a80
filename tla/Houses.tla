------------------------------- MODULE Houses -------------------------------
(***************************************************************************)
(* The task of Project1: an undirected graph and some of its vertices, the *)
(* houses; print the least and the greatest distance between two houses.   *)
(* The module has the input both solutions read and the reference answer.  *)
(* A vertex has its neighbours in the order in which they were read.       *)
(***************************************************************************)
EXTENDS Integers, FiniteSets, Sequences, FiniteSetsExt, SequencesExt

CONSTANT Inputs   \* records [graph |-> neighbours of each vertex, house |-> vertices]

ASSUME InputAssumption == \A x \in Inputs : x.house \in Seq(1 .. Len(x.graph))

VARIABLES input,  \* the one that is read
          apart   \* the reference: the distance between any two houses of it

\* An undirected graph in one piece.
Connected(graph) ==
    /\ graph \in Seq(Seq(DOMAIN graph))
    /\ \A v, w \in DOMAIN graph : w \in ToSet(graph[v]) => v \in ToSet(graph[w])
    /\ \A S \in SUBSET DOMAIN graph :
          S # {} /\ (\A v \in S : ToSet(graph[v]) \subseteq S) => S = DOMAIN graph

\* The smallest number of edges from v to w.
Distance(v, w) ==
    LET Near[k \in 0 .. Len(input.graph)] ==
            IF k = 0 THEN {v}
            ELSE LET near == Near[k - 1]
                 IN  near \cup UNION {ToSet(input.graph[u]) : u \in near}
    IN  CHOOSE k \in 0 .. Len(input.graph) : w \in Near[k] /\ (k > 0 => w \notin Near[k - 1])

\* The number of houses, the vertex of house k = 0, 1, ... and their indices.
house_num == Len(input.house)
house(k) == input.house[k + 1]
HouseIndex == 0 .. house_num - 1

InputInit ==
    /\ input \in Inputs
    /\ apart = [p \in HouseIndex \X HouseIndex |-> Distance(house(p[1]), house(p[2]))]

Distances ==
    {apart[p] : p \in {q \in HouseIndex \X HouseIndex : q[1] < q[2]}}

LeastDistance == Min(Distances)
MostDistance == Max(Distances)
=============================================================================
