-------------------------- MODULE MCFarthestHouses --------------------------
(* Inputs of Project1.cpp for TLC beside those of MCProject1: ones that the *)
(* program does not get right.                                              *)
EXTENDS FarthestHouses

\* A straight road of V vertices.
Road(V) == [v \in 1 .. V |-> SetToSeq({v - 1, v + 1} \cap 1 .. V)]

On(V, houses) == {[graph |-> Road(V), house |-> houses]}

\* Two houses; three, of which two are two roads apart; four, far apart.
TwoHouses == On(6, <<1, 6>>)
NearHouses == On(8, <<1, 3, 8>>)
FourHouses == On(10, <<1, 4, 7, 10>>)
=============================================================================
