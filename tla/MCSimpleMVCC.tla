---------------------------- MODULE MCSimpleMVCC ----------------------------
(* Instances of SimpleMVCC for TLC.  The collector and main visit the lists *)
(* in the order of the thread indices, so no symmetry is used.              *)
EXTENDS SimpleMVCC

\* Every other thread can be picked, as in the code.
AllPicks == [t \in Thread |-> Thread]

\* All threads read the list of thread 0, which reads the one of thread 1:
\* several readers in one queue, at the price of the other queues.
StarPicks == [t \in Thread |-> IF t = 0 THEN {1} ELSE {0}]
=============================================================================
