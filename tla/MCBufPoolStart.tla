--------------------------- MODULE MCBufPoolStart ---------------------------
(* Instances of BufPoolStart for TLC.                                       *)
EXTENDS BufPoolStart

\* The first instance creates a mutex for a block too.
BlockInFirst == [t \in Instance |-> IF t = 0 THEN 2 ELSE 1]

PoolMutexes == {First} \cup UNION {{t} \X (1 .. PerInst[t]) : t \in Instance}
=============================================================================
