---------------------------- MODULE MCBakeryLock ----------------------------
(* Instances of BakeryLock for TLC.  The threads are numbers compared with  *)
(* <, so no symmetry is used.                                               *)
EXTENDS BakeryLock
=============================================================================
