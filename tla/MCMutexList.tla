---------------------------- MODULE MCMutexList -----------------------------
(* Instances of MutexList for TLC.                                          *)
EXTENDS MutexList
=============================================================================
