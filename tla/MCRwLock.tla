------------------------------ MODULE MCRwLock ------------------------------
(* An instance of RwLock for TLC. *)
EXTENDS RwLock

Events == {"event", "wait_ex_event", "high_priority_s_event", "high_priority_x_event"}
=============================================================================
