------------------------------- MODULE Mutex -------------------------------
(***************************************************************************)
(* What Project2 expects of the lock around its two critical sections      *)
(* (pthread_mutex_t g_mutex, and bakery_lock / bakery_unlock that stand    *)
(* beside it in comments): a thread asks for the lock, gets it only while  *)
(* nobody holds it, and gives it back.  BakeryLock is shown to implement   *)
(* this specification, and SimpleMVCC uses it by making each critical      *)
(* section one atomic action.                                              *)
(***************************************************************************)
CONSTANT Thread

VARIABLES waiting,  \* the threads that asked for the lock and do not have it
          holders   \* the threads that are in the critical section

vars == <<waiting, holders>>

Init == waiting = {} /\ holders = {}

\* The call of lock() by thread t.
Request(t) ==
    /\ t \notin waiting \cup holders
    /\ waiting' = waiting \cup {t}
    /\ UNCHANGED holders

\* lock() returns in thread t.
Acquire(t) ==
    /\ t \in waiting
    /\ holders = {}
    /\ waiting' = waiting \ {t}
    /\ holders' = {t}

\* The call of unlock() by thread t.
Release(t) ==
    /\ t \in holders
    /\ holders' = holders \ {t}
    /\ UNCHANGED waiting

Next == \E t \in Thread : Request(t) \/ Acquire(t) \/ Release(t)

Spec == Init /\ [][Next]_vars
=============================================================================
