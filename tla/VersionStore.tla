---------------------------- MODULE VersionStore ----------------------------
(***************************************************************************)
(* What the program of Project2 promises, without lists, queues or a       *)
(* collector: every thread owns a growing set of versions.  An update      *)
(* takes the next number of a global clock, picks another thread and sees  *)
(* at that instant whether, and under which version, that thread is        *)
(* updating.  It reads the newest version of the picked thread that is     *)
(* below the one seen, or the newest at all if none was seen; then it adds *)
(* its own version.  Nothing that can be read ever disappears.             *)
(***************************************************************************)
EXTENDS Integers

CONSTANTS Thread, NULL

VARIABLES clock,      \* the last version handed out
          committed,  \* the versions in each thread's list
          running,    \* the version of the update under way, or NULL
          peer,       \* the thread that was picked
          seen,       \* the version it was seen working on, or 0
          result      \* the version that was read, or NULL

vars == <<clock, committed, running, peer, seen, result>>

Init ==
    /\ clock = 0
    /\ committed = [t \in Thread |-> {0}]
    /\ running = [t \in Thread |-> NULL]
    /\ peer = [t \in Thread |-> t]
    /\ seen = [t \in Thread |-> 0]
    /\ result = [t \in Thread |-> NULL]

Start(t) ==
    /\ running[t] = NULL
    /\ clock' = clock + 1
    /\ running' = [running EXCEPT ![t] = clock + 1]
    /\ \E p \in Thread \ {t} :
         /\ peer' = [peer EXCEPT ![t] = p]
         /\ seen' = [seen EXCEPT ![t] = IF running[p] = NULL THEN 0 ELSE running[p]]
    /\ UNCHANGED <<committed, result>>

Visible(t) == {v \in committed[peer[t]] : seen[t] = 0 \/ v < seen[t]}

Newest(S) == CHOOSE v \in S : \A w \in S : w =< v

Read(t) ==
    /\ running[t] # NULL
    /\ running[t] \notin committed[t]
    /\ result[t] = NULL
    /\ result' = [result EXCEPT ![t] = Newest(Visible(t))]
    /\ UNCHANGED <<clock, committed, running, peer, seen>>

Commit(t) ==
    /\ result[t] # NULL
    /\ committed' = [committed EXCEPT ![t] = @ \cup {running[t]}]
    /\ result' = [result EXCEPT ![t] = NULL]
    /\ UNCHANGED <<clock, running, peer, seen>>

End(t) ==
    /\ running[t] # NULL
    /\ running[t] \in committed[t]
    /\ running' = [running EXCEPT ![t] = NULL]
    /\ peer' = [peer EXCEPT ![t] = t]
    /\ seen' = [seen EXCEPT ![t] = 0]
    /\ UNCHANGED <<clock, committed, result>>

Next == \E t \in Thread : Start(t) \/ Read(t) \/ Commit(t) \/ End(t)

Spec == Init /\ [][Next]_vars
=============================================================================
