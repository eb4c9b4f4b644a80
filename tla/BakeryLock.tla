----------------------------- MODULE BakeryLock -----------------------------
(***************************************************************************)
(* bakery_lock, BakeryMax and bakery_unlock of Project2.cpp: Lamport's     *)
(* bakery lock over the shared arrays g_bakery_choosing and                *)
(* g_bakery_number.  Every access to an element of the two volatile arrays *)
(* is a step of its own, in the order the program makes them; a thread     *)
(* reads its own number together with the other thread's, because no other *)
(* thread writes it.  BakeryMax reads an element once to compare it and a  *)
(* second time to take it, and the spin loop reads the other ticket up to  *)
(* three times per evaluation: the value may change in between.            *)
(* Accesses are sequentially consistent here.  A local variable that goes  *)
(* out of scope is set back to 0.                                          *)
(***************************************************************************)
EXTENDS Integers

CONSTANTS N,         \* g_num_thread
          MaxTicket  \* bound of the model: no ticket above it is handed out

ASSUME NAssumption == N \in Nat \ {0}
ASSUME MaxTicketAssumption == MaxTicket \in Nat

Thread == 0 .. N - 1

VARIABLES choosing,  \* g_bakery_choosing, the int TRUE = 1 or FALSE = 0
          number,    \* g_bakery_number
          pc,        \* where each thread is
          j,         \* the loop variable: i of BakeryMax, then j of bakery_lock
          num_max,   \* num_max of BakeryMax
          before     \* history: who had a ticket when the thread began to choose

vars == <<choosing, number, pc, j, num_max, before>>

----------------------------------------------------------------------------
(* Control points.  A thread has a ticket from the assignment of           *)
(* g_bakery_number[i] to bakery_unlock.                                    *)

Scanning == {"compare", "take"}
Doorway  == Scanning \cup {"assign"}
Spinning == {"zero", "less", "equal"}
Waiting  == {"chosen", "await"} \cup Spinning
Ticketed == Waiting \cup {"cs"}

HasTicket(i) == pc[i] \in Ticketed

Init ==
    /\ choosing = [i \in Thread |-> 0]
    /\ number = [i \in Thread |-> 0]
    /\ pc = [i \in Thread |-> "idle"]
    /\ j = [i \in Thread |-> 0]
    /\ num_max = [i \in Thread |-> 0]
    /\ before = [i \in Thread |-> {}]

----------------------------------------------------------------------------
(* The doorway: choosing, BakeryMax, the ticket.                           *)

\* Bound: each of the at most N threads in the doorway may add one to the
\* largest number that is held or remembered.
TicketsLeft ==
    \A i \in Thread : number[i] + N =< MaxTicket /\ num_max[i] + N =< MaxTicket

Lock(i) ==
    /\ pc[i] = "idle"
    /\ TicketsLeft
    /\ choosing' = [choosing EXCEPT ![i] = 1]
    /\ num_max' = [num_max EXCEPT ![i] = 0]
    /\ j' = [j EXCEPT ![i] = 0]
    /\ pc' = [pc EXCEPT ![i] = "compare"]
    /\ before' = [before EXCEPT ![i] = {k \in Thread : HasTicket(k)}]
    /\ UNCHANGED number

\* if (num_max<g_bakery_number[i]): the first read of the element.
MaxCompare(i) ==
    /\ pc[i] = "compare"
    /\ j[i] < N
    /\ IF num_max[i] < number[j[i]]
         THEN pc' = [pc EXCEPT ![i] = "take"] /\ UNCHANGED j
         ELSE j' = [j EXCEPT ![i] = @ + 1] /\ UNCHANGED pc
    /\ UNCHANGED <<choosing, number, num_max, before>>

\* num_max = g_bakery_number[i]: the second read.
MaxTake(i) ==
    /\ pc[i] = "take"
    /\ num_max' = [num_max EXCEPT ![i] = number[j[i]]]
    /\ j' = [j EXCEPT ![i] = @ + 1]
    /\ pc' = [pc EXCEPT ![i] = "compare"]
    /\ UNCHANGED <<choosing, number, before>>

\* The loop of BakeryMax ends and it returns num_max.
MaxReturn(i) ==
    /\ pc[i] = "compare"
    /\ j[i] = N
    /\ pc' = [pc EXCEPT ![i] = "assign"]
    /\ UNCHANGED <<choosing, number, j, num_max, before>>

\* Mutant: the largest ticket, not the one after it.
TicketWithoutSuccessor(i) == num_max[i]

\* g_bakery_number[i] = BakeryMax() + 1
Ticket(i) == num_max[i] + 1

TakeTicket(i) ==
    /\ pc[i] = "assign"
    /\ number' = [number EXCEPT ![i] = Ticket(i)]
    /\ num_max' = [num_max EXCEPT ![i] = 0]
    /\ pc' = [pc EXCEPT ![i] = "chosen"]
    /\ UNCHANGED <<choosing, j, before>>

\* g_bakery_choosing[i] = FALSE, and the start of the loop over the threads.
DoneChoosing(i) ==
    /\ pc[i] = "chosen"
    /\ choosing' = [choosing EXCEPT ![i] = 0]
    /\ j' = [j EXCEPT ![i] = 0]
    /\ pc' = [pc EXCEPT ![i] = "await"]
    /\ UNCHANGED <<number, num_max, before>>

----------------------------------------------------------------------------
(* The loop over the threads, the thread itself included.                  *)

\* Mutant: the loop on g_bakery_choosing is missing.
PeerMayBeChoosing(i) == TRUE

\* while (g_bakery_choosing[j]) ends: the thread read FALSE.
PeerHasChosen(i) == choosing[j[i]] = 0

AwaitChoosing(i) ==
    /\ pc[i] = "await"
    /\ j[i] < N
    /\ PeerHasChosen(i)
    /\ pc' = [pc EXCEPT ![i] = "zero"]
    /\ UNCHANGED <<choosing, number, j, num_max, before>>

\* The while condition is false: go on to the next thread.
NextPeer(i) ==
    /\ j' = [j EXCEPT ![i] = @ + 1]
    /\ pc' = [pc EXCEPT ![i] = "await"]

SpinTo(i, where) ==
    /\ pc' = [pc EXCEPT ![i] = where]
    /\ UNCHANGED j

\* g_bakery_number[j] != 0
ReadZero(i) ==
    /\ pc[i] = "zero"
    /\ IF number[j[i]] = 0 THEN NextPeer(i) ELSE SpinTo(i, "less")
    /\ UNCHANGED <<choosing, number, num_max, before>>

\* g_bakery_number[j] < g_bakery_number[i]
ReadLess(i) ==
    /\ pc[i] = "less"
    /\ IF number[j[i]] < number[i] THEN SpinTo(i, "zero") ELSE SpinTo(i, "equal")
    /\ UNCHANGED <<choosing, number, num_max, before>>

\* Mutants: no tie break, and a tie break that the thread loses to itself.
NoTieBreak(i) == FALSE
LosesTieToSelf(i) == number[j[i]] = number[i] /\ j[i] =< i

\* (g_bakery_number[j] == g_bakery_number[i]) && (j < i)
LosesTie(i) == number[j[i]] = number[i] /\ j[i] < i

ReadEqual(i) ==
    /\ pc[i] = "equal"
    /\ IF LosesTie(i) THEN SpinTo(i, "zero") ELSE NextPeer(i)
    /\ UNCHANGED <<choosing, number, num_max, before>>

\* The loop over the threads ends: bakery_lock returns.
Enter(i) ==
    /\ pc[i] = "await"
    /\ j[i] = N
    /\ j' = [j EXCEPT ![i] = 0]
    /\ pc' = [pc EXCEPT ![i] = "cs"]
    /\ UNCHANGED <<choosing, number, num_max, before>>

\* Mutant: bakery_unlock leaves the ticket in the array.
KeepTicket(i) == number

\* bakery_unlock(i).
ReturnTicket(i) == [number EXCEPT ![i] = 0]

Unlock(i) ==
    /\ pc[i] = "cs"
    /\ number' = ReturnTicket(i)
    /\ pc' = [pc EXCEPT ![i] = "idle"]
    /\ before' = [k \in Thread |-> before[k] \ {i}]
    /\ UNCHANGED <<choosing, j, num_max>>

----------------------------------------------------------------------------
\* The steps a thread takes once it has called bakery_lock.
Step(i) ==
    \/ MaxCompare(i) \/ MaxTake(i) \/ MaxReturn(i) \/ TakeTicket(i)
    \/ DoneChoosing(i) \/ AwaitChoosing(i)
    \/ ReadZero(i) \/ ReadLess(i) \/ ReadEqual(i)
    \/ Enter(i) \/ Unlock(i)

Next == \E i \in Thread : Lock(i) \/ Step(i)

Spec == Init /\ [][Next]_vars

\* Every thread that called bakery_lock keeps being scheduled; nobody has to
\* call bakery_lock again.
FairSpec == Spec /\ \A i \in Thread : WF_vars(Step(i))

----------------------------------------------------------------------------
(* Properties.                                                             *)

\* The values of the variables.
Types ==
    /\ choosing \in [Thread -> {0, 1}]
    /\ number \in [Thread -> Nat]
    /\ pc \in [Thread -> {"idle"} \cup Doorway \cup Ticketed]
    /\ j \in [Thread -> 0 .. N]
    /\ num_max \in [Thread -> Nat]
    /\ before \in [Thread -> SUBSET Thread]

\* A ticket is positive exactly from the assignment in bakery_lock to
\* bakery_unlock, choosing is set exactly while BakeryMax runs and the ticket
\* is stored, and no array is read beyond its end.
Meaning(i) ==
    /\ number[i] > 0 <=> HasTicket(i)
    /\ choosing[i] = 1 <=> pc[i] \in Doorway \cup {"chosen"}
    /\ pc[i] \in {"take"} \cup Spinning => j[i] < N

\* Every variable keeps its type, and the shared arrays their meaning.
TypeOK == Types /\ \A i \in Thread : Meaning(i)

\* Between bakery_lock and bakery_unlock a thread is alone, although it
\* reads the tickets of the others one at a time and several times each.
MutualExclusion ==
    \A i, k \in Thread : pc[i] = "cs" /\ pc[k] = "cs" => i = k

\* First come, first served: a thread that had stored its ticket before
\* thread i called bakery_lock has left the critical section when i gets in.
FirstComeFirstServed ==
    \A i \in Thread : pc[i] = "cs" => before[i] = {}

\* The lock implements the abstract Mutex.
Abstract == INSTANCE Mutex WITH
    waiting <- {i \in Thread : pc[i] \in Doorway \cup Waiting},
    holders <- {i \in Thread : pc[i] = "cs"}

ImplementsMutex == Abstract!Spec

\* Every call of bakery_lock returns.
StarvationFree ==
    \A i \in Thread : pc[i] # "idle" ~> pc[i] = "cs"
=============================================================================
