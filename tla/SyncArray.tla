----------------------------- MODULE SyncArray ------------------------------
(***************************************************************************)
(* The wait arrays (sync0arr.cc) and the events (os0sync.cc) on which the  *)
(* threads of XtraDB sleep while a mutex or an rw-lock is taken.           *)
(*                                                                         *)
(* The module has the part of a waiting call that is the same for all      *)
(* locks; SyncMutex and RwLock extend it.  A lock sends thread t here with *)
(* want[t] the event to wait for:                                          *)
(*   pc "enter" -> "reset" -> "reserved"   a cell is reserved              *)
(*   pc "asleep" -> "freed"                wait on that cell               *)
(*   pc "cancel" -> "cancelled"            give the cell back              *)
(* An event is manipulated under its own OS mutex, one step per call; an   *)
(* array under its latch.                                                  *)
(***************************************************************************)
EXTENDS Integers, FiniteSets

CONSTANTS Thread,      \* the threads that use the lock
          Event,       \* the events inside the lock
          NArrays,     \* sync_array_size
          CellCounts,  \* the n_cells an array may have
          NONE         \* no thread

ASSUME ArrayAssumption ==
    /\ IsFiniteSet(Thread)
    /\ NArrays \in Nat \ {0}
    /\ CellCounts \subseteq Nat \ {0}
    /\ NONE \notin Thread /\ NONE \notin Event

Arr == 0 .. NArrays - 1

VARIABLES is_set, signal_count,  \* of each event
          n_cells,               \* of each array
          cells,                 \* the reserved cells of all arrays
          latch,                 \* who holds os_mutex of each array
          count,                 \* the static of sync_array_get, modulo NArrays
          at, tries,             \* locals of sync_array_get_and_reserve_cell
          want,                  \* the event a thread waits for
          pc                     \* where each thread is

eventVars == <<is_set, signal_count>>
arrayVars == <<eventVars, n_cells, cells, latch, count, at, tries, want>>

ArrayInit ==
    /\ is_set = [e \in Event |-> FALSE]
    /\ signal_count = [e \in Event |-> 1]
    /\ n_cells \in CellCounts
    /\ cells = {}
    /\ latch = [a \in Arr |-> NONE]
    /\ count = 0
    /\ at = [t \in Thread |-> 0] /\ tries = [t \in Thread |-> 0]
    /\ want = [t \in Thread |-> NONE]
    /\ pc = [t \in Thread |-> "idle"]

Goto(t, where) == pc' = [pc EXCEPT ![t] = where]

\* sync_array_get: the arrays take turns.
GetArray(t) ==
    /\ count' = (count + 1) % NArrays
    /\ at' = [at EXCEPT ![t] = count']
    /\ tries' = [tries EXCEPT ![t] = @ + 1]

\* Enter sync_array_get_and_reserve_cell, to wait for event e.
GotoReserve(t, e) ==
    /\ Goto(t, "enter")
    /\ want' = [want EXCEPT ![t] = e]
    /\ GetArray(t)

----------------------------------------------------------------------------
(* Events.                                                                 *)

\* event->inc_signal_count(), when the event was not set.
CountAfterSet(e) ==
    IF is_set[e] THEN signal_count ELSE [signal_count EXCEPT ![e] = @ + 1]

os_event_set(e) ==
    /\ signal_count' = CountAfterSet(e)
    /\ is_set' = [is_set EXCEPT ![e] = TRUE]

\* os_event_wait_low returns: the event is set, or was set since cell c was
\* reserved.  (signal_count starts at 1, so the cell never holds 0.)
Signalled(c) == is_set[c.event] \/ signal_count[c.event] # c.sig

----------------------------------------------------------------------------
(* The cells.                                                              *)

\* The cell of thread t for the event it wants.
Cell(t) == CHOOSE c \in cells : c.thread = t /\ c.event = want[t]

Full(a) == Cardinality({c \in cells : c.arr = a}) >= n_cells

\* sync_array_reserve_cell up to sync_array_exit: take a free cell.
ReserveCell(t) ==
    /\ pc[t] = "enter"
    /\ latch[at[t]] = NONE
    /\ ~Full(at[t])
    /\ cells' = cells \cup {[arr |-> at[t], thread |-> t, event |-> want[t], sig |-> 0]}
    /\ tries' = [tries EXCEPT ![t] = 0]
    /\ Goto(t, "reset")
    /\ UNCHANGED <<eventVars, n_cells, latch, count, at, want>>

\* No free cell found: the function returns without sync_array_exit.  The
\* caller goes on to the next array; after the last one ut_a(reserved) stops
\* the server.
ReserveFails(t) ==
    /\ pc[t] = "enter"
    /\ latch[at[t]] = NONE
    /\ Full(at[t])
    /\ latch' = [latch EXCEPT ![at[t]] = t]
    /\ IF tries[t] < NArrays
         THEN GetArray(t) /\ UNCHANGED pc
         ELSE Goto(t, "aborted") /\ UNCHANGED <<count, at, tries>>
    /\ UNCHANGED <<eventVars, n_cells, cells, want>>

\* cell->signal_count = os_event_reset(event), after the latch is released.
ResetEvent(t) ==
    /\ pc[t] = "reset"
    /\ is_set' = [is_set EXCEPT ![want[t]] = FALSE]
    /\ cells' = (cells \ {Cell(t)})
                  \cup {[Cell(t) EXCEPT !.sig = signal_count[want[t]]]}
    /\ Goto(t, "reserved")
    /\ UNCHANGED <<signal_count, n_cells, latch, count, at, tries, want>>

\* Mutant: wait_object stays.
KeepCell(c) == cells

\* cell->wait_object = NULL
WithoutCell(c) == cells \ {c}

\* sync_array_free_cell.
FreeCell(t) ==
    /\ latch[Cell(t).arr] = NONE
    /\ cells' = WithoutCell(Cell(t))
    /\ want' = [want EXCEPT ![t] = NONE]
    /\ UNCHANGED <<eventVars, n_cells, latch, count, at, tries>>

\* sync_array_wait_event: os_event_wait_low returns and the cell is freed.  A
\* cell that was signalled stays so, hence this is one step.
WaitEvent(t) ==
    /\ pc[t] = "asleep"
    /\ Signalled(Cell(t))
    /\ FreeCell(t)
    /\ Goto(t, "freed")

\* The lock came free before the wait.
Cancel(t) ==
    /\ pc[t] = "cancel"
    /\ FreeCell(t)
    /\ Goto(t, "cancelled")

ArrayStep(t) ==
    ReserveCell(t) \/ ReserveFails(t) \/ ResetEvent(t) \/ WaitEvent(t) \/ Cancel(t)

\* ut_a(reserved) has failed: the server is down.
Aborted == \E t \in Thread : pc[t] = "aborted"

ArrayTypeOK ==
    /\ is_set \in [Event -> BOOLEAN]
    /\ signal_count \in [Event -> Nat \ {0}]
    /\ cells \subseteq [arr : Arr, thread : Thread, event : Event, sig : Nat]
    /\ count \in Arr
    /\ at \in [Thread -> Arr]
    /\ tries \in [Thread -> 0 .. NArrays]
    /\ want \in [Thread -> Event \cup {NONE}]
=============================================================================
