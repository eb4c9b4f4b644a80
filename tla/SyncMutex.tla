----------------------------- MODULE SyncMutex ------------------------------
(***************************************************************************)
(* The mutex of XtraDB (sync0sync.ic, sync0sync.cc): a test-and-set on     *)
(* lock_word, then a reservation in a wait array (SyncArray), the waiters  *)
(* flag, a last try and sleep.  prio chooses between ib_mutex_t and        *)
(* ib_prio_mutex_t, whose high priority waiters have a counter and an      *)
(* event of their own.  The error monitor thread wakes, every second, the  *)
(* sleepers whose mutex is free.                                           *)
(*                                                                         *)
(* Failing rounds of the spin loops change nothing and are not steps.      *)
(* Accesses are sequentially consistent, save one: mutex_exit_func of the  *)
(* priority mutex has no os_mb between the release and the reads that look *)
(* for waiters.  Where os_atomic_clear is an exchange (Solaris, Windows)   *)
(* it is a barrier itself; with gcc it is a plain store on x86 and may     *)
(* become visible only later (delayed), when the next locked instruction   *)
(* of the thread, in os_event_set or mutex_enter_func, drains it.          *)
(***************************************************************************)
EXTENDS SyncArray

CONSTANTS High,       \* the threads with srv_current_thread_priority set
          Quotas      \* bound: how often each thread may take the mutex

ASSUME MutexAssumption ==
    /\ High \subseteq Thread
    /\ Quotas \subseteq [Thread -> Nat]
    /\ Event = {"event", "high_priority_event"}

VARIABLES prio,                   \* whether this is an ib_prio_mutex_t
          fenced,                 \* whether a barrier follows the release
          lock_word, waiters,     \* of the mutex
          high_priority_waiters,  \* of a priority mutex
          delayed,                \* the thread whose release is in its store buffer
          rounds                  \* how often each thread may still call mutex_enter

words == <<lock_word, waiters, high_priority_waiters, delayed>>
build == <<prio, fenced>>
vars == <<arrayVars, pc, build, words, rounds>>

Init ==
    /\ ArrayInit
    /\ prio \in BOOLEAN
    /\ fenced \in BOOLEAN /\ (prio \/ fenced)
    /\ lock_word = 0 /\ waiters = 0 /\ high_priority_waiters = 0
    /\ delayed = NONE
    /\ rounds \in Quotas

high_priority(t) == prio /\ t \in High

EventOf(t) == IF high_priority(t) THEN "high_priority_event" ELSE "event"

----------------------------------------------------------------------------
(* mutex_enter_func and mutex_spin_wait.                                   *)

\* Mutant: the word is not tested by the instruction that sets it.
SetOnly == TRUE

\* The word that ib_mutex_test_and_set exchanges was 0.
WasFree == lock_word = 0

\* ib_mutex_test_and_set gets the mutex.  A locked instruction: it drains the
\* store of the calling thread first.
TestAndSet(t, got) ==
    /\ WasFree
    /\ lock_word' = 1
    /\ Goto(t, got)
    /\ UNCHANGED <<arrayVars, waiters, high_priority_waiters, delayed>>

\* mutex_enter_func: the first test-and-set.
Enter(t) ==
    /\ pc[t] = "idle"
    /\ rounds[t] > 0
    /\ delayed # t
    /\ rounds' = [rounds EXCEPT ![t] = @ - 1]
    /\ \/ TestAndSet(t, "hold")
       \/ lock_word # 0 /\ Goto(t, "spin") /\ UNCHANGED <<arrayVars, words>>

\* At mutex_loop, for the first time or after a wait.
AtLoop(t) == pc[t] = "spin" \/ (pc[t] = "freed" /\ ~high_priority(t))

\* The test-and-set after spinning succeeds.
SpinGets(t) ==
    /\ AtLoop(t)
    /\ TestAndSet(t, "hold")
    /\ UNCHANGED rounds

\* SYNC_SPIN_ROUNDS tries have failed.
SpinFails(t) ==
    /\ AtLoop(t)
    /\ lock_word # 0
    /\ GotoReserve(t, EventOf(t))
    /\ UNCHANGED <<eventVars, n_cells, cells, latch, words, rounds>>

\* Announce the waiter.
SetWaiters(t) ==
    IF high_priority(t)
      THEN high_priority_waiters' = high_priority_waiters + 1 /\ UNCHANGED waiters
      ELSE waiters' = 1 /\ UNCHANGED high_priority_waiters

Announce(t) ==
    /\ pc[t] = "reserved"
    /\ SetWaiters(t)
    /\ Goto(t, "retry")
    /\ UNCHANGED <<arrayVars, lock_word, delayed, rounds>>

\* One of the four tries succeeds: the cell is given back, waiters stays.
RetryGets(t) ==
    /\ pc[t] = "retry"
    /\ TestAndSet(t, "cancel")
    /\ UNCHANGED rounds

\* Mutant: go to sleep without another look.
NoSecondLook == TRUE

\* The four tries found the mutex reserved.
StillReserved == lock_word # 0

RetryFails(t) ==
    /\ pc[t] = "retry"
    /\ StillReserved
    /\ Goto(t, "asleep")
    /\ UNCHANGED <<arrayVars, words, rounds>>

\* os_atomic_decrement_ulint(&high_priority_waiters), after either way out;
\* then on with the mutex or back to mutex_loop.
Retract(t) ==
    /\ high_priority(t)
    /\ pc[t] \in {"cancelled", "freed"}
    /\ high_priority_waiters' = high_priority_waiters - 1
    /\ Goto(t, IF pc[t] = "cancelled" THEN "hold" ELSE "spin")
    /\ UNCHANGED <<arrayVars, lock_word, waiters, delayed, rounds>>

----------------------------------------------------------------------------
(* mutex_exit_func of both kinds.                                          *)

\* mutex_reset_lock_word; os_mb follows in the plain mutex only.
ResetLockWord(t) ==
    /\ pc[t] = "hold" \/ (pc[t] = "cancelled" /\ ~high_priority(t))
    /\ \/ lock_word' = 0 /\ UNCHANGED delayed
       \/ ~fenced /\ delayed' = t /\ UNCHANGED lock_word
    /\ Goto(t, IF prio THEN "look_high" ELSE "look")
    /\ UNCHANGED <<arrayVars, waiters, high_priority_waiters, rounds>>

\* The store buffer of thread t drains.
Drain(t) ==
    /\ delayed = t
    /\ lock_word' = 0
    /\ delayed' = NONE
    /\ UNCHANGED <<arrayVars, pc, waiters, high_priority_waiters, rounds>>

\* Wake up high priority waiters first: if (high_priority_waiters != 0).
LookHigh(t) ==
    /\ pc[t] = "look_high"
    /\ Goto(t, IF high_priority_waiters # 0 THEN "set_high" ELSE "look")
    /\ UNCHANGED <<arrayVars, words, rounds>>

\* if (mutex_get_waiters(mutex) != 0)
LookLow(t) ==
    /\ pc[t] = "look"
    /\ Goto(t, IF waiters # 0 THEN "clear" ELSE "idle")
    /\ UNCHANGED <<arrayVars, words, rounds>>

\* mutex_signal_object: waiters is reset before the event is set.
ClearWaiters(t) ==
    /\ pc[t] = "clear"
    /\ delayed # t
    /\ waiters' = 0
    /\ Goto(t, "set")
    /\ UNCHANGED <<arrayVars, lock_word, high_priority_waiters, delayed, rounds>>

\* os_event_set, of either event.
SetEvent(t) ==
    /\ pc[t] \in {"set", "set_high"}
    /\ delayed # t
    /\ os_event_set(IF pc[t] = "set" THEN "event" ELSE "high_priority_event")
    /\ Goto(t, "idle")
    /\ UNCHANGED <<n_cells, cells, latch, count, at, tries, want, words, rounds>>

ThreadStep(t) ==
    /\ \/ Enter(t) \/ SpinGets(t) \/ SpinFails(t) \/ Announce(t) \/ RetryGets(t)
       \/ RetryFails(t) \/ Retract(t) \/ ResetLockWord(t) \/ Drain(t)
       \/ LookHigh(t) \/ LookLow(t) \/ ClearWaiters(t) \/ SetEvent(t)
       \/ ArrayStep(t) /\ UNCHANGED <<words, rounds>>
    /\ UNCHANGED build

----------------------------------------------------------------------------
(* sync_arr_wake_threads_if_sema_free, called by the error monitor thread  *)
(* every second.  It holds the latch of an array while it scans the cells; *)
(* as it never waits there, a thread that needs the latch is only delayed. *)
(* The look at the mutex and the setting of the event are one step: that   *)
(* the mutex is taken in between is as if it were taken just afterwards.   *)

\* Mutant: the monitor takes no mutex for free.
NeverFree == FALSE

\* sync_arr_cell_can_wake_up, for a mutex.
CanWakeUp == lock_word = 0

\* The monitor gets to a cell, after those of the arrays before it.
Monitor ==
    /\ \E c \in cells :
          /\ \A a \in 0 .. c.arr : latch[a] = NONE
          /\ CanWakeUp
          /\ os_event_set(c.event)
    /\ UNCHANGED <<n_cells, cells, latch, count, at, tries, want, pc, words, rounds, build>>

----------------------------------------------------------------------------

Next == ~Aborted /\ ((\E t \in Thread : ThreadStep(t)) \/ Monitor)
Spec == Init /\ [][Next]_vars

\* A thread that is in a call, or has a store to drain, goes on; a critical
\* section ends.  The monitor goes on, too: while the mutex is free, it
\* gets to every cell whose event is not set.
Busy(t) == ~Aborted /\ ThreadStep(t) /\ (pc[t] # "idle" \/ delayed = t)

FairSpec ==
    /\ Spec
    /\ \A t \in Thread : WF_vars(Busy(t))
    /\ WF_vars(~Aborted /\ Monitor)

----------------------------------------------------------------------------
(* Properties.                                                             *)

\* The values of the variables.
TypeOK ==
    /\ ArrayTypeOK
    /\ latch \in [Arr -> Thread \cup {NONE}]
    /\ lock_word \in 0 .. 1 /\ waiters \in 0 .. 1
    /\ high_priority_waiters \in 0 .. Cardinality(High)
    /\ delayed \in Thread \cup {NONE}

\* A thread between its test-and-set and its release.
Holds(t) == pc[t] \in {"cancel", "cancelled", "hold"}

\* lock_word is 1 exactly while one thread has the mutex, or has left it and
\* the store of its release is on the way: the mutex excludes.
OneOwner ==
    Cardinality({t \in Thread : Holds(t) \/ delayed = t}) = lock_word

\* A thread has one cell exactly while it is between the reservation and the
\* release of the cell; so with as many cells as threads sync_array_reserve_cell
\* finds a free one, no latch is left locked and ut_a(reserved) holds.
CellsMatchWaiters ==
    /\ \A t \in Thread :
          Cardinality({c \in cells : c.thread = t}) =
              IF pc[t] \in {"reset", "reserved", "retry", "asleep", "cancel"} THEN 1 ELSE 0
    /\ Aborted \/ (\E a \in Arr : latch[a] # NONE) => n_cells < Cardinality(Thread)

\* A thread that has decided to sleep and has not been signalled.
Sleeps(t) == pc[t] = "asleep" /\ ~Signalled(Cell(t))

\* A thread that will look for waiters of event e and find one announced.
WillLook(e) ==
    \E u \in Thread :
        \/ e = "event" /\ waiters = 1 /\ (Holds(u) \/ pc[u] \in {"look", "look_high"})
        \/ e # "event" /\ high_priority_waiters > 0 /\ (Holds(u) \/ pc[u] = "look_high")

\* A thread that is about to set event e.
WillSet(e) ==
    \E u \in Thread : pc[u] \in IF e = "event" THEN {"clear", "set"} ELSE {"set_high"}

\* A high priority waiter, which will hold the mutex and look after the others.
HighWaits ==
    /\ waiters = 1
    /\ \E u \in Thread : high_priority(u) /\ pc[u] \in {"retry", "asleep", "freed", "spin"}

\* LEMMA 1 of sync0sync.cc, where the release of the mutex is a barrier: for
\* every thread that has made up its mind to sleep there is one on the way to
\* set its event, or one that will look for waiters and find it announced.
NoLostWakeup ==
    fenced => \A t \in Thread : Sleeps(t) =>
        WillSet(want[t]) \/ WillLook(want[t]) \/ (want[t] = "event" /\ HighWaits)

\* A thread inside mutex_enter.
Pending(t) == AtLoop(t) \/ pc[t] \in {"enter", "reset", "reserved", "retry", "asleep", "freed"}

\* Every call of mutex_enter returns with the mutex, although a sleeper may
\* be overlooked by a delayed release: as the threads call it a number
\* of times only, whenever some thread waits a time comes when none does,
\* unless the server aborts for want of a cell.
EveryCallReturns == (\E t \in Thread : Pending(t)) ~>
                        Aborted \/ (\A t \in Thread : ~Pending(t))
=============================================================================
