------------------------------- MODULE RwLock -------------------------------
(***************************************************************************)
(* The rw-lock of XtraDB (sync0rw.ic, sync0rw.cc), in the build that uses  *)
(* atomic instructions: all that says who has the lock is in lock_word.    *)
(* prio chooses between rw_lock_t and prio_rw_lock_t, whose high priority  *)
(* waiters have counters and events of their own and keep low priority     *)
(* threads from trying.  Failing rounds of the spin loops change nothing   *)
(* and are not steps; the sleeps go through SyncArray.  Every access to a  *)
(* word of the lock is a step of its own, save that the three counters of  *)
(* rw_lock_higher_prio_waiters_exist are read in one.  The steps are       *)
(* sequentially consistent: most updates are locked instructions, hence    *)
(* barriers, and the plain stores (recursive, high_priority_wait_ex_waiter *)
(* and the relock) are those of the one thread that has the lock.          *)
(***************************************************************************)
EXTENDS SyncArray

CONSTANTS Highs,        \* the sets of threads that may have a high priority
          Passing,      \* the threads that x-lock with pass # 0, for a handler
          Handler,      \* the i/o handler threads, which unlock for them
          MaxDepth,     \* bound: how often the owner of an x-lock locks again
          X_LOCK_DECR   \* more than there can be readers

ASSUME RwAssumption ==
    /\ \A h \in Highs : h \subseteq Thread
    /\ Passing \subseteq Thread /\ Handler \subseteq Thread
    /\ Passing \cap Handler = {} /\ (Passing # {} => Handler # {})
    /\ MaxDepth \in Nat \ {0}
    /\ X_LOCK_DECR \in Nat /\ X_LOCK_DECR > Cardinality(Thread)
    /\ Event = {"event", "wait_ex_event", "high_priority_s_event", "high_priority_x_event"}

VARIABLES prio,                           \* whether this is a prio_rw_lock_t
          high,                           \* the threads with srv_current_thread_priority set
          lock_word, waiters,             \* of the lock
          recursive, writer_thread,
          high_priority_s_waiters,        \* of a priority lock
          high_priority_x_waiters,
          high_priority_wait_ex_waiter,
          local_recursive,                \* the local of rw_lock_x_lock_low
          mode,                           \* what each thread asks for: "S" or "X"
          depth,                          \* how many x-locks each thread has
          fresh,                          \* the threads that have a call to make
          reserver                        \* the thread that is setting the x-lock up

highCounts == <<high_priority_s_waiters, high_priority_x_waiters,
                high_priority_wait_ex_waiter>>
build == <<prio, high>>
writer == <<recursive, writer_thread>>
lockVars == <<lock_word, waiters, writer, highCounts>>
own == <<build, local_recursive, mode, depth, fresh, reserver>>
vars == <<arrayVars, pc, lockVars, own>>

\* rw_lock_create_func; writer_thread is not initialised.
Init ==
    /\ ArrayInit
    /\ prio \in BOOLEAN
    /\ high \in IF prio THEN Highs ELSE {{}}
    /\ lock_word = X_LOCK_DECR /\ waiters = 0
    /\ recursive = FALSE /\ writer_thread \in Thread \cup {NONE}
    /\ high_priority_s_waiters = 0 /\ high_priority_x_waiters = 0
    /\ high_priority_wait_ex_waiter = 0
    /\ local_recursive = [t \in Thread |-> FALSE]
    /\ mode = [t \in Thread |-> "S"]
    /\ depth = [t \in Thread |-> 0]
    /\ fresh = Thread \ Handler
    /\ reserver = NONE

high_priority(t) == t \in high

EventOf(t) ==
    IF ~high_priority(t) THEN "event"
    ELSE IF mode[t] = "S" THEN "high_priority_s_event" ELSE "high_priority_x_event"

\* rw_lock_higher_prio_waiters_exist, for thread t.
HigherPrioWaitersExist(t) ==
    /\ prio /\ t \notin high
    /\ \/ high_priority_wait_ex_waiter > 0
       \/ high_priority_s_waiters > 0
       \/ high_priority_x_waiters > 0

\* Thread t has a cell to give back when it gets the lock.
HasCell(t) == \E c \in cells : c.thread = t /\ c.event # "wait_ex_event"

\* The lock is there: give the cell back first, if there is one.
Got(t, hold) ==
    IF HasCell(t)
      THEN Goto(t, "cancel") /\ want' = [want EXCEPT ![t] = EventOf(t)]
      ELSE Goto(t, hold) /\ UNCHANGED want

\* The lock is not there: reserve a cell, or sleep on the one there is.
Failed(t) ==
    IF HasCell(t)
      THEN Goto(t, "asleep") /\ UNCHANGED <<want, tries, count, at>>
      ELSE GotoReserve(t, EventOf(t))

----------------------------------------------------------------------------
(* rw_lock_s_lock_func, rw_lock_s_lock_spin and the beginning of           *)
(* rw_lock_x_lock_func.                                                    *)

\* A call: a shared lock, or an exclusive one.
Call(t) ==
    /\ pc[t] = "idle"
    /\ t \in fresh
    /\ fresh' = fresh \ {t}
    /\ \E m \in {"S", "X"} : mode' = [mode EXCEPT ![t] = m]
    /\ Goto(t, "try")
    /\ UNCHANGED <<arrayVars, lockVars, build, local_recursive, depth, reserver>>

\* The owner of an exclusive lock asks for it once more.
CallAgain(t) ==
    /\ pc[t] = "x_hold"
    /\ t \notin Passing
    /\ depth[t] < MaxDepth
    /\ Goto(t, "try")
    /\ UNCHANGED <<arrayVars, lockVars, own>>

\* A low priority thread does not try while others of high priority wait.
StandBack(t) ==
    /\ pc[t] \in {"try", "s_retry"}
    /\ HigherPrioWaitersExist(t)
    /\ Failed(t)
    /\ UNCHANGED <<eventVars, n_cells, cells, latch, lockVars, own>>

\* Otherwise it goes on to rw_lock_s_lock_low or rw_lock_x_lock_low.
GoOn(t) ==
    /\ pc[t] \in {"try", "s_retry"}
    /\ ~HigherPrioWaitersExist(t)
    /\ Goto(t, IF mode[t] = "S" THEN "s_decr" ELSE "x_low")
    /\ UNCHANGED <<arrayVars, lockVars, own>>

\* rw_lock_lock_word_decr succeeds.
Decr(amount) == lock_word > 0 /\ lock_word' = lock_word - amount

SLockGets(t) ==
    /\ pc[t] = "s_decr"
    /\ Decr(1)
    /\ Got(t, "s_hold")
    /\ UNCHANGED <<eventVars, n_cells, cells, latch, count, at, tries, waiters, writer, highCounts, own>>

\* The local of rw_lock_x_lock_low is gone when it returns.
EndLow(t) == local_recursive' = [local_recursive EXCEPT ![t] = FALSE]

LockFails(t) ==
    /\ \/ pc[t] = "s_decr"
       \/ pc[t] = "x_decr" /\ ~(local_recursive[t] /\ t \notin Passing /\ writer_thread = t)
    /\ lock_word <= 0
    /\ EndLow(t)
    /\ Failed(t)
    /\ UNCHANGED <<eventVars, n_cells, cells, latch, lockVars, build, mode, depth, fresh, reserver>>

\* Mutant: sleep without another try.
SleepAtOnce(t) == "asleep"

\* The lock may have come free since the last try, which saw no waiter: try again.
AfterAnnounce(t) == IF mode[t] = "S" THEN "s_retry" ELSE "x_low"

\* Announce the waiter: its counter, or the waiters flag.
Announce(t) ==
    /\ pc[t] = "reserved"
    /\ want[t] # "wait_ex_event"
    /\ waiters' = IF high_priority(t) THEN waiters ELSE 1
    /\ high_priority_s_waiters' =
          high_priority_s_waiters + (IF want[t] = "high_priority_s_event" THEN 1 ELSE 0)
    /\ high_priority_x_waiters' =
          high_priority_x_waiters + (IF want[t] = "high_priority_x_event" THEN 1 ELSE 0)
    /\ Goto(t, AfterAnnounce(t))
    /\ UNCHANGED <<arrayVars, lock_word, writer, high_priority_wait_ex_waiter, own>>

\* os_atomic_decrement_ulint, of the counter that goes with event e.
Uncounted(t, e) == IF EventOf(t) = e THEN 1 ELSE 0

\* Back from the wait array with the cell for EventOf(t): the counter goes
\* down, then on with the lock, or back to lock_loop.
Retract(t) ==
    /\ pc[t] \in {"cancelled", "freed"}
    /\ reserver # t
    /\ high_priority_s_waiters' =
          high_priority_s_waiters - Uncounted(t, "high_priority_s_event")
    /\ high_priority_x_waiters' =
          high_priority_x_waiters - Uncounted(t, "high_priority_x_event")
    /\ Goto(t, CASE pc[t] = "freed" -> "try"
                 [] pc[t] = "cancelled" /\ mode[t] = "S" -> "s_hold"
                 [] OTHER -> "x_hold")
    /\ UNCHANGED <<arrayVars, lock_word, waiters, writer, high_priority_wait_ex_waiter, own>>

----------------------------------------------------------------------------
(* rw_lock_x_lock_low and rw_lock_x_lock_wait.                             *)

\* local_recursive = lock->recursive
XLow(t) ==
    /\ pc[t] = "x_low"
    /\ local_recursive' = [local_recursive EXCEPT ![t] = recursive]
    /\ Goto(t, "x_decr")
    /\ UNCHANGED <<arrayVars, lockVars, build, mode, depth, fresh, reserver>>

\* The decrement succeeds: t is the writer or the next writer.
XDecr(t) ==
    /\ pc[t] = "x_decr"
    /\ Decr(X_LOCK_DECR)
    /\ reserver' = t
    /\ EndLow(t)
    /\ Goto(t, "x_writer")
    /\ UNCHANGED <<arrayVars, waiters, writer, highCounts, build, mode, depth, fresh>>

\* The owner once more: lock_word is its own, and takes no locked instruction.
Relock(t) ==
    /\ pc[t] = "x_decr"
    /\ lock_word <= 0
    /\ t \notin Passing /\ local_recursive[t] /\ writer_thread = t
    /\ lock_word' = IF lock_word = 0 THEN -X_LOCK_DECR ELSE lock_word - 1
    /\ depth' = [depth EXCEPT ![t] = @ + 1]
    /\ EndLow(t)
    /\ Got(t, "x_hold")
    /\ UNCHANGED <<eventVars, n_cells, cells, latch, count, at, tries, waiters, writer,
                   highCounts, build, mode, fresh, reserver>>

\* rw_lock_x_lock_func_nowait: the lock is free and has no reader to wait for,
\* or the call changes nothing.  What it does for the owner is Relock.
XLockNowait(t) ==
    /\ pc[t] = "idle"
    /\ t \in fresh \ Passing
    /\ lock_word = X_LOCK_DECR
    /\ lock_word' = 0
    /\ fresh' = fresh \ {t}
    /\ mode' = [mode EXCEPT ![t] = "X"]
    /\ depth' = [depth EXCEPT ![t] = 1]
    /\ Goto(t, "x_writer")
    /\ UNCHANGED <<arrayVars, waiters, writer, highCounts, build, local_recursive, reserver>>

\* Mutant: the recursion flag first, the writer's id afterwards.
FlagFirst(t) ==
    \/ /\ pc[t] = "x_writer"
       /\ recursive' = (t \notin Passing)
       /\ UNCHANGED writer_thread
       /\ Goto(t, "x_flag")
    \/ /\ pc[t] = "x_flag"
       /\ writer_thread' = t
       /\ UNCHANGED recursive
       /\ Goto(t, IF reserver = t THEN "x_wait" ELSE "x_hold")

\* rw_lock_set_writer_id_and_recursion_flag: the writer's id first.
WriterThenFlag(t) ==
    \/ /\ pc[t] = "x_writer"
       /\ writer_thread' = t
       /\ UNCHANGED recursive
       /\ Goto(t, "x_flag")
    \/ /\ pc[t] = "x_flag"
       /\ recursive' = (t \notin Passing)
       /\ UNCHANGED writer_thread
       /\ Goto(t, IF reserver = t THEN "x_wait" ELSE "x_hold")

SetWriter(t) ==
    /\ WriterThenFlag(t)
    /\ UNCHANGED <<arrayVars, lock_word, waiters, highCounts, own>>

\* rw_lock_x_lock_wait announces a writer of high priority.
XWaitBegin(t) ==
    /\ pc[t] = "x_wait"
    /\ high_priority_wait_ex_waiter' =
          IF high_priority(t) THEN 1 ELSE high_priority_wait_ex_waiter
    /\ Goto(t, "x_loop")
    /\ UNCHANGED <<arrayVars, lock_word, waiters, writer, high_priority_s_waiters,
                   high_priority_x_waiters, own>>

\* Readers are left, and the spinning has been in vain.
XWaitReserve(t) ==
    /\ \/ pc[t] = "x_loop"
       \/ pc[t] \in {"freed", "cancelled"} /\ reserver = t
    /\ lock_word < 0
    /\ GotoReserve(t, "wait_ex_event")
    /\ UNCHANGED <<eventVars, n_cells, cells, latch, lockVars, own>>

\* Mutant: sleep without a look at the readers.
SleepAnyway(t) == TRUE

\* if (lock->lock_word < 0), after the reservation.
ReadersLeft(t) == lock_word < 0

\* Sleep on wait_ex_event, or give the cell back.
XWaitSleep(t) ==
    /\ pc[t] = "reserved"
    /\ want[t] = "wait_ex_event"
    /\ Goto(t, IF ReadersLeft(t) THEN "asleep" ELSE "cancel")
    /\ UNCHANGED <<arrayVars, lockVars, own>>

\* The last reader has left: the x-lock is complete.
XWaitEnd(t) ==
    /\ \/ pc[t] = "x_loop"
       \/ pc[t] \in {"freed", "cancelled"} /\ reserver = t
    /\ lock_word = 0
    /\ high_priority_wait_ex_waiter' =
          IF high_priority(t) THEN 0 ELSE high_priority_wait_ex_waiter
    /\ depth' = [depth EXCEPT ![t] = 1]
    /\ reserver' = NONE
    /\ Got(t, "x_hold")
    /\ UNCHANGED <<eventVars, n_cells, cells, latch, count, at, tries, lock_word, waiters, writer,
                   high_priority_s_waiters, high_priority_x_waiters, build, local_recursive,
                   mode, fresh>>

\* A lock taken with pass # 0 is given to a handler, which has only to unlock
\* it, or makes it its own by rw_lock_x_lock_move_ownership.
Pass(t, u) ==
    /\ pc[t] = "x_hold" /\ t \in Passing
    /\ pc[u] = "idle" /\ u \in Handler
    /\ depth' = [depth EXCEPT ![t] = 0, ![u] = 1]
    /\ mode' = [mode EXCEPT ![u] = "X"]
    /\ \E move \in BOOLEAN :
          pc' = [pc EXCEPT ![t] = "idle", ![u] = IF move THEN "x_writer" ELSE "x_unlock"]
    /\ UNCHANGED <<arrayVars, lockVars, build, local_recursive, fresh, reserver>>

----------------------------------------------------------------------------
(* rw_lock_s_unlock_func and rw_lock_x_unlock_func.                        *)

\* The last reader sets wait_ex_event when a writer has reserved the lock;
\* of a priority lock it looks for low priority waiters otherwise.
SUnlock(t) ==
    /\ pc[t] = "s_hold"
    /\ lock_word' = lock_word + 1
    /\ Goto(t, CASE lock_word' = 0 -> "set_ex"
                 [] lock_word' = X_LOCK_DECR /\ prio -> "look"
                 [] OTHER -> "idle")
    /\ UNCHANGED <<arrayVars, waiters, writer, highCounts, own>>

\* rw_lock_x_prepare_unlock: the last of the x-locks resets the flag.
XPrepareUnlock(t) ==
    /\ pc[t] \in {"x_hold", "x_unlock"}
    /\ pc[t] = "x_hold" => t \notin Passing
    /\ recursive' = IF lock_word = 0 THEN FALSE ELSE recursive
    /\ Goto(t, "x_incr")
    /\ UNCHANGED <<arrayVars, lock_word, waiters, writer_thread, highCounts, own>>

\* Mutant: one X_LOCK_DECR for each x-lock.
AlwaysDecr == X_LOCK_DECR

\* x_lock_incr
XLockIncr == IF lock_word \in {0, -X_LOCK_DECR} THEN X_LOCK_DECR ELSE 1

\* rw_lock_x_unlock_func.  An owner that has begun to unlock goes on to do so.
XUnlock(t) ==
    /\ pc[t] = "x_incr"
    /\ lock_word' = lock_word + XLockIncr
    /\ depth' = [depth EXCEPT ![t] = @ - 1]
    /\ Goto(t, CASE lock_word' # X_LOCK_DECR -> "x_unlock"
                 [] lock_word' = X_LOCK_DECR /\ prio -> "look_x"
                 [] OTHER -> "look")
    /\ UNCHANGED <<arrayVars, waiters, writer, highCounts, build, local_recursive, mode, fresh, reserver>>

\* High priority waiters first, the writers before the readers.
LookHigh(t) ==
    /\ \/ pc[t] = "look_x" /\ Goto(t, IF high_priority_x_waiters > 0 THEN "set_x" ELSE "look_s")
       \/ pc[t] = "look_s" /\ Goto(t, IF high_priority_s_waiters > 0 THEN "set_s" ELSE "look")
    /\ UNCHANGED <<arrayVars, lockVars, own>>

\* if (lock->waiters)
LookLow(t) ==
    /\ pc[t] = "look"
    /\ Goto(t, IF waiters = 1 THEN "clear" ELSE "idle")
    /\ UNCHANGED <<arrayVars, lockVars, own>>

\* rw_lock_reset_waiter_flag
ResetWaiterFlag(t) ==
    /\ pc[t] = "clear"
    /\ waiters' = 0
    /\ Goto(t, "set")
    /\ UNCHANGED <<arrayVars, lock_word, writer, highCounts, own>>

\* os_event_set
SetEvent(t) ==
    /\ pc[t] \in {"set", "set_s", "set_x", "set_ex"}
    /\ os_event_set(CASE pc[t] = "set" -> "event"
                      [] pc[t] = "set_s" -> "high_priority_s_event"
                      [] pc[t] = "set_x" -> "high_priority_x_event"
                      [] OTHER -> "wait_ex_event")
    /\ Goto(t, "idle")
    /\ UNCHANGED <<n_cells, cells, latch, count, at, tries, want, lockVars, own>>

----------------------------------------------------------------------------

\* What a thread does inside a call, or to leave the lock in the end.
Busy(t) ==
    \/ StandBack(t) \/ GoOn(t) \/ SLockGets(t) \/ LockFails(t) \/ Announce(t)
    \/ Retract(t) \/ XLow(t) \/ XDecr(t) \/ Relock(t) \/ SetWriter(t) \/ XWaitBegin(t)
    \/ XWaitReserve(t) \/ XWaitSleep(t) \/ XWaitEnd(t) \/ SUnlock(t)
    \/ XPrepareUnlock(t) \/ XUnlock(t) \/ LookHigh(t) \/ LookLow(t)
    \/ ResetWaiterFlag(t) \/ SetEvent(t)
    \/ (\E u \in Thread : Pass(t, u))
    \/ ArrayStep(t) /\ UNCHANGED <<lockVars, own>>

Next ==
    \E t \in Thread : Busy(t) \/ Call(t) \/ CallAgain(t) \/ XLockNowait(t)

Spec == Init /\ [][Next]_vars

\* A thread in a call goes on, and gives back what it has locked.
FairSpec == Spec /\ \A t \in Thread : WF_vars(Busy(t))

----------------------------------------------------------------------------
(* Properties.                                                             *)

\* The values of the variables.
TypeOK ==
    /\ ArrayTypeOK
    /\ lock_word \in (-X_LOCK_DECR - MaxDepth) .. X_LOCK_DECR
    /\ waiters \in 0 .. 1
    /\ recursive \in BOOLEAN /\ writer_thread \in Thread \cup {NONE}
    /\ high_priority_s_waiters \in 0 .. Cardinality(high)
    /\ high_priority_x_waiters \in 0 .. Cardinality(high)
    /\ high_priority_wait_ex_waiter \in 0 .. 1
    /\ depth \in [Thread -> 0 .. MaxDepth]
    /\ reserver \in Thread \cup {NONE}

\* The threads that have an s-lock.
Readers ==
    {t \in Thread : mode[t] = "S" /\ pc[t] \in {"s_hold", "cancel", "cancelled"}}

Owners == {t \in Thread : depth[t] > 0}

\* The table at the top of sync0rw.cc: lock_word tells how many readers there
\* are, whether a writer waits for them and how often the owner has locked; an
\* owner is alone.
LockWordTells ==
    LET readers == Cardinality(Readers)
    IN  CASE Owners # {} ->
               /\ readers = 0 /\ reserver = NONE
               /\ \E t \in Owners :
                     /\ Owners = {t}
                     /\ lock_word = IF depth[t] = 1 THEN 0 ELSE 2 - depth[t] - X_LOCK_DECR
          [] reserver # NONE -> lock_word = -readers
          [] OTHER -> lock_word = X_LOCK_DECR - readers

\* While recursive is set writer_thread is the thread that has the x-lock or
\* has reserved it, never an earlier one; and it is not set when a thread has
\* just become the writer (ut_a(!lock->recursive)).
WriterIsValid ==
    /\ recursive => writer_thread \in Owners \cup {reserver}
    /\ \A t \in Thread : pc[t] = "x_writer" => ~recursive

\* A thread inside rw_lock_s_lock or rw_lock_x_lock.
Pending(t) ==
    \/ pc[t] \in {"try", "s_retry", "s_decr", "x_low", "x_decr", "enter", "reset",
                  "reserved", "asleep", "freed"}
    \/ reserver = t

\* Thread t sleeps and has not been signalled.
Sleeps(t) == pc[t] = "asleep" /\ ~Signalled(Cell(t))

At(places) == \E t \in Thread : pc[t] \in places

\* Somebody has the x-lock or is the next to have it; the unlock looks for waiters.
WriterThere == Owners # {} \/ reserver # NONE

\* A thread of high priority asks for the lock and will have it.
HighAsks(modes) == \E t \in high : Pending(t) /\ mode[t] \in modes

\* Somebody is on the way to set event e, or will look for waiters and find one announced.
Covered(e) ==
    \/ e = "wait_ex_event" /\ (At({"set_ex"}) \/ lock_word < 0)
    \/ /\ e = "high_priority_x_event"
       /\ \/ At({"set_x"})
          \/ high_priority_x_waiters > 0 /\ (WriterThere \/ At({"look_x"}))
    \/ /\ e = "high_priority_s_event"
       /\ \/ At({"set_s"})
          \/ /\ high_priority_s_waiters > 0
             /\ WriterThere \/ At({"look_x", "look_s"}) \/ HighAsks({"X"})
    \/ /\ e = "event"
       /\ \/ At({"set"})
          \/ /\ waiters = 1
             /\ \/ WriterThere \/ At({"look_x", "look_s", "look", "clear"})
                \/ HighAsks({"S", "X"})
                \/ prio /\ Readers # {}

\* No lost wake-up: a thread that sleeps on an event of the lock and has not been
\* signalled is not forgotten.  The second try of rw_lock_s_lock_spin and
\* rw_lock_x_lock_func sees a lock that was let go before the announcement; whoever
\* lets it go afterwards finds the waiter announced and sets the event.
NoSleeperForgotten == Aborted \/ \A t \in Thread : Sleeps(t) => Covered(want[t])

\* Every call returns with the lock, without help from the error monitor: no
\* wake-up is lost between the low and the high priority waiters, the readers
\* and the next writer.
EveryCallReturns == (\E t \in Thread : Pending(t)) ~> (\A t \in Thread : ~Pending(t))
=============================================================================
