-------------------------- MODULE SyncMutexProofs ---------------------------
(***************************************************************************)
(* Proofs about SyncMutex for every number of threads, arrays and cells    *)
(* and every choice of high priority threads: the mutex excludes, a thread *)
(* has a cell exactly while it needs one, and no wake-up is lost where the *)
(* release is a barrier.                                                   *)
(***************************************************************************)
EXTENDS SyncMutex, FiniteSetTheorems, TLAPS

\* Where a thread can be.
Place == {"idle", "spin", "enter", "reset", "reserved", "retry", "asleep", "freed", "cancel",
          "cancelled", "hold", "look_high", "look", "clear", "set", "set_high", "aborted"}

\* The places where a thread has a cell.
WithCell == {"reset", "reserved", "retry", "asleep", "cancel"}

TypeInv ==
    /\ ArrayTypeOK
    /\ n_cells \in Nat
    /\ latch \in [Arr -> Thread \cup {NONE}]
    /\ pc \in [Thread -> Place]
    /\ prio \in BOOLEAN /\ fenced \in BOOLEAN
    /\ lock_word \in 0 .. 1 /\ waiters \in 0 .. 1
    /\ high_priority_waiters \in Int
    /\ delayed \in Thread \cup {NONE}
    /\ \A t \in Thread :
          tries[t] \in IF pc[t] \in {"enter", "aborted"} THEN 1 .. NArrays ELSE {0}
    /\ \A t \in Thread : pc[t] \in WithCell \cup {"enter"} => want[t] = EventOf(t)

\* A thread with a cell has one, for the event it wants.
CellInv ==
    /\ \A c \in cells : pc[c.thread] \in WithCell /\ c.event = want[c.thread]
    /\ \A c, d \in cells : c.thread = d.thread => c = d
    /\ \A t \in Thread : pc[t] \in WithCell => \E c \in cells : c.thread = t

\* Thread t has the mutex, or its release is on the way.
Has(t) == Holds(t) \/ delayed = t

\* The word tells whether there is an owner, of which there is only one; a
\* thread whose release is on the way has left; and only a release that is
\* no barrier can be on the way.
OwnerInv ==
    /\ \A t \in Thread : Has(t) => lock_word = 1
    /\ lock_word = 1 => \E t \in Thread : Has(t)
    /\ \A t, u \in Thread : Has(t) /\ Has(u) => t = u
    /\ \A t \in Thread : delayed = t => ~Holds(t)
    /\ fenced => delayed = NONE

\* The high priority threads that are counted in high_priority_waiters.
Counted ==
    {t \in High : prio /\ pc[t] \in {"retry", "asleep", "cancel", "cancelled", "freed"}}

CountInv == high_priority_waiters = Cardinality(Counted)

\* A cell never holds a count that is still to come; and after the event was
\* set the count of every cell is in the past, so that a reset by another
\* thread does not take the signal away.
SignalInv ==
    \A c \in cells :
        /\ c.sig =< signal_count[c.event]
        /\ is_set[c.event] => c.sig < signal_count[c.event]

\* Cell c has not been signalled.
Silent(c) == c.sig = signal_count[c.event]

\* As long as a low priority thread that has announced itself is not
\* signalled, the flag is up or somebody who took it down will set the event.
FlagInv ==
    \A c \in cells :
        pc[c.thread] \in {"retry", "asleep"} /\ c.event = "event" /\ Silent(c) =>
            waiters = 1 \/ \E u \in Thread : pc[u] = "set"

\* Somebody will set event e, or will look for those who wait for it.
Covered(e) == WillSet(e) \/ WillLook(e) \/ (e = "event" /\ HighWaits)

\* NoLostWakeup, said of the cells.
CoverInv ==
    fenced => \A c \in cells : pc[c.thread] = "asleep" /\ Silent(c) => Covered(c.event)

\* A latch was left behind, and the server aborted, only for want of cells.
FullInv ==
    Aborted \/ (\E a \in Arr : latch[a] # NONE) => n_cells < Cardinality(Thread)

----------------------------------------------------------------------------
(* Types.                                                                  *)

LEMMA TypeInit == Init => TypeInv
  BY ArrayAssumption, MutexAssumption
     DEF Init, ArrayInit, TypeInv, ArrayTypeOK, Arr, Place, WithCell

\* The array a thread takes next.
LEMMA NextArray ==
  ASSUME count \in Arr
  PROVE  (count + 1) % NArrays \in Arr
  BY ArrayAssumption DEF Arr

\* The cell of a thread is the only one it has.
LEMMA CellOf ==
  ASSUME TypeInv, CellInv, NEW t \in Thread, pc[t] \in WithCell
  PROVE  /\ Cell(t) \in cells
         /\ Cell(t).thread = t /\ Cell(t).event = want[t]
         /\ \A c \in cells : c.thread = t => c = Cell(t)
  BY DEF CellInv, Cell

\* What the two actions that write cells put there.
LEMMA ReserveEffect ==
  ASSUME TypeInv, CellInv, NEW t \in Thread, ReserveCell(t)
  PROVE  \E new : /\ cells' = cells \cup {new}
                  /\ new.thread = t /\ new.event = want[t] /\ new.sig = 0
                  /\ pc' = [pc EXCEPT ![t] = "reset"]
                  /\ UNCHANGED <<want, is_set, signal_count>>
<1> WITNESS [arr |-> at[t], thread |-> t, event |-> want[t], sig |-> 0]
<1> QED
  BY DEF ReserveCell, Goto, eventVars

LEMMA ResetEffect ==
  ASSUME TypeInv, CellInv, NEW t \in Thread, ResetEvent(t)
  PROVE  \E new : /\ cells' = (cells \ {Cell(t)}) \cup {new}
                  /\ new \in [arr : Arr, thread : Thread, event : Event, sig : Nat]
                  /\ new.thread = t /\ new.event = want[t] /\ new.arr = Cell(t).arr
                  /\ new.sig = signal_count[want[t]] /\ want[t] \in Event
                  /\ pc' = [pc EXCEPT ![t] = "reserved"]
                  /\ is_set' = [is_set EXCEPT ![want[t]] = FALSE]
                  /\ UNCHANGED <<want, signal_count>>
<1> DEFINE old == Cell(t)
           new == [old EXCEPT !.sig = signal_count[want[t]]]
<1>1. /\ old \in [arr : Arr, thread : Thread, event : Event, sig : Nat]
      /\ old.thread = t /\ old.event = want[t]
  BY CellOf DEF ResetEvent, WithCell, TypeInv, ArrayTypeOK
<1>2. /\ cells' = (cells \ {Cell(t)}) \cup {new}
      /\ pc' = [pc EXCEPT ![t] = "reserved"]
      /\ is_set' = [is_set EXCEPT ![want[t]] = FALSE]
      /\ UNCHANGED <<want, signal_count>>
  BY DEF ResetEvent, Goto
<1> HIDE DEF old
<1>3. /\ new \in [arr : Arr, thread : Thread, event : Event, sig : Nat]
      /\ new.thread = t /\ new.event = want[t] /\ new.arr = old.arr
      /\ new.sig = signal_count[want[t]] /\ want[t] \in Event
  BY <1>1 DEF TypeInv, ArrayTypeOK
<1> HIDE DEF new
<1> WITNESS new
<1> QED
  BY <1>2, <1>3 DEF old

LEMMA TypeStep ==
  ASSUME TypeInv, CellInv, Next
  PROVE  TypeInv'
<1> USE ArrayAssumption, MutexAssumption DEF TypeInv, ArrayTypeOK, Goto, words, build,
        arrayVars, eventVars, Place, WithCell, EventOf, high_priority
<1>1. ASSUME NEW t \in Thread, UNCHANGED build, Enter(t) PROVE TypeInv'
  <2>1. CASE TestAndSet(t, "hold")
    BY <1>1, <2>1 DEF Enter, TestAndSet
  <2>2. CASE Goto(t, "spin") /\ UNCHANGED <<arrayVars, words>>
    BY <1>1, <2>2 DEF Enter
  <2> QED
    BY <1>1, <2>1, <2>2 DEF Enter
<1>2. ASSUME NEW t \in Thread, UNCHANGED build, SpinGets(t) PROVE TypeInv'
  BY <1>2 DEF SpinGets, AtLoop, TestAndSet
<1>3. ASSUME NEW t \in Thread, UNCHANGED build, SpinFails(t) PROVE TypeInv'
  BY <1>3, NextArray DEF SpinFails, AtLoop, GotoReserve, GetArray
<1>4. ASSUME NEW t \in Thread, UNCHANGED build, Announce(t) PROVE TypeInv'
  BY <1>4 DEF Announce, SetWaiters
<1>5. ASSUME NEW t \in Thread, UNCHANGED build, RetryGets(t) PROVE TypeInv'
  BY <1>5 DEF RetryGets, TestAndSet
<1>6. ASSUME NEW t \in Thread, UNCHANGED build, RetryFails(t) PROVE TypeInv'
  BY <1>6 DEF RetryFails
<1>7. ASSUME NEW t \in Thread, UNCHANGED build, Retract(t) PROVE TypeInv'
  BY <1>7 DEF Retract
<1>8. ASSUME NEW t \in Thread, UNCHANGED build, ResetLockWord(t) PROVE TypeInv'
  BY <1>8 DEF ResetLockWord
<1>9. ASSUME NEW t \in Thread, UNCHANGED build, Drain(t) PROVE TypeInv'
  BY <1>9 DEF Drain
<1>10. ASSUME NEW t \in Thread, UNCHANGED build, LookHigh(t) PROVE TypeInv'
  BY <1>10 DEF LookHigh
<1>11. ASSUME NEW t \in Thread, UNCHANGED build, LookLow(t) PROVE TypeInv'
  BY <1>11 DEF LookLow
<1>12. ASSUME NEW t \in Thread, UNCHANGED build, ClearWaiters(t) PROVE TypeInv'
  BY <1>12 DEF ClearWaiters
<1>13. ASSUME NEW t \in Thread, UNCHANGED build, SetEvent(t) PROVE TypeInv'
  BY <1>13 DEF SetEvent, os_event_set, CountAfterSet
<1>14. ASSUME NEW t \in Thread, UNCHANGED <<build, words>>, ReserveCell(t) PROVE TypeInv'
  BY <1>14 DEF ReserveCell
<1>15. ASSUME NEW t \in Thread, UNCHANGED <<build, words>>, ReserveFails(t) PROVE TypeInv'
  <2>1. CASE tries[t] < NArrays
    BY <1>15, <2>1, NextArray DEF ReserveFails, GetArray
  <2>2. CASE ~(tries[t] < NArrays)
    BY <1>15, <2>2 DEF ReserveFails
  <2> QED
    BY <2>1, <2>2
<1>16. ASSUME NEW t \in Thread, UNCHANGED <<build, words>>, ResetEvent(t) PROVE TypeInv'
  <2>1. PICK new : /\ cells' = (cells \ {Cell(t)}) \cup {new}
                   /\ new \in [arr : Arr, thread : Thread, event : Event, sig : Nat]
    BY <1>16, ResetEffect
  <2> QED
    BY <1>16, <2>1 DEF ResetEvent
<1>17. ASSUME NEW t \in Thread, UNCHANGED <<build, words>>, WaitEvent(t) PROVE TypeInv'
  BY <1>17 DEF WaitEvent, FreeCell, WithoutCell
<1>18. ASSUME NEW t \in Thread, UNCHANGED <<build, words>>, Cancel(t) PROVE TypeInv'
  BY <1>18 DEF Cancel, FreeCell, WithoutCell
<1>19. ASSUME Monitor PROVE TypeInv'
  BY <1>19 DEF Monitor, os_event_set, CountAfterSet
<1> QED
  BY <1>1, <1>2, <1>3, <1>4, <1>5, <1>6, <1>7, <1>8, <1>9, <1>10, <1>11, <1>12, <1>13,
     <1>14, <1>15, <1>16, <1>17, <1>18, <1>19 DEF Next, ThreadStep, ArrayStep

----------------------------------------------------------------------------
(* Cells.                                                                  *)

LEMMA CellInit == Init => CellInv
  BY DEF Init, ArrayInit, CellInv, WithCell

LEMMA CellStep ==
  ASSUME TypeInv, CellInv, Next
  PROVE  CellInv'
<1> USE MutexAssumption DEF TypeInv, ArrayTypeOK, CellInv, Goto, words, build,
        arrayVars, eventVars, WithCell, Place
<1>1. ASSUME NEW t \in Thread, UNCHANGED build, Enter(t) PROVE CellInv'
  BY <1>1 DEF Enter, TestAndSet
<1>2. ASSUME NEW t \in Thread, UNCHANGED build, SpinGets(t) PROVE CellInv'
  BY <1>2 DEF SpinGets, AtLoop, TestAndSet
<1>3. ASSUME NEW t \in Thread, UNCHANGED build, SpinFails(t) PROVE CellInv'
  BY <1>3 DEF SpinFails, AtLoop, GotoReserve, GetArray
<1>4. ASSUME NEW t \in Thread, UNCHANGED build, Announce(t) PROVE CellInv'
  BY <1>4 DEF Announce, SetWaiters
<1>5. ASSUME NEW t \in Thread, UNCHANGED build, RetryGets(t) PROVE CellInv'
  BY <1>5 DEF RetryGets, TestAndSet
<1>6. ASSUME NEW t \in Thread, UNCHANGED build, RetryFails(t) PROVE CellInv'
  BY <1>6 DEF RetryFails
<1>7. ASSUME NEW t \in Thread, UNCHANGED build, Retract(t) PROVE CellInv'
  BY <1>7 DEF Retract
<1>8. ASSUME NEW t \in Thread, UNCHANGED build, ResetLockWord(t) PROVE CellInv'
  BY <1>8 DEF ResetLockWord
<1>9. ASSUME NEW t \in Thread, UNCHANGED build, Drain(t) PROVE CellInv'
  BY <1>9 DEF Drain
<1>10. ASSUME NEW t \in Thread, UNCHANGED build, LookHigh(t) PROVE CellInv'
  BY <1>10 DEF LookHigh
<1>11. ASSUME NEW t \in Thread, UNCHANGED build, LookLow(t) PROVE CellInv'
  BY <1>11 DEF LookLow
<1>12. ASSUME NEW t \in Thread, UNCHANGED build, ClearWaiters(t) PROVE CellInv'
  BY <1>12 DEF ClearWaiters
<1>13. ASSUME NEW t \in Thread, UNCHANGED build, SetEvent(t) PROVE CellInv'
  BY <1>13 DEF SetEvent, os_event_set, CountAfterSet
<1>14. ASSUME NEW t \in Thread, UNCHANGED <<build, words>>, ReserveCell(t) PROVE CellInv'
  <2>1. PICK new : /\ cells' = cells \cup {new}
                   /\ new.thread = t /\ new.event = want[t]
                   /\ pc' = [pc EXCEPT ![t] = "reset"] /\ want' = want
    BY <1>14, ReserveEffect
  <2>2. \A c \in cells : c.thread \in Thread /\ c.thread # t
    BY <1>14 DEF ReserveCell
  <2> QED
    BY <2>1, <2>2
<1>15. ASSUME NEW t \in Thread, UNCHANGED <<build, words>>, ReserveFails(t) PROVE CellInv'
  BY <1>15 DEF ReserveFails, GetArray
<1>16. ASSUME NEW t \in Thread, UNCHANGED <<build, words>>, ResetEvent(t) PROVE CellInv'
  <2>1. PICK new : /\ cells' = (cells \ {Cell(t)}) \cup {new}
                   /\ new.thread = t /\ new.event = want[t]
                   /\ pc' = [pc EXCEPT ![t] = "reserved"] /\ want' = want
    BY <1>16, ResetEffect
  <2>2. \A c \in cells : c.thread \in Thread /\ (c.thread = t => c = Cell(t))
    BY <1>16, CellOf DEF ResetEvent
  <2> QED
    BY <1>16, <2>1, <2>2 DEF ResetEvent
<1>17. ASSUME NEW t \in Thread, UNCHANGED <<build, words>>, WaitEvent(t) PROVE CellInv'
  BY <1>17, CellOf DEF WaitEvent, FreeCell, WithoutCell
<1>18. ASSUME NEW t \in Thread, UNCHANGED <<build, words>>, Cancel(t) PROVE CellInv'
  BY <1>18, CellOf DEF Cancel, FreeCell, WithoutCell
<1>19. ASSUME Monitor PROVE CellInv'
  BY <1>19 DEF Monitor, os_event_set, CountAfterSet
<1> QED
  BY <1>1, <1>2, <1>3, <1>4, <1>5, <1>6, <1>7, <1>8, <1>9, <1>10, <1>11, <1>12, <1>13,
     <1>14, <1>15, <1>16, <1>17, <1>18, <1>19 DEF Next, ThreadStep, ArrayStep

----------------------------------------------------------------------------
(* Owners.                                                                 *)

LEMMA OwnerInit == Init => OwnerInv
  BY ArrayAssumption DEF Init, ArrayInit, OwnerInv, Has, Holds

LEMMA OwnerStep ==
  ASSUME TypeInv, OwnerInv, Next
  PROVE  OwnerInv'
<1> USE ArrayAssumption DEF TypeInv, OwnerInv, Has, Holds, Goto, words, build, arrayVars, eventVars,
        Place, WasFree
<1>1. ASSUME NEW t \in Thread, UNCHANGED build, Enter(t) PROVE OwnerInv'
  BY <1>1 DEF Enter, TestAndSet
<1>2. ASSUME NEW t \in Thread, UNCHANGED build, SpinGets(t) PROVE OwnerInv'
  BY <1>2 DEF SpinGets, AtLoop, TestAndSet
<1>3. ASSUME NEW t \in Thread, UNCHANGED build, SpinFails(t) PROVE OwnerInv'
  BY <1>3 DEF SpinFails, AtLoop, GotoReserve, GetArray
<1>4. ASSUME NEW t \in Thread, UNCHANGED build, Announce(t) PROVE OwnerInv'
  BY <1>4 DEF Announce, SetWaiters
<1>5. ASSUME NEW t \in Thread, UNCHANGED build, RetryGets(t) PROVE OwnerInv'
  BY <1>5 DEF RetryGets, TestAndSet
<1>6. ASSUME NEW t \in Thread, UNCHANGED build, RetryFails(t) PROVE OwnerInv'
  BY <1>6 DEF RetryFails
<1>7. ASSUME NEW t \in Thread, UNCHANGED build, Retract(t) PROVE OwnerInv'
  BY <1>7 DEF Retract
<1>8. ASSUME NEW t \in Thread, UNCHANGED build, ResetLockWord(t) PROVE OwnerInv'
  BY <1>8 DEF ResetLockWord
<1>9. ASSUME NEW t \in Thread, UNCHANGED build, Drain(t) PROVE OwnerInv'
  BY <1>9 DEF Drain
<1>10. ASSUME NEW t \in Thread, UNCHANGED build, LookHigh(t) PROVE OwnerInv'
  BY <1>10 DEF LookHigh
<1>11. ASSUME NEW t \in Thread, UNCHANGED build, LookLow(t) PROVE OwnerInv'
  BY <1>11 DEF LookLow
<1>12. ASSUME NEW t \in Thread, UNCHANGED build, ClearWaiters(t) PROVE OwnerInv'
  BY <1>12 DEF ClearWaiters
<1>13. ASSUME NEW t \in Thread, UNCHANGED build, SetEvent(t) PROVE OwnerInv'
  BY <1>13 DEF SetEvent, os_event_set, CountAfterSet
<1>14. ASSUME NEW t \in Thread, UNCHANGED <<build, words>>, ReserveCell(t) PROVE OwnerInv'
  BY <1>14 DEF ReserveCell
<1>15. ASSUME NEW t \in Thread, UNCHANGED <<build, words>>, ReserveFails(t) PROVE OwnerInv'
  BY <1>15 DEF ReserveFails, GetArray
<1>16. ASSUME NEW t \in Thread, UNCHANGED <<build, words>>, ResetEvent(t) PROVE OwnerInv'
  BY <1>16 DEF ResetEvent
<1>17. ASSUME NEW t \in Thread, UNCHANGED <<build, words>>, WaitEvent(t) PROVE OwnerInv'
  BY <1>17 DEF WaitEvent, FreeCell, WithoutCell
<1>18. ASSUME NEW t \in Thread, UNCHANGED <<build, words>>, Cancel(t) PROVE OwnerInv'
  BY <1>18 DEF Cancel, FreeCell, WithoutCell
<1>19. ASSUME Monitor PROVE OwnerInv'
  BY <1>19 DEF Monitor, os_event_set, CountAfterSet
<1> QED
  BY <1>1, <1>2, <1>3, <1>4, <1>5, <1>6, <1>7, <1>8, <1>9, <1>10, <1>11, <1>12, <1>13,
     <1>14, <1>15, <1>16, <1>17, <1>18, <1>19 DEF Next, ThreadStep, ArrayStep

----------------------------------------------------------------------------
(* High priority waiters.                                                  *)

LEMMA CountInit == Init => CountInv
<1> SUFFICES ASSUME Init PROVE CountInv
  OBVIOUS
<1>1. Counted = {} /\ high_priority_waiters = 0
  BY MutexAssumption DEF Init, ArrayInit, Counted
<1> QED
  BY <1>1, FS_EmptySet DEF CountInv

LEMMA CountedFinite == IsFiniteSet(Counted) /\ Cardinality(Counted) \in 0 .. Cardinality(High)
  BY ArrayAssumption, MutexAssumption, FS_Subset, FS_CardinalityType DEF Counted

\* The counter follows the set it counts.
LEMMA CountFollows ==
  ASSUME CountInv, NEW t \in Thread,
         \/ Counted' = Counted /\ high_priority_waiters' = high_priority_waiters
         \/ t \notin Counted /\ Counted' = Counted \cup {t}
              /\ high_priority_waiters' = high_priority_waiters + 1
         \/ t \in Counted /\ Counted' = Counted \ {t}
              /\ high_priority_waiters' = high_priority_waiters - 1
  PROVE  CountInv'
  BY CountedFinite, FS_AddElement, FS_RemoveElement DEF CountInv

LEMMA CountStep ==
  ASSUME TypeInv, CountInv, Next
  PROVE  CountInv'
<1> USE MutexAssumption DEF TypeInv, Counted, high_priority, Goto, words, build, arrayVars, eventVars,
        Place
<1>1. ASSUME NEW t \in Thread, UNCHANGED build, Enter(t) PROVE CountInv'
  BY <1>1, CountFollows DEF Enter, TestAndSet
<1>2. ASSUME NEW t \in Thread, UNCHANGED build, SpinGets(t) PROVE CountInv'
  BY <1>2, CountFollows DEF SpinGets, AtLoop, TestAndSet
<1>3. ASSUME NEW t \in Thread, UNCHANGED build, SpinFails(t) PROVE CountInv'
  BY <1>3, CountFollows DEF SpinFails, AtLoop, GotoReserve, GetArray
<1>4. ASSUME NEW t \in Thread, UNCHANGED build, Announce(t) PROVE CountInv'
  BY <1>4, CountFollows DEF Announce, SetWaiters
<1>5. ASSUME NEW t \in Thread, UNCHANGED build, RetryGets(t) PROVE CountInv'
  BY <1>5, CountFollows DEF RetryGets, TestAndSet
<1>6. ASSUME NEW t \in Thread, UNCHANGED build, RetryFails(t) PROVE CountInv'
  BY <1>6, CountFollows DEF RetryFails
<1>7. ASSUME NEW t \in Thread, UNCHANGED build, Retract(t) PROVE CountInv'
  BY <1>7, CountFollows DEF Retract
<1>8. ASSUME NEW t \in Thread, UNCHANGED build, ResetLockWord(t) PROVE CountInv'
  BY <1>8, CountFollows DEF ResetLockWord
<1>9. ASSUME NEW t \in Thread, UNCHANGED build, Drain(t) PROVE CountInv'
  BY <1>9, CountFollows DEF Drain
<1>10. ASSUME NEW t \in Thread, UNCHANGED build, LookHigh(t) PROVE CountInv'
  BY <1>10, CountFollows DEF LookHigh
<1>11. ASSUME NEW t \in Thread, UNCHANGED build, LookLow(t) PROVE CountInv'
  BY <1>11, CountFollows DEF LookLow
<1>12. ASSUME NEW t \in Thread, UNCHANGED build, ClearWaiters(t) PROVE CountInv'
  BY <1>12, CountFollows DEF ClearWaiters
<1>13. ASSUME NEW t \in Thread, UNCHANGED build, SetEvent(t) PROVE CountInv'
  BY <1>13, CountFollows DEF SetEvent, os_event_set, CountAfterSet
<1>14. ASSUME NEW t \in Thread, UNCHANGED <<build, words>>, ReserveCell(t) PROVE CountInv'
  BY <1>14, CountFollows DEF ReserveCell
<1>15. ASSUME NEW t \in Thread, UNCHANGED <<build, words>>, ReserveFails(t) PROVE CountInv'
  BY <1>15, CountFollows DEF ReserveFails, GetArray
<1>16. ASSUME NEW t \in Thread, UNCHANGED <<build, words>>, ResetEvent(t) PROVE CountInv'
  BY <1>16, CountFollows DEF ResetEvent
<1>17. ASSUME NEW t \in Thread, UNCHANGED <<build, words>>, WaitEvent(t) PROVE CountInv'
  BY <1>17, CountFollows DEF WaitEvent, FreeCell, WithoutCell
<1>18. ASSUME NEW t \in Thread, UNCHANGED <<build, words>>, Cancel(t) PROVE CountInv'
  BY <1>18, CountFollows DEF Cancel, FreeCell, WithoutCell
<1>19. ASSUME Monitor PROVE CountInv'
  <2>1. Counted' = Counted
    BY <1>19 DEF Monitor
  <2> HIDE DEF Counted
  <2> QED
    BY <1>19, <2>1 DEF Monitor, CountInv
<1> QED
  BY <1>1, <1>2, <1>3, <1>4, <1>5, <1>6, <1>7, <1>8, <1>9, <1>10, <1>11, <1>12, <1>13,
     <1>14, <1>15, <1>16, <1>17, <1>18, <1>19 DEF Next, ThreadStep, ArrayStep

----------------------------------------------------------------------------
(* Signals.                                                                *)

LEMMA SignalInit == Init => SignalInv
  BY DEF Init, ArrayInit, SignalInv

LEMMA SignalStep ==
  ASSUME TypeInv, CellInv, SignalInv, Next
  PROVE  SignalInv'
<1> USE MutexAssumption DEF TypeInv, ArrayTypeOK, SignalInv, Goto, words, build, arrayVars, eventVars
<1>1. ASSUME NEW t \in Thread, UNCHANGED build, Enter(t) PROVE SignalInv'
  BY <1>1 DEF Enter, TestAndSet
<1>2. ASSUME NEW t \in Thread, UNCHANGED build, SpinGets(t) PROVE SignalInv'
  BY <1>2 DEF SpinGets, AtLoop, TestAndSet
<1>3. ASSUME NEW t \in Thread, UNCHANGED build, SpinFails(t) PROVE SignalInv'
  BY <1>3 DEF SpinFails, AtLoop, GotoReserve, GetArray
<1>4. ASSUME NEW t \in Thread, UNCHANGED build, Announce(t) PROVE SignalInv'
  BY <1>4 DEF Announce, SetWaiters
<1>5. ASSUME NEW t \in Thread, UNCHANGED build, RetryGets(t) PROVE SignalInv'
  BY <1>5 DEF RetryGets, TestAndSet
<1>6. ASSUME NEW t \in Thread, UNCHANGED build, RetryFails(t) PROVE SignalInv'
  BY <1>6 DEF RetryFails
<1>7. ASSUME NEW t \in Thread, UNCHANGED build, Retract(t) PROVE SignalInv'
  BY <1>7 DEF Retract
<1>8. ASSUME NEW t \in Thread, UNCHANGED build, ResetLockWord(t) PROVE SignalInv'
  BY <1>8 DEF ResetLockWord
<1>9. ASSUME NEW t \in Thread, UNCHANGED build, Drain(t) PROVE SignalInv'
  BY <1>9 DEF Drain
<1>10. ASSUME NEW t \in Thread, UNCHANGED build, LookHigh(t) PROVE SignalInv'
  BY <1>10 DEF LookHigh
<1>11. ASSUME NEW t \in Thread, UNCHANGED build, LookLow(t) PROVE SignalInv'
  BY <1>11 DEF LookLow
<1>12. ASSUME NEW t \in Thread, UNCHANGED build, ClearWaiters(t) PROVE SignalInv'
  BY <1>12 DEF ClearWaiters
<1>13. ASSUME NEW t \in Thread, UNCHANGED build, SetEvent(t) PROVE SignalInv'
  BY <1>13 DEF SetEvent, os_event_set, CountAfterSet
<1>14. ASSUME NEW t \in Thread, UNCHANGED <<build, words>>, ReserveCell(t) PROVE SignalInv'
  <2>1. PICK new : /\ cells' = cells \cup {new}
                   /\ new.event = want[t] /\ new.sig = 0
                   /\ UNCHANGED <<is_set, signal_count>>
    BY <1>14, ReserveEffect DEF TypeInv, ArrayTypeOK
  <2>2. want[t] \in Event
    BY <1>14 DEF ReserveCell, WithCell, EventOf
  <2> QED
    BY <2>1, <2>2
<1>15. ASSUME NEW t \in Thread, UNCHANGED <<build, words>>, ReserveFails(t) PROVE SignalInv'
  BY <1>15 DEF ReserveFails, GetArray
<1>16. ASSUME NEW t \in Thread, UNCHANGED <<build, words>>, ResetEvent(t) PROVE SignalInv'
  <2>1. PICK new : /\ cells' = (cells \ {Cell(t)}) \cup {new}
                   /\ new.event = want[t]
                   /\ new.sig = signal_count[want[t]] /\ want[t] \in Event
                   /\ is_set' = [is_set EXCEPT ![want[t]] = FALSE]
                   /\ signal_count' = signal_count
    BY <1>16, ResetEffect DEF TypeInv, ArrayTypeOK
  <2> QED
    BY <2>1
<1>17. ASSUME NEW t \in Thread, UNCHANGED <<build, words>>, WaitEvent(t) PROVE SignalInv'
  BY <1>17 DEF WaitEvent, FreeCell, WithoutCell
<1>18. ASSUME NEW t \in Thread, UNCHANGED <<build, words>>, Cancel(t) PROVE SignalInv'
  BY <1>18 DEF Cancel, FreeCell, WithoutCell
<1>19. ASSUME Monitor PROVE SignalInv'
  BY <1>19 DEF Monitor, os_event_set, CountAfterSet
<1> QED
  BY <1>1, <1>2, <1>3, <1>4, <1>5, <1>6, <1>7, <1>8, <1>9, <1>10, <1>11, <1>12, <1>13,
     <1>14, <1>15, <1>16, <1>17, <1>18, <1>19 DEF Next, ThreadStep, ArrayStep

LEMMA SilentMeansNotSignalled ==
  ASSUME TypeInv, SignalInv, NEW c \in cells
  PROVE  Silent(c) <=> ~Signalled(c)
  BY DEF TypeInv, ArrayTypeOK, SignalInv, Silent, Signalled

\* A cell that is new, or filled anew, is not one on which a thread retries
\* or sleeps.
OldCells ==
    \A c \in cells' : c \in cells \/ pc'[c.thread] \in {"reset", "reserved"}

LEMMA OldCellsStep ==
  ASSUME TypeInv, CellInv, Next
  PROVE  OldCells
<1> USE MutexAssumption DEF TypeInv, ArrayTypeOK, OldCells, Goto, words, build, arrayVars, eventVars
<1>1. ASSUME NEW t \in Thread, UNCHANGED build, Enter(t) PROVE OldCells
  BY <1>1 DEF Enter, TestAndSet
<1>2. ASSUME NEW t \in Thread, UNCHANGED build, SpinGets(t) PROVE OldCells
  BY <1>2 DEF SpinGets, AtLoop, TestAndSet
<1>3. ASSUME NEW t \in Thread, UNCHANGED build, SpinFails(t) PROVE OldCells
  BY <1>3 DEF SpinFails, AtLoop, GotoReserve, GetArray
<1>4. ASSUME NEW t \in Thread, UNCHANGED build, Announce(t) PROVE OldCells
  BY <1>4 DEF Announce, SetWaiters
<1>5. ASSUME NEW t \in Thread, UNCHANGED build, RetryGets(t) PROVE OldCells
  BY <1>5 DEF RetryGets, TestAndSet
<1>6. ASSUME NEW t \in Thread, UNCHANGED build, RetryFails(t) PROVE OldCells
  BY <1>6 DEF RetryFails
<1>7. ASSUME NEW t \in Thread, UNCHANGED build, Retract(t) PROVE OldCells
  BY <1>7 DEF Retract
<1>8. ASSUME NEW t \in Thread, UNCHANGED build, ResetLockWord(t) PROVE OldCells
  BY <1>8 DEF ResetLockWord
<1>9. ASSUME NEW t \in Thread, UNCHANGED build, Drain(t) PROVE OldCells
  BY <1>9 DEF Drain
<1>10. ASSUME NEW t \in Thread, UNCHANGED build, LookHigh(t) PROVE OldCells
  BY <1>10 DEF LookHigh
<1>11. ASSUME NEW t \in Thread, UNCHANGED build, LookLow(t) PROVE OldCells
  BY <1>11 DEF LookLow
<1>12. ASSUME NEW t \in Thread, UNCHANGED build, ClearWaiters(t) PROVE OldCells
  BY <1>12 DEF ClearWaiters
<1>13. ASSUME NEW t \in Thread, UNCHANGED build, SetEvent(t) PROVE OldCells
  BY <1>13 DEF SetEvent, os_event_set, CountAfterSet
<1>14. ASSUME NEW t \in Thread, UNCHANGED <<build, words>>, ReserveCell(t) PROVE OldCells
  <2>1. PICK new : /\ cells' = cells \cup {new} /\ new.thread = t
                   /\ pc' = [pc EXCEPT ![t] = "reset"]
    BY <1>14, ReserveEffect DEF TypeInv, ArrayTypeOK
  <2> QED
    BY <2>1
<1>15. ASSUME NEW t \in Thread, UNCHANGED <<build, words>>, ReserveFails(t) PROVE OldCells
  BY <1>15 DEF ReserveFails, GetArray
<1>16. ASSUME NEW t \in Thread, UNCHANGED <<build, words>>, ResetEvent(t) PROVE OldCells
  <2>1. PICK new : /\ cells' = (cells \ {Cell(t)}) \cup {new} /\ new.thread = t
                   /\ pc' = [pc EXCEPT ![t] = "reserved"]
    BY <1>16, ResetEffect DEF TypeInv, ArrayTypeOK
  <2> QED
    BY <2>1
<1>17. ASSUME NEW t \in Thread, UNCHANGED <<build, words>>, WaitEvent(t) PROVE OldCells
  BY <1>17 DEF WaitEvent, FreeCell, WithoutCell
<1>18. ASSUME NEW t \in Thread, UNCHANGED <<build, words>>, Cancel(t) PROVE OldCells
  BY <1>18 DEF Cancel, FreeCell, WithoutCell
<1>19. ASSUME Monitor PROVE OldCells
  BY <1>19 DEF Monitor, os_event_set, CountAfterSet
<1> QED
  BY <1>1, <1>2, <1>3, <1>4, <1>5, <1>6, <1>7, <1>8, <1>9, <1>10, <1>11, <1>12, <1>13,
     <1>14, <1>15, <1>16, <1>17, <1>18, <1>19 DEF Next, ThreadStep, ArrayStep

\* The count of an event never falls.
CountGrows ==
    \A e \in Event : signal_count'[e] >= signal_count[e]

LEMMA CountGrowsStep ==
  ASSUME TypeInv, Next
  PROVE  CountGrows
<1> USE MutexAssumption DEF TypeInv, ArrayTypeOK, CountGrows, Goto, words, build, arrayVars, eventVars
<1>1. ASSUME NEW t \in Thread, UNCHANGED build, Enter(t) PROVE CountGrows
  BY <1>1 DEF Enter, TestAndSet
<1>2. ASSUME NEW t \in Thread, UNCHANGED build, SpinGets(t) PROVE CountGrows
  BY <1>2 DEF SpinGets, AtLoop, TestAndSet
<1>3. ASSUME NEW t \in Thread, UNCHANGED build, SpinFails(t) PROVE CountGrows
  BY <1>3 DEF SpinFails, AtLoop, GotoReserve, GetArray
<1>4. ASSUME NEW t \in Thread, UNCHANGED build, Announce(t) PROVE CountGrows
  BY <1>4 DEF Announce, SetWaiters
<1>5. ASSUME NEW t \in Thread, UNCHANGED build, RetryGets(t) PROVE CountGrows
  BY <1>5 DEF RetryGets, TestAndSet
<1>6. ASSUME NEW t \in Thread, UNCHANGED build, RetryFails(t) PROVE CountGrows
  BY <1>6 DEF RetryFails
<1>7. ASSUME NEW t \in Thread, UNCHANGED build, Retract(t) PROVE CountGrows
  BY <1>7 DEF Retract
<1>8. ASSUME NEW t \in Thread, UNCHANGED build, ResetLockWord(t) PROVE CountGrows
  BY <1>8 DEF ResetLockWord
<1>9. ASSUME NEW t \in Thread, UNCHANGED build, Drain(t) PROVE CountGrows
  BY <1>9 DEF Drain
<1>10. ASSUME NEW t \in Thread, UNCHANGED build, LookHigh(t) PROVE CountGrows
  BY <1>10 DEF LookHigh
<1>11. ASSUME NEW t \in Thread, UNCHANGED build, LookLow(t) PROVE CountGrows
  BY <1>11 DEF LookLow
<1>12. ASSUME NEW t \in Thread, UNCHANGED build, ClearWaiters(t) PROVE CountGrows
  BY <1>12 DEF ClearWaiters
<1>13. ASSUME NEW t \in Thread, UNCHANGED build, SetEvent(t) PROVE CountGrows
  BY <1>13 DEF SetEvent, os_event_set, CountAfterSet
<1>14. ASSUME NEW t \in Thread, UNCHANGED <<build, words>>, ReserveCell(t) PROVE CountGrows
  BY <1>14 DEF ReserveCell
<1>15. ASSUME NEW t \in Thread, UNCHANGED <<build, words>>, ReserveFails(t) PROVE CountGrows
  BY <1>15 DEF ReserveFails, GetArray
<1>16. ASSUME NEW t \in Thread, UNCHANGED <<build, words>>, ResetEvent(t) PROVE CountGrows
  BY <1>16 DEF ResetEvent
<1>17. ASSUME NEW t \in Thread, UNCHANGED <<build, words>>, WaitEvent(t) PROVE CountGrows
  BY <1>17 DEF WaitEvent, FreeCell, WithoutCell
<1>18. ASSUME NEW t \in Thread, UNCHANGED <<build, words>>, Cancel(t) PROVE CountGrows
  BY <1>18 DEF Cancel, FreeCell, WithoutCell
<1>19. ASSUME Monitor PROVE CountGrows
  BY <1>19 DEF Monitor, os_event_set, CountAfterSet
<1> QED
  BY <1>1, <1>2, <1>3, <1>4, <1>5, <1>6, <1>7, <1>8, <1>9, <1>10, <1>11, <1>12, <1>13,
     <1>14, <1>15, <1>16, <1>17, <1>18, <1>19 DEF Next, ThreadStep, ArrayStep

\* A cell on which a thread retries or sleeps was there before, and was silent
\* if it is silent now.
LEMMA SilentBefore ==
  ASSUME TypeInv, CellInv, SignalInv, Next,
         NEW c \in cells', pc'[c.thread] \in {"retry", "asleep"}, Silent(c)'
  PROVE  c \in cells /\ Silent(c) /\ signal_count'[c.event] = signal_count[c.event]
<1>1. c \in cells
  BY OldCellsStep DEF OldCells
<1>2. c.event \in Event /\ c.sig \in Nat
  BY <1>1 DEF TypeInv, ArrayTypeOK
<1>3. signal_count[c.event] \in Nat /\ signal_count'[c.event] \in Nat
  BY <1>2, TypeStep DEF TypeInv, ArrayTypeOK
<1> QED
  BY <1>1, <1>2, <1>3, CountGrowsStep DEF CountGrows, SignalInv, Silent

----------------------------------------------------------------------------
(* The flag.                                                               *)

LEMMA FlagInit == Init => FlagInv
  BY DEF Init, ArrayInit, FlagInv

\* An event that is set signals every cell that waits for it.
LEMMA SetSignals ==
  ASSUME TypeInv, SignalInv, NEW c \in cells, os_event_set(c.event)
  PROVE  ~(Silent(c) /\ signal_count'[c.event] = signal_count[c.event])
  BY DEF TypeInv, ArrayTypeOK, SignalInv, Silent, os_event_set, CountAfterSet

LEMMA FlagCell ==
  ASSUME TypeInv, CellInv, SignalInv, FlagInv,
         NEW c \in cells, Silent(c), signal_count'[c.event] = signal_count[c.event],
         c.event = "event", pc'[c.thread] \in {"retry", "asleep"}, Next
  PROVE  waiters' = 1 \/ \E u \in Thread : pc'[u] = "set"
<1> USE MutexAssumption DEF TypeInv, ArrayTypeOK, CellInv, FlagInv, Goto, words, build, arrayVars, eventVars,
        EventOf, high_priority, WithCell, Place
<1>1. ASSUME NEW t \in Thread, UNCHANGED build, Enter(t) PROVE waiters' = 1 \/ \E u \in Thread : pc'[u] = "set"
  BY <1>1 DEF Enter, TestAndSet
<1>2. ASSUME NEW t \in Thread, UNCHANGED build, SpinGets(t) PROVE waiters' = 1 \/ \E u \in Thread : pc'[u] = "set"
  BY <1>2 DEF SpinGets, AtLoop, TestAndSet
<1>3. ASSUME NEW t \in Thread, UNCHANGED build, SpinFails(t) PROVE waiters' = 1 \/ \E u \in Thread : pc'[u] = "set"
  BY <1>3 DEF SpinFails, AtLoop, GotoReserve, GetArray
<1>4. ASSUME NEW t \in Thread, UNCHANGED build, Announce(t) PROVE waiters' = 1 \/ \E u \in Thread : pc'[u] = "set"
  BY <1>4 DEF Announce, SetWaiters
<1>5. ASSUME NEW t \in Thread, UNCHANGED build, RetryGets(t) PROVE waiters' = 1 \/ \E u \in Thread : pc'[u] = "set"
  BY <1>5 DEF RetryGets, TestAndSet
<1>6. ASSUME NEW t \in Thread, UNCHANGED build, RetryFails(t) PROVE waiters' = 1 \/ \E u \in Thread : pc'[u] = "set"
  BY <1>6 DEF RetryFails
<1>7. ASSUME NEW t \in Thread, UNCHANGED build, Retract(t) PROVE waiters' = 1 \/ \E u \in Thread : pc'[u] = "set"
  BY <1>7 DEF Retract
<1>8. ASSUME NEW t \in Thread, UNCHANGED build, ResetLockWord(t) PROVE waiters' = 1 \/ \E u \in Thread : pc'[u] = "set"
  BY <1>8 DEF ResetLockWord
<1>9. ASSUME NEW t \in Thread, UNCHANGED build, Drain(t) PROVE waiters' = 1 \/ \E u \in Thread : pc'[u] = "set"
  BY <1>9 DEF Drain
<1>10. ASSUME NEW t \in Thread, UNCHANGED build, LookHigh(t) PROVE waiters' = 1 \/ \E u \in Thread : pc'[u] = "set"
  BY <1>10 DEF LookHigh
<1>11. ASSUME NEW t \in Thread, UNCHANGED build, LookLow(t) PROVE waiters' = 1 \/ \E u \in Thread : pc'[u] = "set"
  BY <1>11 DEF LookLow
<1>12. ASSUME NEW t \in Thread, UNCHANGED build, ClearWaiters(t) PROVE waiters' = 1 \/ \E u \in Thread : pc'[u] = "set"
  BY <1>12 DEF ClearWaiters
<1>13. ASSUME NEW t \in Thread, UNCHANGED build, SetEvent(t) PROVE waiters' = 1 \/ \E u \in Thread : pc'[u] = "set"
  <2>1. CASE pc[t] = "set"
    BY <1>13, <2>1, SetSignals DEF SetEvent
  <2>2. CASE pc[t] = "set_high"
    BY <1>13, <2>2 DEF SetEvent
  <2> QED
    BY <1>13, <2>1, <2>2 DEF SetEvent
<1>14. ASSUME NEW t \in Thread, UNCHANGED <<build, words>>, ReserveCell(t) PROVE waiters' = 1 \/ \E u \in Thread : pc'[u] = "set"
  BY <1>14 DEF ReserveCell
<1>15. ASSUME NEW t \in Thread, UNCHANGED <<build, words>>, ReserveFails(t) PROVE waiters' = 1 \/ \E u \in Thread : pc'[u] = "set"
  BY <1>15 DEF ReserveFails, GetArray
<1>16. ASSUME NEW t \in Thread, UNCHANGED <<build, words>>, ResetEvent(t) PROVE waiters' = 1 \/ \E u \in Thread : pc'[u] = "set"
  BY <1>16 DEF ResetEvent
<1>17. ASSUME NEW t \in Thread, UNCHANGED <<build, words>>, WaitEvent(t) PROVE waiters' = 1 \/ \E u \in Thread : pc'[u] = "set"
  BY <1>17 DEF WaitEvent, FreeCell, WithoutCell
<1>18. ASSUME NEW t \in Thread, UNCHANGED <<build, words>>, Cancel(t) PROVE waiters' = 1 \/ \E u \in Thread : pc'[u] = "set"
  BY <1>18 DEF Cancel, FreeCell, WithoutCell
<1>19. ASSUME Monitor PROVE waiters' = 1 \/ \E u \in Thread : pc'[u] = "set"
  BY <1>19 DEF Monitor, os_event_set, CountAfterSet
<1> QED
  BY <1>1, <1>2, <1>3, <1>4, <1>5, <1>6, <1>7, <1>8, <1>9, <1>10, <1>11, <1>12, <1>13,
     <1>14, <1>15, <1>16, <1>17, <1>18, <1>19 DEF Next, ThreadStep, ArrayStep

LEMMA FlagStep ==
  ASSUME TypeInv, CellInv, SignalInv, FlagInv, Next
  PROVE  FlagInv'
<1> SUFFICES ASSUME NEW c \in cells', pc'[c.thread] \in {"retry", "asleep"},
                    c.event = "event", Silent(c)'
             PROVE  waiters' = 1 \/ \E u \in Thread : pc'[u] = "set"
  BY DEF FlagInv
<1> QED
  BY SilentBefore, FlagCell

----------------------------------------------------------------------------
(* No lost wake-up.                                                        *)

\* A thread in its cell's sleep is a high priority one exactly if its cell is
\* of the event of those.
LEMMA CellPriority ==
  ASSUME TypeInv, CellInv, NEW c \in cells
  PROVE  c.thread \in Thread /\ (c.event = "event" <=> ~high_priority(c.thread))
  BY DEF TypeInv, ArrayTypeOK, CellInv, EventOf

\* The counter is 0 only if there is nobody to count.
LEMMA CounterTells ==
  ASSUME TypeInv, CountInv
  PROVE  /\ \A t \in Counted : high_priority_waiters > 0
         /\ high_priority_waiters # 0 => \E t \in Counted : TRUE
  BY CountedFinite, FS_EmptySet DEF CountInv, TypeInv

LEMMA CounterTellsNext ==
  ASSUME TypeInv, CellInv, CountInv, Next
  PROVE  \A t \in Counted' : high_priority_waiters' > 0
<1>1. high_priority_waiters' = Cardinality(Counted')
  BY CountStep DEF CountInv
<1>2. IsFiniteSet(Counted')
  BY ArrayAssumption, MutexAssumption, FS_Subset DEF Counted
<1> QED
  BY <1>1, <1>2, FS_EmptySet, FS_CardinalityType

\* A word that is not 0, and no release on the way: somebody holds the mutex.
LEMMA SomebodyHolds ==
  ASSUME TypeInv, OwnerInv, fenced, lock_word # 0
  PROVE  \E u \in Thread : Holds(u)
  BY ArrayAssumption DEF TypeInv, OwnerInv, Has

LEMMA CoverLow ==
  ASSUME TypeInv, CellInv, OwnerInv, CountInv, SignalInv, FlagInv, CoverInv, fenced,
         NEW c \in cells, Silent(c), signal_count'[c.event] = signal_count[c.event],
         c.event = "event", pc'[c.thread] = "asleep", Next
  PROVE  Covered("event")'
<1> USE MutexAssumption, CellPriority DEF TypeInv, ArrayTypeOK, CellInv, OwnerInv, CoverInv,
        Covered, WillSet, WillLook, HighWaits, Holds, Has, Goto, words, build, arrayVars, eventVars,
        high_priority, Place
<1>1. ASSUME NEW t \in Thread, UNCHANGED build, Enter(t) PROVE Covered("event")'
  BY <1>1 DEF Enter, TestAndSet
<1>2. ASSUME NEW t \in Thread, UNCHANGED build, SpinGets(t) PROVE Covered("event")'
  BY <1>2 DEF SpinGets, AtLoop, TestAndSet
<1>3. ASSUME NEW t \in Thread, UNCHANGED build, SpinFails(t) PROVE Covered("event")'
  <2>1. PICK h \in Thread : Holds(h)
    BY <1>3, SomebodyHolds DEF SpinFails
  <2>2. h # t /\ pc'[h] = pc[h] /\ waiters' = waiters
    BY <1>3, <2>1 DEF SpinFails, AtLoop, GotoReserve
  <2>3. Covered("event")
    BY <1>3 DEF SpinFails, AtLoop, GotoReserve
  <2>4. CASE WillSet("event")
    BY <1>3, <2>4 DEF SpinFails, AtLoop, GotoReserve
  <2>5. CASE waiters = 1
    BY <2>1, <2>2, <2>5
  <2> QED
    BY <2>3, <2>4, <2>5
<1>4. ASSUME NEW t \in Thread, UNCHANGED build, Announce(t) PROVE Covered("event")'
  BY <1>4 DEF Announce, SetWaiters
<1>5. ASSUME NEW t \in Thread, UNCHANGED build, RetryGets(t) PROVE Covered("event")'
  BY <1>5 DEF RetryGets, TestAndSet
<1>6. ASSUME NEW t \in Thread, UNCHANGED build, RetryFails(t) PROVE Covered("event")'
  <2>1. PICK h \in Thread : Holds(h)
    BY <1>6, SomebodyHolds DEF RetryFails, StillReserved
  <2>2. h # t /\ pc'[h] = pc[h] /\ waiters' = waiters
    BY <1>6, <2>1 DEF RetryFails
  <2>3. waiters = 1 \/ \E u \in Thread : pc[u] = "set"
    BY <1>6 DEF RetryFails, FlagInv
  <2>4. CASE waiters = 1
    BY <2>1, <2>2, <2>4
  <2>5. CASE \E u \in Thread : pc[u] = "set"
    BY <1>6, <2>5 DEF RetryFails
  <2> QED
    BY <2>3, <2>4, <2>5
<1>7. ASSUME NEW t \in Thread, UNCHANGED build, Retract(t) PROVE Covered("event")'
  BY <1>7 DEF Retract
<1>8. ASSUME NEW t \in Thread, UNCHANGED build, ResetLockWord(t) PROVE Covered("event")'
  BY <1>8, SMTT(40) DEF ResetLockWord
<1>9. ASSUME NEW t \in Thread, UNCHANGED build, Drain(t) PROVE Covered("event")'
  BY <1>9 DEF Drain
<1>10. ASSUME NEW t \in Thread, UNCHANGED build, LookHigh(t) PROVE Covered("event")'
  <2>1. CASE high_priority_waiters = 0
    BY <1>10, <2>1 DEF LookHigh
  <2>2. CASE high_priority_waiters # 0
    <3>1. PICK v \in Counted : TRUE
      BY <2>2, CounterTells
    <3>2. /\ v \in Thread /\ v # t /\ pc'[v] = pc[v] /\ waiters' = waiters
          /\ high_priority(v)'
          /\ pc[v] \in {"retry", "asleep", "cancel", "cancelled", "freed"}
      BY <1>10, <3>1 DEF LookHigh, Counted
    <3>3. CASE waiters = 1
      BY <3>2, <3>3
    <3>4. CASE waiters # 1
      BY <1>10, <3>4 DEF LookHigh
    <3> QED
      BY <3>3, <3>4
  <2> QED
    BY <2>1, <2>2
<1>11. ASSUME NEW t \in Thread, UNCHANGED build, LookLow(t) PROVE Covered("event")'
  BY <1>11 DEF LookLow
<1>12. ASSUME NEW t \in Thread, UNCHANGED build, ClearWaiters(t) PROVE Covered("event")'
  BY <1>12 DEF ClearWaiters
<1>13. ASSUME NEW t \in Thread, UNCHANGED build, SetEvent(t) PROVE Covered("event")'
  <2>1. CASE pc[t] = "set"
    BY <1>13, <2>1, SetSignals DEF SetEvent
  <2>2. CASE pc[t] = "set_high"
    BY <1>13, <2>2 DEF SetEvent
  <2> QED
    BY <1>13, <2>1, <2>2 DEF SetEvent
<1>14. ASSUME NEW t \in Thread, UNCHANGED <<build, words>>, ReserveCell(t) PROVE Covered("event")'
  BY <1>14, SMTT(40) DEF ReserveCell
<1>15. ASSUME NEW t \in Thread, UNCHANGED <<build, words>>, ReserveFails(t) PROVE Covered("event")'
  BY <1>15 DEF ReserveFails, GetArray
<1>16. ASSUME NEW t \in Thread, UNCHANGED <<build, words>>, ResetEvent(t) PROVE Covered("event")'
  BY <1>16 DEF ResetEvent
<1>17. ASSUME NEW t \in Thread, UNCHANGED <<build, words>>, WaitEvent(t) PROVE Covered("event")'
  BY <1>17 DEF WaitEvent, FreeCell, WithoutCell
<1>18. ASSUME NEW t \in Thread, UNCHANGED <<build, words>>, Cancel(t) PROVE Covered("event")'
  BY <1>18 DEF Cancel, FreeCell, WithoutCell
<1>19. ASSUME Monitor PROVE Covered("event")'
  BY <1>19 DEF Monitor, os_event_set, CountAfterSet
<1> QED
  BY <1>1, <1>2, <1>3, <1>4, <1>5, <1>6, <1>7, <1>8, <1>9, <1>10, <1>11, <1>12, <1>13,
     <1>14, <1>15, <1>16, <1>17, <1>18, <1>19 DEF Next, ThreadStep, ArrayStep

LEMMA CoverHigh ==
  ASSUME TypeInv, CellInv, OwnerInv, CountInv, SignalInv, FlagInv, CoverInv, fenced,
         NEW c \in cells, Silent(c), signal_count'[c.event] = signal_count[c.event],
         c.event = "high_priority_event", pc'[c.thread] = "asleep",
         high_priority_waiters' > 0, Next
  PROVE  Covered("high_priority_event")'
<1> USE MutexAssumption, CellPriority DEF TypeInv, ArrayTypeOK, CellInv, OwnerInv, CoverInv,
        Covered, WillSet, WillLook, HighWaits, Holds, Has, Goto, words, build, arrayVars, eventVars,
        high_priority, Place
<1>1. ASSUME NEW t \in Thread, UNCHANGED build, Enter(t) PROVE Covered("high_priority_event")'
  BY <1>1 DEF Enter, TestAndSet
<1>2. ASSUME NEW t \in Thread, UNCHANGED build, SpinGets(t) PROVE Covered("high_priority_event")'
  BY <1>2 DEF SpinGets, AtLoop, TestAndSet
<1>3. ASSUME NEW t \in Thread, UNCHANGED build, SpinFails(t) PROVE Covered("high_priority_event")'
  BY <1>3 DEF SpinFails, AtLoop, GotoReserve, GetArray
<1>4. ASSUME NEW t \in Thread, UNCHANGED build, Announce(t) PROVE Covered("high_priority_event")'
  BY <1>4 DEF Announce, SetWaiters
<1>5. ASSUME NEW t \in Thread, UNCHANGED build, RetryGets(t) PROVE Covered("high_priority_event")'
  BY <1>5 DEF RetryGets, TestAndSet
<1>6. ASSUME NEW t \in Thread, UNCHANGED build, RetryFails(t) PROVE Covered("high_priority_event")'
  <2>1. PICK h \in Thread : Holds(h)
    BY <1>6, SomebodyHolds DEF RetryFails, StillReserved
  <2>2. h # t /\ pc'[h] = pc[h]
    BY <1>6, <2>1 DEF RetryFails
  <2> QED
    BY <2>1, <2>2
<1>7. ASSUME NEW t \in Thread, UNCHANGED build, Retract(t) PROVE Covered("high_priority_event")'
  BY <1>7 DEF Retract
<1>8. ASSUME NEW t \in Thread, UNCHANGED build, ResetLockWord(t) PROVE Covered("high_priority_event")'
  BY <1>8 DEF ResetLockWord
<1>9. ASSUME NEW t \in Thread, UNCHANGED build, Drain(t) PROVE Covered("high_priority_event")'
  BY <1>9 DEF Drain
<1>10. ASSUME NEW t \in Thread, UNCHANGED build, LookHigh(t) PROVE Covered("high_priority_event")'
  BY <1>10 DEF LookHigh
<1>11. ASSUME NEW t \in Thread, UNCHANGED build, LookLow(t) PROVE Covered("high_priority_event")'
  BY <1>11 DEF LookLow
<1>12. ASSUME NEW t \in Thread, UNCHANGED build, ClearWaiters(t) PROVE Covered("high_priority_event")'
  BY <1>12 DEF ClearWaiters
<1>13. ASSUME NEW t \in Thread, UNCHANGED build, SetEvent(t) PROVE Covered("high_priority_event")'
  <2>1. CASE pc[t] = "set"
    BY <1>13, <2>1 DEF SetEvent
  <2>2. CASE pc[t] = "set_high"
    BY <1>13, <2>2, SetSignals DEF SetEvent
  <2> QED
    BY <1>13, <2>1, <2>2 DEF SetEvent
<1>14. ASSUME NEW t \in Thread, UNCHANGED <<build, words>>, ReserveCell(t) PROVE Covered("high_priority_event")'
  BY <1>14 DEF ReserveCell
<1>15. ASSUME NEW t \in Thread, UNCHANGED <<build, words>>, ReserveFails(t) PROVE Covered("high_priority_event")'
  BY <1>15 DEF ReserveFails, GetArray
<1>16. ASSUME NEW t \in Thread, UNCHANGED <<build, words>>, ResetEvent(t) PROVE Covered("high_priority_event")'
  BY <1>16 DEF ResetEvent
<1>17. ASSUME NEW t \in Thread, UNCHANGED <<build, words>>, WaitEvent(t) PROVE Covered("high_priority_event")'
  BY <1>17 DEF WaitEvent, FreeCell, WithoutCell
<1>18. ASSUME NEW t \in Thread, UNCHANGED <<build, words>>, Cancel(t) PROVE Covered("high_priority_event")'
  BY <1>18 DEF Cancel, FreeCell, WithoutCell
<1>19. ASSUME Monitor PROVE Covered("high_priority_event")'
  BY <1>19 DEF Monitor, os_event_set, CountAfterSet
<1> QED
  BY <1>1, <1>2, <1>3, <1>4, <1>5, <1>6, <1>7, <1>8, <1>9, <1>10, <1>11, <1>12, <1>13,
     <1>14, <1>15, <1>16, <1>17, <1>18, <1>19 DEF Next, ThreadStep, ArrayStep

LEMMA CoverInit == Init => CoverInv
  BY DEF Init, ArrayInit, CoverInv

LEMMA CoverStep ==
  ASSUME TypeInv, CellInv, OwnerInv, CountInv, SignalInv, FlagInv, CoverInv, Next
  PROVE  CoverInv'
<1> SUFFICES ASSUME fenced', NEW c \in cells', pc'[c.thread] = "asleep", Silent(c)'
             PROVE  Covered(c.event)'
  BY DEF CoverInv
<1>1. c \in cells /\ Silent(c) /\ signal_count'[c.event] = signal_count[c.event]
  BY SilentBefore
<1>2. fenced /\ UNCHANGED prio
  BY DEF Next, ThreadStep, Monitor, build
<1>3. CASE c.event = "event"
  BY <1>1, <1>2, <1>3, CoverLow
<1>4. CASE c.event = "high_priority_event"
  <2>1. c.thread \in Counted'
    BY <1>1, <1>2, <1>4, CellPriority DEF Counted, high_priority
  <2> QED
    BY <1>1, <1>2, <1>4, <2>1, CounterTellsNext, CoverHigh
<1> QED
  BY <1>1, <1>3, <1>4, MutexAssumption DEF TypeInv, ArrayTypeOK

----------------------------------------------------------------------------
(* Want of cells.                                                          *)

LEMMA FullInit == Init => FullInv
  BY DEF Init, ArrayInit, FullInv, Aborted

\* The threads other than t have a cell each at most.
LEMMA CellsOfOthers ==
  ASSUME TypeInv, CellInv, NEW t \in Thread, pc[t] = "enter", NEW a \in Arr
  PROVE  Cardinality({c \in cells : c.arr = a}) \in 0 .. Cardinality(Thread) - 1
<1> DEFINE S == {c \in cells : c.arr = a}
           T == Thread \ {t}
           f == [c \in S |-> c.thread]
<1>1. IsFiniteSet(T) /\ Cardinality(T) = Cardinality(Thread) - 1 /\ Cardinality(Thread) \in Nat
  BY ArrayAssumption, FS_RemoveElement, FS_CardinalityType
<1>2. \A c \in S : c.thread \in T
  BY DEF TypeInv, ArrayTypeOK, CellInv, WithCell
<1>3. f \in Injection(S, T)
  BY <1>2 DEF CellInv, Injection, IsInjective
<1> HIDE DEF S, T, f
<1>4. Cardinality(S) \in Nat /\ Cardinality(S) =< Cardinality(T)
  BY <1>1, <1>3, FS_Injection, FS_CardinalityType DEF ExistsInjection
<1> QED
  BY <1>1, <1>4 DEF S

LEMMA FullStep ==
  ASSUME TypeInv, CellInv, FullInv, Next
  PROVE  FullInv'
<1> USE DEF TypeInv, ArrayTypeOK, FullInv, Aborted, Goto, words, build, arrayVars, eventVars, Place
<1>1. ASSUME NEW t \in Thread, UNCHANGED build, Enter(t) PROVE FullInv'
  BY <1>1 DEF Enter, TestAndSet
<1>2. ASSUME NEW t \in Thread, UNCHANGED build, SpinGets(t) PROVE FullInv'
  BY <1>2 DEF SpinGets, AtLoop, TestAndSet
<1>3. ASSUME NEW t \in Thread, UNCHANGED build, SpinFails(t) PROVE FullInv'
  BY <1>3 DEF SpinFails, AtLoop, GotoReserve, GetArray
<1>4. ASSUME NEW t \in Thread, UNCHANGED build, Announce(t) PROVE FullInv'
  BY <1>4 DEF Announce, SetWaiters
<1>5. ASSUME NEW t \in Thread, UNCHANGED build, RetryGets(t) PROVE FullInv'
  BY <1>5 DEF RetryGets, TestAndSet
<1>6. ASSUME NEW t \in Thread, UNCHANGED build, RetryFails(t) PROVE FullInv'
  BY <1>6 DEF RetryFails
<1>7. ASSUME NEW t \in Thread, UNCHANGED build, Retract(t) PROVE FullInv'
  BY <1>7 DEF Retract
<1>8. ASSUME NEW t \in Thread, UNCHANGED build, ResetLockWord(t) PROVE FullInv'
  BY <1>8 DEF ResetLockWord
<1>9. ASSUME NEW t \in Thread, UNCHANGED build, Drain(t) PROVE FullInv'
  BY <1>9 DEF Drain
<1>10. ASSUME NEW t \in Thread, UNCHANGED build, LookHigh(t) PROVE FullInv'
  BY <1>10 DEF LookHigh
<1>11. ASSUME NEW t \in Thread, UNCHANGED build, LookLow(t) PROVE FullInv'
  BY <1>11 DEF LookLow
<1>12. ASSUME NEW t \in Thread, UNCHANGED build, ClearWaiters(t) PROVE FullInv'
  BY <1>12 DEF ClearWaiters
<1>13. ASSUME NEW t \in Thread, UNCHANGED build, SetEvent(t) PROVE FullInv'
  BY <1>13 DEF SetEvent, os_event_set, CountAfterSet
<1>14. ASSUME NEW t \in Thread, UNCHANGED <<build, words>>, ReserveCell(t) PROVE FullInv'
  BY <1>14 DEF ReserveCell
<1>15. ASSUME NEW t \in Thread, UNCHANGED <<build, words>>, ReserveFails(t) PROVE FullInv'
  <2>1. Cardinality({c \in cells : c.arr = at[t]}) \in 0 .. Cardinality(Thread) - 1
    BY <1>15, CellsOfOthers DEF ReserveFails
  <2>2. Cardinality({c \in cells : c.arr = at[t]}) >= n_cells
    BY <1>15 DEF ReserveFails, Full
  <2>3. Cardinality(Thread) \in Nat
    BY ArrayAssumption, FS_CardinalityType
  <2>4. n_cells < Cardinality(Thread) /\ n_cells' = n_cells
    BY <1>15, <2>1, <2>2, <2>3 DEF ReserveFails
  <2> QED
    BY <2>4
<1>16. ASSUME NEW t \in Thread, UNCHANGED <<build, words>>, ResetEvent(t) PROVE FullInv'
  BY <1>16 DEF ResetEvent
<1>17. ASSUME NEW t \in Thread, UNCHANGED <<build, words>>, WaitEvent(t) PROVE FullInv'
  BY <1>17 DEF WaitEvent, FreeCell, WithoutCell
<1>18. ASSUME NEW t \in Thread, UNCHANGED <<build, words>>, Cancel(t) PROVE FullInv'
  BY <1>18 DEF Cancel, FreeCell, WithoutCell
<1>19. ASSUME Monitor PROVE FullInv'
  BY <1>19 DEF Monitor, os_event_set, CountAfterSet
<1> QED
  BY <1>1, <1>2, <1>3, <1>4, <1>5, <1>6, <1>7, <1>8, <1>9, <1>10, <1>11, <1>12, <1>13,
     <1>14, <1>15, <1>16, <1>17, <1>18, <1>19 DEF Next, ThreadStep, ArrayStep

----------------------------------------------------------------------------
(* The theorems.                                                           *)

\* The inductive invariant.
IInv ==
    /\ TypeInv /\ CellInv /\ OwnerInv /\ CountInv
    /\ SignalInv /\ FlagInv /\ CoverInv /\ FullInv

\* Whatever holds of the variables holds after a step that leaves them alone.
LEMMA Stutter ==
  ASSUME IInv, UNCHANGED vars
  PROVE  IInv'
<1> USE DEF IInv, vars, arrayVars, eventVars, words, build
<1>1. TypeInv' /\ CellInv' /\ OwnerInv'
  BY DEF TypeInv, ArrayTypeOK, CellInv, OwnerInv, EventOf, high_priority, Has, Holds
<1>2. CountInv' /\ SignalInv' /\ FlagInv'
  BY DEF CountInv, Counted, SignalInv, FlagInv, Silent
<1>3. CoverInv' /\ FullInv'
  BY DEF CoverInv, Covered, WillSet, WillLook, HighWaits, Holds, high_priority, Silent, FullInv,
         Aborted
<1> QED
  BY <1>1, <1>2, <1>3

LEMMA Inductive == Spec => []IInv
<1>1. Init => IInv
  BY TypeInit, CellInit, OwnerInit, CountInit, SignalInit, FlagInit, CoverInit, FullInit DEF IInv
<1>2. IInv /\ [Next]_vars => IInv'
  BY TypeStep, CellStep, OwnerStep, CountStep, SignalStep, FlagStep, CoverStep, FullStep, Stutter
     DEF IInv
<1> QED
  BY <1>1, <1>2, PTL DEF Spec

\* The variables have their types; in particular high_priority_waiters, which
\* mutex_spin_wait counts up and down from several threads, never wraps below 0
\* and never exceeds the number of high priority threads.
THEOREM TypeCorrect == Spec => []TypeOK
<1>1. IInv => TypeOK
  BY CountedFinite DEF IInv, TypeInv, CountInv, TypeOK
<1> QED
  BY <1>1, Inductive, PTL

\* mutex_enter_func lets one thread in at a time, and lock_word tells of it,
\* until the store of mutex_reset_lock_word is visible.
THEOREM Exclusion == Spec => []OneOwner
<1>1. IInv => OneOwner
  <2> SUFFICES ASSUME IInv PROVE OneOwner
    OBVIOUS
  <2> DEFINE S == {t \in Thread : Holds(t) \/ delayed = t}
  <2>1. CASE lock_word = 0
    <3>1. S = {}
      BY <2>1 DEF IInv, OwnerInv, Has
    <3> QED
      BY <2>1, <3>1, FS_EmptySet DEF OneOwner
  <2>2. CASE lock_word = 1
    <3>1. PICK t \in Thread : S = {t}
      BY <2>2 DEF IInv, OwnerInv, Has
    <3> QED
      BY <2>2, <3>1, FS_Singleton DEF OneOwner
  <2> QED
    BY <2>1, <2>2 DEF IInv, TypeInv
<1> QED
  BY <1>1, Inductive, PTL

\* sync_array_reserve_cell and sync_array_free_cell: a thread has its one cell
\* from the reservation until the wait or the cancellation ends; so with a cell
\* for every thread no reservation fails, no latch stays locked and
\* ut_a(reserved) holds.
THEOREM CellsExact == Spec => []CellsMatchWaiters
<1>1. IInv => CellsMatchWaiters
  <2> SUFFICES ASSUME IInv PROVE CellsMatchWaiters
    OBVIOUS
  <2>1. ASSUME NEW t \in Thread
        PROVE  Cardinality({c \in cells : c.thread = t}) =
                   IF pc[t] \in WithCell THEN 1 ELSE 0
    <3>1. CASE pc[t] \in WithCell
      <4>1. {c \in cells : c.thread = t} = {Cell(t)}
        BY <3>1, CellOf DEF IInv
      <4> QED
        BY <3>1, <4>1, FS_Singleton
    <3>2. CASE pc[t] \notin WithCell
      <4>1. {c \in cells : c.thread = t} = {}
        BY <3>2 DEF IInv, CellInv
      <4> QED
        BY <3>2, <4>1, FS_EmptySet
    <3> QED
      BY <3>1, <3>2
  <2> QED
    BY <2>1 DEF CellsMatchWaiters, IInv, FullInv, WithCell
<1> QED
  BY <1>1, Inductive, PTL

\* LEMMA 1 of sync0sync.cc: a thread that sleeps in sync_array_wait_event has
\* somebody in mutex_exit_func, or on the way there, who will set its event.
THEOREM Wakeup == Spec => []NoLostWakeup
<1>1. IInv => NoLostWakeup
  <2> SUFFICES ASSUME IInv, fenced, NEW t \in Thread, Sleeps(t)
               PROVE  Covered(want[t])
    BY DEF NoLostWakeup, Covered
  <2>1. Cell(t) \in cells /\ Cell(t).thread = t /\ Cell(t).event = want[t] /\ pc[t] = "asleep"
    BY CellOf DEF IInv, Sleeps, WithCell
  <2>2. Silent(Cell(t))
    BY <2>1, SilentMeansNotSignalled DEF IInv, Sleeps
  <2> QED
    BY <2>1, <2>2 DEF IInv, CoverInv
<1> QED
  BY <1>1, Inductive, PTL
=============================================================================
