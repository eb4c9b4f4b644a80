---------------------------- MODULE RwLockProofs ----------------------------
(***************************************************************************)
(* Proofs about RwLock for every number of threads, arrays and cells: the  *)
(* lock word tells who has the lock, an owner is alone, writer_thread is   *)
(* to be trusted while recursive is set, and no sleeper is forgotten.      *)
(***************************************************************************)
EXTENDS RwLock, FiniteSetTheorems, TLAPS

\* Where a thread can be.
Place == {"idle", "try", "s_retry", "s_decr", "x_low", "x_decr", "enter", "reset", "reserved",
          "asleep", "freed", "cancel", "cancelled", "x_writer", "x_flag", "x_wait", "x_loop",
          "s_hold", "x_hold", "x_unlock", "x_incr", "set_ex", "look", "look_x", "look_s",
          "clear", "set", "set_s", "set_x", "aborted"}

\* In a wait array, on the way to a sleep.
Waiting == {"enter", "reset", "reserved", "asleep"}

\* In a call, before the lock is there.
Calling == Waiting \cup {"try", "x_low", "x_decr", "freed"}

\* Thread t is the next writer.
Reserves(t) == reserver = t

\* Thread t has an x-lock.
Owns(t) == depth[t] > 0

TypeInv ==
    /\ count \in Arr /\ at \in [Thread -> Arr]
    /\ want \in [Thread -> Event \cup {NONE}]
    /\ pc \in [Thread -> Place]
    /\ mode \in [Thread -> {"S", "X"}]
    /\ depth \in [Thread -> 0 .. MaxDepth]
    /\ lock_word \in Int
    /\ recursive \in BOOLEAN /\ writer_thread \in Thread \cup {NONE}
    /\ local_recursive \in [Thread -> BOOLEAN]
    /\ reserver \in Thread \cup {NONE}

\* What the place of a thread says about it.
PlaceInv ==
    \A t \in Thread :
        /\ Reserves(t) => pc[t] \in Waiting \cup {"freed", "cancel", "cancelled", "aborted",
                                        "x_writer", "x_flag", "x_wait", "x_loop"}
        /\ Owns(t) => pc[t] \in Calling \cup {"cancel", "cancelled", "aborted", "x_writer",
                                        "x_flag", "x_hold", "x_unlock", "x_incr"}
        /\ Owns(t) /\ pc[t] \in Calling => depth[t] < MaxDepth
        /\ t \in Passing => depth[t] =< 1
        /\ Reserves(t) \/ Owns(t) => mode[t] = "X"
        /\ pc[t] \in {"s_retry", "s_decr", "s_hold"} => mode[t] = "S"
        /\ pc[t] \in {"x_low", "x_decr"} => mode[t] = "X"
        /\ pc[t] \in {"x_hold", "x_unlock", "x_incr"} => Owns(t)
        /\ pc[t] \in {"x_wait", "x_loop"} => Reserves(t)
        /\ pc[t] \in {"x_writer", "x_flag"} => Owns(t) \/ Reserves(t)
        /\ pc[t] \in {"cancel", "cancelled"} /\ mode[t] = "X" => Owns(t) \/ Reserves(t)

\* The next writer, and nobody else, waits for wait_ex_event.
WantInv ==
    \A t \in Thread :
        /\ pc[t] \in Waiting => (Reserves(t) <=> want[t] = "wait_ex_event")
        /\ want[t] = "wait_ex_event" => Reserves(t) /\ pc[t] \in Waiting \cup {"cancel", "aborted"}

\* The lock word while its owner has d x-locks.
Word(d) == IF d = 1 THEN 0 ELSE 2 - d - X_LOCK_DECR

\* LockWordTells, said of each thread.
WordInv ==
    /\ \A t \in Owners :
          /\ lock_word = Word(depth[t])
          /\ Owners = {t} /\ Readers = {} /\ reserver = NONE
    /\ Owners = {} =>
          lock_word = (IF reserver = NONE THEN X_LOCK_DECR ELSE 0) - Cardinality(Readers)

\* What can be said of the flag and of the writer's id.  In particular a thread
\* that read the flag when it did not have the lock will not find its own id.
WriterInv ==
    /\ recursive => /\ writer_thread \in Thread
                    /\ Owns(writer_thread) \/ Reserves(writer_thread)
    /\ \A t \in Thread :
          /\ pc[t] \in {"x_writer", "x_flag"} => ~recursive
          /\ pc[t] = "x_flag" => writer_thread = t
          /\ t \in Passing /\ (Owns(t) \/ Reserves(t)) => ~recursive
          /\ pc[t] = "x_incr" /\ lock_word = 0 => ~recursive
          /\ pc[t] = "x_decr" /\ local_recursive[t] /\ ~Owns(t) => writer_thread # t

----------------------------------------------------------------------------
(* Types.                                                                  *)

LEMMA DecrPositive == X_LOCK_DECR \in Nat \ {0}
  BY ArrayAssumption, RwAssumption, FS_CardinalityType

LEMMA TypeInit == Init => TypeInv
<1> SUFFICES ASSUME Init PROVE TypeInv
  OBVIOUS
<1>1. 0 \in Arr /\ 0 \in 0 .. MaxDepth /\ X_LOCK_DECR \in Int
  BY ArrayAssumption, RwAssumption DEF Arr
<1> QED
  BY <1>1 DEF Init, ArrayInit, TypeInv, Place

\* The array a thread takes next.
LEMMA NextArray ==
  ASSUME count \in Arr
  PROVE  (count + 1) % NArrays \in Arr
  BY ArrayAssumption DEF Arr

\* A thread waits for an event of the lock, and only the next writer for
\* wait_ex_event.
LEMMA EventOfType ==
  ASSUME NEW t
  PROVE  EventOf(t) \in Event /\ EventOf(t) # "wait_ex_event"
  BY RwAssumption DEF EventOf

LEMMA TypeStep ==
  ASSUME TypeInv, PlaceInv, WriterInv, Next
  PROVE  TypeInv'
<1> USE ArrayAssumption, RwAssumption, NextArray, EventOfType
     DEF TypeInv, PlaceInv, Reserves, Owns, Calling, Waiting, Place,
        Goto, lockVars, own, arrayVars, eventVars, writer, highCounts, build
<1>1. ASSUME NEW t \in Thread, StandBack(t) PROVE TypeInv'
  BY <1>1 DEF StandBack, Failed, GotoReserve, GetArray
<1>2. ASSUME NEW t \in Thread, GoOn(t) PROVE TypeInv'
  BY <1>2 DEF GoOn
<1>3. ASSUME NEW t \in Thread, SLockGets(t) PROVE TypeInv'
  BY <1>3 DEF SLockGets, Decr, Got
<1>4. ASSUME NEW t \in Thread, LockFails(t) PROVE TypeInv'
  BY <1>4 DEF LockFails, EndLow, Failed, GotoReserve, GetArray
<1>5. ASSUME NEW t \in Thread, Announce(t) PROVE TypeInv'
  BY <1>5 DEF Announce, AfterAnnounce
<1>6. ASSUME NEW t \in Thread, Retract(t) PROVE TypeInv'
  BY <1>6 DEF Retract
<1>7. ASSUME NEW t \in Thread, XLow(t) PROVE TypeInv'
  BY <1>7 DEF XLow
<1>8. ASSUME NEW t \in Thread, XDecr(t) PROVE TypeInv'
  BY <1>8 DEF XDecr, Decr, EndLow
<1>9. ASSUME NEW t \in Thread, Relock(t) PROVE TypeInv'
  BY <1>9 DEF Relock, EndLow, Got
<1>10. ASSUME NEW t \in Thread, SetWriter(t) PROVE TypeInv'
  <2>1. (t \notin Passing) \in BOOLEAN
    OBVIOUS
  <2>2. CASE pc[t] = "x_writer"
    BY <1>10, <2>2 DEF SetWriter, WriterThenFlag
  <2>3. CASE pc[t] = "x_flag"
    BY <1>10, <2>1, <2>3 DEF SetWriter, WriterThenFlag
  <2> QED
    BY <1>10, <2>2, <2>3 DEF SetWriter, WriterThenFlag
<1>11. ASSUME NEW t \in Thread, XWaitBegin(t) PROVE TypeInv'
  BY <1>11 DEF XWaitBegin
<1>12. ASSUME NEW t \in Thread, XWaitReserve(t) PROVE TypeInv'
  BY <1>12 DEF XWaitReserve, GotoReserve, GetArray
<1>13. ASSUME NEW t \in Thread, XWaitSleep(t) PROVE TypeInv'
  BY <1>13 DEF XWaitSleep
<1>14. ASSUME NEW t \in Thread, XWaitEnd(t) PROVE TypeInv'
  BY <1>14 DEF XWaitEnd, Got
<1>15. ASSUME NEW t \in Thread, SUnlock(t) PROVE TypeInv'
  BY <1>15 DEF SUnlock
<1>16. ASSUME NEW t \in Thread, XPrepareUnlock(t) PROVE TypeInv'
  BY <1>16 DEF XPrepareUnlock
<1>17. ASSUME NEW t \in Thread, XUnlock(t) PROVE TypeInv'
  BY <1>17 DEF XUnlock, XLockIncr
<1>18. ASSUME NEW t \in Thread, LookHigh(t) PROVE TypeInv'
  BY <1>18 DEF LookHigh
<1>19. ASSUME NEW t \in Thread, LookLow(t) PROVE TypeInv'
  BY <1>19 DEF LookLow
<1>20. ASSUME NEW t \in Thread, ResetWaiterFlag(t) PROVE TypeInv'
  BY <1>20 DEF ResetWaiterFlag
<1>21. ASSUME NEW t \in Thread, SetEvent(t) PROVE TypeInv'
  BY <1>21 DEF SetEvent
<1>22. ASSUME NEW t \in Thread, NEW u \in Thread, Pass(t, u) PROVE TypeInv'
  BY <1>22 DEF Pass
<1>23. ASSUME NEW t \in Thread, Call(t) PROVE TypeInv'
  BY <1>23 DEF Call
<1>24. ASSUME NEW t \in Thread, CallAgain(t) PROVE TypeInv'
  BY <1>24 DEF CallAgain
<1>25. ASSUME NEW t \in Thread, XLockNowait(t) PROVE TypeInv'
  BY <1>25 DEF XLockNowait
<1>26. ASSUME NEW t \in Thread, UNCHANGED <<lockVars, own>>, ReserveCell(t) PROVE TypeInv'
  BY <1>26 DEF ReserveCell
<1>27. ASSUME NEW t \in Thread, UNCHANGED <<lockVars, own>>, ReserveFails(t) PROVE TypeInv'
  BY <1>27 DEF ReserveFails, GetArray
<1>28. ASSUME NEW t \in Thread, UNCHANGED <<lockVars, own>>, ResetEvent(t) PROVE TypeInv'
  BY <1>28 DEF ResetEvent
<1>29. ASSUME NEW t \in Thread, UNCHANGED <<lockVars, own>>, WaitEvent(t) PROVE TypeInv'
  BY <1>29 DEF WaitEvent, FreeCell
<1>30. ASSUME NEW t \in Thread, UNCHANGED <<lockVars, own>>, Cancel(t) PROVE TypeInv'
  BY <1>30 DEF Cancel, FreeCell
<1> QED
  BY <1>1, <1>2, <1>3, <1>4, <1>5, <1>6, <1>7, <1>8, <1>9, <1>10, <1>11,
     <1>12, <1>13, <1>14, <1>15, <1>16, <1>17, <1>18, <1>19, <1>20, <1>21, <1>22,
     <1>23, <1>24, <1>25, <1>26, <1>27, <1>28, <1>29, <1>30 DEF Next, Busy, ArrayStep

----------------------------------------------------------------------------
(* What the lock word says.                                                *)

\* What rw_lock_x_unlock_func makes of the word of an owner with d x-locks.
LEMMA UnlockWord ==
  ASSUME NEW d \in Nat \ {0}, lock_word = Word(d)
  PROVE  /\ lock_word + XLockIncr = IF d = 1 THEN X_LOCK_DECR ELSE Word(d - 1)
         /\ lock_word + XLockIncr = X_LOCK_DECR <=> d = 1
         /\ lock_word = 0 <=> d = 1
<1>1. CASE d = 1
  BY <1>1, DecrPositive DEF Word, XLockIncr
<1>2. CASE d = 2
  BY <1>2, DecrPositive DEF Word, XLockIncr
<1>3. CASE d > 2
  <2>1. lock_word = 2 - d - X_LOCK_DECR /\ XLockIncr = 1
    BY <1>3, DecrPositive DEF Word, XLockIncr
  <2> QED
    BY <1>3, <2>1, DecrPositive DEF Word
<1> QED
  BY <1>1, <1>2, <1>3

\* What rw_lock_x_lock_low makes of it for one x-lock more.
LEMMA RelockWord ==
  ASSUME NEW d \in Nat \ {0}, lock_word = Word(d)
  PROVE  (IF lock_word = 0 THEN -X_LOCK_DECR ELSE lock_word - 1) = Word(d + 1)
  BY DecrPositive DEF Word

LEMMA ReadersFinite == IsFiniteSet(Readers) /\ Cardinality(Readers) \in 0 .. Cardinality(Thread)
  BY ArrayAssumption, FS_Subset, FS_CardinalityType DEF Readers

\* Who takes the lock word below 0 has found it free.
LEMMA WordPositive ==
  ASSUME TypeInv, WordInv, lock_word > 0
  PROVE  Owners = {} /\ reserver = NONE
<1>1. X_LOCK_DECR \in Nat /\ Cardinality(Readers) \in Nat /\ depth \in [Thread -> 0 .. MaxDepth]
  BY RwAssumption, ReadersFinite DEF TypeInv
<1>2. \A t \in Owners : t \in Thread /\ depth[t] > 0
  BY DEF Owners
<1> HIDE DEF Owners
<1> QED
  BY <1>1, <1>2, RwAssumption DEF WordInv, Word

\* A next writer and an owner exclude each other.
LEMMA ReserverOwnsNot ==
  ASSUME TypeInv, WordInv, NEW t \in Thread, Owns(t)
  PROVE  Owners = {t} /\ Readers = {} /\ reserver = NONE /\ lock_word = Word(depth[t])
  BY DEF Owns, Owners, WordInv

\* The owner or next writer is alone.
LEMMA WriterAlone ==
  ASSUME TypeInv, WordInv, NEW t \in Thread, Owns(t) \/ Reserves(t)
  PROVE  \A u \in Thread : Owns(u) \/ Reserves(u) => u = t
  BY ArrayAssumption, ReserverOwnsNot DEF Owns, Reserves, Owners

----------------------------------------------------------------------------
(* Places.                                                                 *)

LEMMA PlaceInit == Init => PlaceInv
  BY ArrayAssumption, SMTT(40) DEF Init, ArrayInit, PlaceInv, Reserves, Owns, Calling, Waiting

LEMMA PlaceStep ==
  ASSUME TypeInv, PlaceInv, WantInv, WordInv, WriterInv, Next
  PROVE  PlaceInv'
<1> USE ArrayAssumption, RwAssumption
     DEF TypeInv, PlaceInv, Reserves, Owns, Calling, Waiting, Place,
        Goto, lockVars, own, arrayVars, eventVars, writer, highCounts, build
<1>1. ASSUME NEW t \in Thread, StandBack(t) PROVE PlaceInv'
  BY <1>1 DEF StandBack, Failed, GotoReserve, GetArray
<1>2. ASSUME NEW t \in Thread, GoOn(t) PROVE PlaceInv'
  BY <1>2 DEF GoOn
<1>3. ASSUME NEW t \in Thread, SLockGets(t) PROVE PlaceInv'
  BY <1>3 DEF SLockGets, Decr, Got
<1>4. ASSUME NEW t \in Thread, LockFails(t) PROVE PlaceInv'
  BY <1>4 DEF LockFails, EndLow, Failed, GotoReserve, GetArray
<1>5. ASSUME NEW t \in Thread, Announce(t) PROVE PlaceInv'
  BY <1>5 DEF Announce, AfterAnnounce, WantInv
<1>6. ASSUME NEW t \in Thread, Retract(t) PROVE PlaceInv'
  BY <1>6 DEF Retract
<1>7. ASSUME NEW t \in Thread, XLow(t) PROVE PlaceInv'
  BY <1>7 DEF XLow
<1>8. ASSUME NEW t \in Thread, XDecr(t) PROVE PlaceInv'
  <2>1. reserver = NONE /\ \A u \in Thread : ~Owns(u)
    BY <1>8, WordPositive, DecrPositive DEF XDecr, XLockNowait, Decr, Owners
  <2> QED
    BY <1>8, <2>1 DEF XDecr, XLockNowait, Decr, EndLow
<1>9. ASSUME NEW t \in Thread, Relock(t) PROVE PlaceInv'
  BY <1>9 DEF Relock, EndLow, Got
<1>10. ASSUME NEW t \in Thread, SetWriter(t) PROVE PlaceInv'
  BY <1>10, ReserverOwnsNot DEF SetWriter, WriterThenFlag
<1>11. ASSUME NEW t \in Thread, XWaitBegin(t) PROVE PlaceInv'
  BY <1>11 DEF XWaitBegin
<1>12. ASSUME NEW t \in Thread, XWaitReserve(t) PROVE PlaceInv'
  BY <1>12, ReserverOwnsNot DEF XWaitReserve, GotoReserve, GetArray
<1>13. ASSUME NEW t \in Thread, XWaitSleep(t) PROVE PlaceInv'
  BY <1>13 DEF XWaitSleep, WantInv
<1>14. ASSUME NEW t \in Thread, XWaitEnd(t) PROVE PlaceInv'
  BY <1>14 DEF XWaitEnd, Got
<1>15. ASSUME NEW t \in Thread, SUnlock(t) PROVE PlaceInv'
  BY <1>15 DEF SUnlock
<1>16. ASSUME NEW t \in Thread, XPrepareUnlock(t) PROVE PlaceInv'
  BY <1>16 DEF XPrepareUnlock
<1>17. ASSUME NEW t \in Thread, XUnlock(t) PROVE PlaceInv'
  <2>1. depth[t] > 0 /\ Owners = {t} /\ reserver = NONE /\ lock_word = Word(depth[t])
    BY <1>17, ReserverOwnsNot DEF XUnlock
  <2>2. lock_word' = X_LOCK_DECR <=> depth[t] = 1
    BY <1>17, <2>1, UnlockWord DEF XUnlock
  <2>3. ASSUME NEW u \in Thread, u # t PROVE ~Owns(u)
    BY <2>1, <2>3 DEF Owners
  <2> QED
    BY <1>17, <2>1, <2>2, <2>3 DEF XUnlock
<1>18. ASSUME NEW t \in Thread, LookHigh(t) PROVE PlaceInv'
  BY <1>18 DEF LookHigh
<1>19. ASSUME NEW t \in Thread, LookLow(t) PROVE PlaceInv'
  BY <1>19 DEF LookLow
<1>20. ASSUME NEW t \in Thread, ResetWaiterFlag(t) PROVE PlaceInv'
  BY <1>20 DEF ResetWaiterFlag
<1>21. ASSUME NEW t \in Thread, SetEvent(t) PROVE PlaceInv'
  BY <1>21 DEF SetEvent
<1>22. ASSUME NEW t \in Thread, NEW u \in Thread, Pass(t, u) PROVE PlaceInv'
  BY <1>22 DEF Pass
<1>23. ASSUME NEW t \in Thread, Call(t) PROVE PlaceInv'
  BY <1>23 DEF Call
<1>24. ASSUME NEW t \in Thread, CallAgain(t) PROVE PlaceInv'
  BY <1>24 DEF CallAgain
<1>25. ASSUME NEW t \in Thread, XLockNowait(t) PROVE PlaceInv'
  <2>1. reserver = NONE /\ \A u \in Thread : ~Owns(u)
    BY <1>25, WordPositive, DecrPositive DEF XDecr, XLockNowait, Decr, Owners
  <2> QED
    BY <1>25, <2>1 DEF XDecr, XLockNowait, Decr, EndLow
<1>26. ASSUME NEW t \in Thread, UNCHANGED <<lockVars, own>>, ReserveCell(t) PROVE PlaceInv'
  BY <1>26 DEF ReserveCell
<1>27. ASSUME NEW t \in Thread, UNCHANGED <<lockVars, own>>, ReserveFails(t) PROVE PlaceInv'
  BY <1>27 DEF ReserveFails, GetArray
<1>28. ASSUME NEW t \in Thread, UNCHANGED <<lockVars, own>>, ResetEvent(t) PROVE PlaceInv'
  BY <1>28 DEF ResetEvent
<1>29. ASSUME NEW t \in Thread, UNCHANGED <<lockVars, own>>, WaitEvent(t) PROVE PlaceInv'
  BY <1>29 DEF WaitEvent, FreeCell
<1>30. ASSUME NEW t \in Thread, UNCHANGED <<lockVars, own>>, Cancel(t) PROVE PlaceInv'
  BY <1>30 DEF Cancel, FreeCell
<1> QED
  BY <1>1, <1>2, <1>3, <1>4, <1>5, <1>6, <1>7, <1>8, <1>9, <1>10, <1>11,
     <1>12, <1>13, <1>14, <1>15, <1>16, <1>17, <1>18, <1>19, <1>20, <1>21, <1>22,
     <1>23, <1>24, <1>25, <1>26, <1>27, <1>28, <1>29, <1>30 DEF Next, Busy, ArrayStep

----------------------------------------------------------------------------
(* The next writer's wait.                                                 *)

LEMMA WantInit == Init => WantInv
  BY ArrayAssumption, RwAssumption DEF Init, ArrayInit, WantInv, Waiting

LEMMA WantStep ==
  ASSUME TypeInv, PlaceInv, WantInv, WordInv, Next
  PROVE  WantInv'
<1> USE ArrayAssumption, RwAssumption, EventOfType
     DEF TypeInv, PlaceInv, WantInv, Reserves, Owns, Calling, Waiting, Place,
        Goto, lockVars, own, arrayVars, eventVars, writer, highCounts, build
<1>1. ASSUME NEW t \in Thread, StandBack(t) PROVE WantInv'
  BY <1>1 DEF StandBack, Failed, GotoReserve, GetArray
<1>2. ASSUME NEW t \in Thread, GoOn(t) PROVE WantInv'
  BY <1>2 DEF GoOn
<1>3. ASSUME NEW t \in Thread, SLockGets(t) PROVE WantInv'
  BY <1>3 DEF SLockGets, Decr, Got
<1>4. ASSUME NEW t \in Thread, LockFails(t) PROVE WantInv'
  BY <1>4 DEF LockFails, EndLow, Failed, GotoReserve, GetArray
<1>5. ASSUME NEW t \in Thread, Announce(t) PROVE WantInv'
  BY <1>5 DEF Announce, AfterAnnounce
<1>6. ASSUME NEW t \in Thread, Retract(t) PROVE WantInv'
  BY <1>6 DEF Retract
<1>7. ASSUME NEW t \in Thread, XLow(t) PROVE WantInv'
  BY <1>7 DEF XLow
<1>8. ASSUME NEW t \in Thread, XDecr(t) PROVE WantInv'
  <2>1. reserver = NONE /\ \A u \in Thread : ~Owns(u)
    BY <1>8, WordPositive, DecrPositive DEF XDecr, XLockNowait, Decr, Owners
  <2> QED
    BY <1>8, <2>1 DEF XDecr, XLockNowait, Decr, EndLow
<1>9. ASSUME NEW t \in Thread, Relock(t) PROVE WantInv'
  BY <1>9 DEF Relock, EndLow, Got
<1>10. ASSUME NEW t \in Thread, SetWriter(t) PROVE WantInv'
  BY <1>10 DEF SetWriter, WriterThenFlag
<1>11. ASSUME NEW t \in Thread, XWaitBegin(t) PROVE WantInv'
  BY <1>11 DEF XWaitBegin
<1>12. ASSUME NEW t \in Thread, XWaitReserve(t) PROVE WantInv'
  BY <1>12 DEF XWaitReserve, GotoReserve, GetArray
<1>13. ASSUME NEW t \in Thread, XWaitSleep(t) PROVE WantInv'
  BY <1>13 DEF XWaitSleep
<1>14. ASSUME NEW t \in Thread, XWaitEnd(t) PROVE WantInv'
  BY <1>14 DEF XWaitEnd, Got
<1>15. ASSUME NEW t \in Thread, SUnlock(t) PROVE WantInv'
  BY <1>15 DEF SUnlock
<1>16. ASSUME NEW t \in Thread, XPrepareUnlock(t) PROVE WantInv'
  BY <1>16 DEF XPrepareUnlock
<1>17. ASSUME NEW t \in Thread, XUnlock(t) PROVE WantInv'
  BY <1>17 DEF XUnlock, XLockIncr
<1>18. ASSUME NEW t \in Thread, LookHigh(t) PROVE WantInv'
  BY <1>18 DEF LookHigh
<1>19. ASSUME NEW t \in Thread, LookLow(t) PROVE WantInv'
  BY <1>19 DEF LookLow
<1>20. ASSUME NEW t \in Thread, ResetWaiterFlag(t) PROVE WantInv'
  BY <1>20 DEF ResetWaiterFlag
<1>21. ASSUME NEW t \in Thread, SetEvent(t) PROVE WantInv'
  BY <1>21 DEF SetEvent
<1>22. ASSUME NEW t \in Thread, NEW u \in Thread, Pass(t, u) PROVE WantInv'
  BY <1>22 DEF Pass
<1>23. ASSUME NEW t \in Thread, Call(t) PROVE WantInv'
  BY <1>23 DEF Call
<1>24. ASSUME NEW t \in Thread, CallAgain(t) PROVE WantInv'
  BY <1>24 DEF CallAgain
<1>25. ASSUME NEW t \in Thread, XLockNowait(t) PROVE WantInv'
  <2>1. reserver = NONE /\ \A u \in Thread : ~Owns(u)
    BY <1>25, WordPositive, DecrPositive DEF XDecr, XLockNowait, Decr, Owners
  <2> QED
    BY <1>25, <2>1 DEF XDecr, XLockNowait, Decr, EndLow
<1>26. ASSUME NEW t \in Thread, UNCHANGED <<lockVars, own>>, ReserveCell(t) PROVE WantInv'
  BY <1>26 DEF ReserveCell
<1>27. ASSUME NEW t \in Thread, UNCHANGED <<lockVars, own>>, ReserveFails(t) PROVE WantInv'
  BY <1>27 DEF ReserveFails, GetArray
<1>28. ASSUME NEW t \in Thread, UNCHANGED <<lockVars, own>>, ResetEvent(t) PROVE WantInv'
  BY <1>28 DEF ResetEvent
<1>29. ASSUME NEW t \in Thread, UNCHANGED <<lockVars, own>>, WaitEvent(t) PROVE WantInv'
  BY <1>29 DEF WaitEvent, FreeCell
<1>30. ASSUME NEW t \in Thread, UNCHANGED <<lockVars, own>>, Cancel(t) PROVE WantInv'
  BY <1>30 DEF Cancel, FreeCell
<1> QED
  BY <1>1, <1>2, <1>3, <1>4, <1>5, <1>6, <1>7, <1>8, <1>9, <1>10, <1>11,
     <1>12, <1>13, <1>14, <1>15, <1>16, <1>17, <1>18, <1>19, <1>20, <1>21, <1>22,
     <1>23, <1>24, <1>25, <1>26, <1>27, <1>28, <1>29, <1>30 DEF Next, Busy, ArrayStep

----------------------------------------------------------------------------
(* The writer.                                                             *)

LEMMA WriterInit == Init => WriterInv
  BY ArrayAssumption, RwAssumption DEF Init, ArrayInit, WriterInv, Reserves, Owns

LEMMA WriterStep ==
  ASSUME TypeInv, PlaceInv, WantInv, WordInv, WriterInv, Next
  PROVE  WriterInv'
<1> USE ArrayAssumption, RwAssumption
     DEF TypeInv, PlaceInv, WriterInv, Reserves, Owns, Calling, Waiting, Place,
        Goto, lockVars, own, arrayVars, eventVars, writer, highCounts, build
<1>1. ASSUME NEW t \in Thread, StandBack(t) PROVE WriterInv'
  BY <1>1 DEF StandBack, Failed, GotoReserve, GetArray
<1>2. ASSUME NEW t \in Thread, GoOn(t) PROVE WriterInv'
  BY <1>2 DEF GoOn
<1>3. ASSUME NEW t \in Thread, SLockGets(t) PROVE WriterInv'
  <2>1. \A u \in Thread : ~Owns(u)
    BY <1>3, WordPositive DEF SLockGets, Decr, Owners
  <2> QED
    BY <1>3, <2>1 DEF SLockGets, Decr, Got
<1>4. ASSUME NEW t \in Thread, LockFails(t) PROVE WriterInv'
  BY <1>4 DEF LockFails, EndLow, Failed, GotoReserve, GetArray
<1>5. ASSUME NEW t \in Thread, Announce(t) PROVE WriterInv'
  BY <1>5 DEF Announce, AfterAnnounce
<1>6. ASSUME NEW t \in Thread, Retract(t) PROVE WriterInv'
  BY <1>6 DEF Retract
<1>7. ASSUME NEW t \in Thread, XLow(t) PROVE WriterInv'
  BY <1>7 DEF XLow
<1>8. ASSUME NEW t \in Thread, XDecr(t) PROVE WriterInv'
  <2>1. reserver = NONE /\ \A u \in Thread : ~Owns(u)
    BY <1>8, WordPositive, DecrPositive DEF XDecr, XLockNowait, Decr, Owners
  <2> QED
    BY <1>8, <2>1 DEF XDecr, XLockNowait, Decr, EndLow
<1>9. ASSUME NEW t \in Thread, Relock(t) PROVE WriterInv'
  BY <1>9 DEF Relock, EndLow, Got
<1>10. ASSUME NEW t \in Thread, SetWriter(t) PROVE WriterInv'
  <2>1. \A u \in Thread : Owns(u) \/ Reserves(u) => u = t
    BY <1>10, WriterAlone DEF SetWriter, WriterThenFlag
  <2>2. (t \notin Passing) \in BOOLEAN
    OBVIOUS
  <2>3. CASE pc[t] = "x_writer"
    BY <1>10, <2>1, <2>3 DEF SetWriter, WriterThenFlag
  <2>4. CASE pc[t] = "x_flag"
    BY <1>10, <2>1, <2>2, <2>4 DEF SetWriter, WriterThenFlag
  <2> QED
    BY <1>10, <2>3, <2>4 DEF SetWriter, WriterThenFlag
<1>11. ASSUME NEW t \in Thread, XWaitBegin(t) PROVE WriterInv'
  BY <1>11 DEF XWaitBegin
<1>12. ASSUME NEW t \in Thread, XWaitReserve(t) PROVE WriterInv'
  BY <1>12 DEF XWaitReserve, GotoReserve, GetArray
<1>13. ASSUME NEW t \in Thread, XWaitSleep(t) PROVE WriterInv'
  BY <1>13 DEF XWaitSleep
<1>14. ASSUME NEW t \in Thread, XWaitEnd(t) PROVE WriterInv'
  BY <1>14 DEF XWaitEnd, Got
<1>15. ASSUME NEW t \in Thread, SUnlock(t) PROVE WriterInv'
  <2>1. \A u \in Thread : ~Owns(u)
    BY <1>15, ReserverOwnsNot DEF SUnlock, Readers
  <2> QED
    BY <1>15, <2>1 DEF SUnlock
<1>16. ASSUME NEW t \in Thread, XPrepareUnlock(t) PROVE WriterInv'
  BY <1>16 DEF XPrepareUnlock
<1>17. ASSUME NEW t \in Thread, XUnlock(t) PROVE WriterInv'
  <2>1. depth[t] > 0 /\ lock_word = Word(depth[t]) /\ \A u \in Thread : Owns(u) => u = t
    BY <1>17, ReserverOwnsNot DEF XUnlock, Owners
  <2>2. lock_word = 0 <=> depth[t] = 1
    BY <2>1, UnlockWord
  <2>3. reserver = NONE
    BY <2>1, ReserverOwnsNot
  <2> QED
    BY <1>17, <2>1, <2>2, <2>3 DEF XUnlock
<1>18. ASSUME NEW t \in Thread, LookHigh(t) PROVE WriterInv'
  BY <1>18 DEF LookHigh
<1>19. ASSUME NEW t \in Thread, LookLow(t) PROVE WriterInv'
  BY <1>19 DEF LookLow
<1>20. ASSUME NEW t \in Thread, ResetWaiterFlag(t) PROVE WriterInv'
  BY <1>20 DEF ResetWaiterFlag
<1>21. ASSUME NEW t \in Thread, SetEvent(t) PROVE WriterInv'
  BY <1>21 DEF SetEvent
<1>22. ASSUME NEW t \in Thread, NEW u \in Thread, Pass(t, u) PROVE WriterInv'
  BY <1>22 DEF Pass
<1>23. ASSUME NEW t \in Thread, Call(t) PROVE WriterInv'
  BY <1>23 DEF Call
<1>24. ASSUME NEW t \in Thread, CallAgain(t) PROVE WriterInv'
  BY <1>24 DEF CallAgain
<1>25. ASSUME NEW t \in Thread, XLockNowait(t) PROVE WriterInv'
  <2>1. reserver = NONE /\ \A u \in Thread : ~Owns(u)
    BY <1>25, WordPositive, DecrPositive DEF XDecr, XLockNowait, Decr, Owners
  <2> QED
    BY <1>25, <2>1 DEF XDecr, XLockNowait, Decr, EndLow
<1>26. ASSUME NEW t \in Thread, UNCHANGED <<lockVars, own>>, ReserveCell(t) PROVE WriterInv'
  BY <1>26 DEF ReserveCell
<1>27. ASSUME NEW t \in Thread, UNCHANGED <<lockVars, own>>, ReserveFails(t) PROVE WriterInv'
  BY <1>27 DEF ReserveFails, GetArray
<1>28. ASSUME NEW t \in Thread, UNCHANGED <<lockVars, own>>, ResetEvent(t) PROVE WriterInv'
  BY <1>28 DEF ResetEvent
<1>29. ASSUME NEW t \in Thread, UNCHANGED <<lockVars, own>>, WaitEvent(t) PROVE WriterInv'
  BY <1>29 DEF WaitEvent, FreeCell
<1>30. ASSUME NEW t \in Thread, UNCHANGED <<lockVars, own>>, Cancel(t) PROVE WriterInv'
  BY <1>30 DEF Cancel, FreeCell
<1> QED
  BY <1>1, <1>2, <1>3, <1>4, <1>5, <1>6, <1>7, <1>8, <1>9, <1>10, <1>11,
     <1>12, <1>13, <1>14, <1>15, <1>16, <1>17, <1>18, <1>19, <1>20, <1>21, <1>22,
     <1>23, <1>24, <1>25, <1>26, <1>27, <1>28, <1>29, <1>30 DEF Next, Busy, ArrayStep

----------------------------------------------------------------------------
(* The lock word.                                                          *)

LEMMA WordInit == Init => WordInv
<1> SUFFICES ASSUME Init PROVE WordInv
  OBVIOUS
<1>1. Owners = {} /\ Readers = {} /\ lock_word = X_LOCK_DECR /\ reserver = NONE
  BY DEF Init, ArrayInit, Owners, Readers
<1> QED
  BY <1>1, FS_EmptySet, DecrPositive DEF WordInv

\* A step that moves nobody in or out of the lock.
LEMMA WordKept ==
  ASSUME WordInv, Readers' = Readers, UNCHANGED <<lock_word, depth, reserver>>
  PROVE  WordInv'
<1>1. Owners' = Owners
  BY DEF Owners
<1> QED
  BY <1>1 DEF WordInv, Word

\* The word of an owner, of a next writer and of a lock without either.
LEMMA WordOfOwner ==
  ASSUME NEW t \in Thread, Owners' = {t}, Readers' = {}, reserver' = NONE,
         lock_word' = Word(depth'[t])
  PROVE  WordInv'
  BY DEF WordInv, Word

LEMMA WordOfOthers ==
  ASSUME Owners' = {},
         lock_word' = (IF reserver' = NONE THEN X_LOCK_DECR ELSE 0) - Cardinality(Readers')
  PROVE  WordInv'
  BY DEF WordInv

LEMMA WordStep ==
  ASSUME TypeInv, PlaceInv, WantInv, WordInv, WriterInv, Next
  PROVE  WordInv'
<1> USE ArrayAssumption, RwAssumption
     DEF TypeInv, PlaceInv, Reserves, Owns, Calling, Waiting, Place,
        Goto, lockVars, own, arrayVars, eventVars, writer, highCounts, build
<1>1. ASSUME NEW t \in Thread, StandBack(t) PROVE WordInv'
  <2>1. Readers' = Readers
    BY <1>1 DEF StandBack, Failed, GotoReserve, GetArray, Readers
  <2> QED
    BY <1>1, <2>1, WordKept DEF StandBack, Failed, GotoReserve, GetArray
<1>2. ASSUME NEW t \in Thread, GoOn(t) PROVE WordInv'
  <2>1. Readers' = Readers
    BY <1>2 DEF GoOn, Readers
  <2> QED
    BY <1>2, <2>1, WordKept DEF GoOn
<1>3. ASSUME NEW t \in Thread, SLockGets(t) PROVE WordInv'
  <2>1. Owners = {} /\ reserver = NONE
    BY <1>3, WordPositive DEF SLockGets, Decr
  <2>2. Owners' = {} /\ reserver' = NONE
    BY <1>3, <2>1 DEF SLockGets, Owners
  <2>3. t \notin Readers /\ Readers' = Readers \cup {t}
    BY <1>3 DEF SLockGets, Got, Readers
  <2>4. lock_word' = lock_word - 1
    BY <1>3 DEF SLockGets, Decr
  <2>5. Cardinality(Readers') = Cardinality(Readers) + 1
    BY <2>3, ReadersFinite, FS_AddElement
  <2> QED
    BY <2>1, <2>2, <2>4, <2>5, WordOfOthers, ReadersFinite, DecrPositive DEF WordInv
<1>4. ASSUME NEW t \in Thread, LockFails(t) PROVE WordInv'
  <2>1. Readers' = Readers
    BY <1>4 DEF LockFails, EndLow, Failed, GotoReserve, GetArray, Readers
  <2> QED
    BY <1>4, <2>1, WordKept DEF LockFails, EndLow, Failed, GotoReserve, GetArray
<1>5. ASSUME NEW t \in Thread, Announce(t) PROVE WordInv'
  <2>1. Readers' = Readers
    BY <1>5 DEF Announce, AfterAnnounce, Readers
  <2> QED
    BY <1>5, <2>1, WordKept DEF Announce, AfterAnnounce
<1>6. ASSUME NEW t \in Thread, Retract(t) PROVE WordInv'
  <2>1. Readers' = Readers
    BY <1>6 DEF Retract, Readers
  <2> QED
    BY <1>6, <2>1, WordKept DEF Retract
<1>7. ASSUME NEW t \in Thread, XLow(t) PROVE WordInv'
  <2>1. Readers' = Readers
    BY <1>7 DEF XLow, Readers
  <2> QED
    BY <1>7, <2>1, WordKept DEF XLow
<1>8. ASSUME NEW t \in Thread, XDecr(t) PROVE WordInv'
  <2>1. Owners = {} /\ reserver = NONE
    BY <1>8, WordPositive DEF XDecr, Decr
  <2>2. Owners' = {} /\ reserver' # NONE /\ Readers' = Readers
    BY <1>8, <2>1 DEF XDecr, Owners, Readers
  <2>3. lock_word' = lock_word - X_LOCK_DECR
    BY <1>8 DEF XDecr, Decr
  <2> QED
    BY <2>1, <2>2, <2>3, WordOfOthers, ReadersFinite, DecrPositive DEF WordInv
<1>9. ASSUME NEW t \in Thread, Relock(t) PROVE WordInv'
  <2>1. Owns(t)
    BY <1>9 DEF Relock, WriterInv
  <2>2. Owners = {t} /\ Readers = {} /\ reserver = NONE /\ lock_word = Word(depth[t])
    BY <2>1, ReserverOwnsNot
  <2>3. Readers' = {} /\ reserver' = NONE
    BY <1>9, <2>2 DEF Relock, Got, Readers
  <2>4. depth'[t] = depth[t] + 1 /\ Owners' = {t}
    BY <1>9, <2>2 DEF Relock, Owners
  <2>5. lock_word' = Word(depth'[t])
    BY <1>9, <2>1, <2>2, <2>4, RelockWord DEF Relock
  <2> QED
    BY <2>3, <2>4, <2>5, WordOfOwner
<1>10. ASSUME NEW t \in Thread, SetWriter(t) PROVE WordInv'
  <2>1. Readers' = Readers
    BY <1>10 DEF SetWriter, WriterThenFlag, Readers
  <2> QED
    BY <1>10, <2>1, WordKept DEF SetWriter, WriterThenFlag
<1>11. ASSUME NEW t \in Thread, XWaitBegin(t) PROVE WordInv'
  <2>1. Readers' = Readers
    BY <1>11 DEF XWaitBegin, Readers
  <2> QED
    BY <1>11, <2>1, WordKept DEF XWaitBegin
<1>12. ASSUME NEW t \in Thread, XWaitReserve(t) PROVE WordInv'
  <2>1. Readers' = Readers
    BY <1>12 DEF XWaitReserve, GotoReserve, GetArray, Readers
  <2> QED
    BY <1>12, <2>1, WordKept DEF XWaitReserve, GotoReserve, GetArray
<1>13. ASSUME NEW t \in Thread, XWaitSleep(t) PROVE WordInv'
  <2>1. Readers' = Readers
    BY <1>13 DEF XWaitSleep, WantInv, Readers
  <2> QED
    BY <1>13, <2>1, WordKept DEF XWaitSleep
<1>14. ASSUME NEW t \in Thread, XWaitEnd(t) PROVE WordInv'
  <2>1. reserver = t /\ lock_word = 0
    BY <1>14 DEF XWaitEnd
  <2>2. Owners = {}
    BY <1>14, <2>1, ReserverOwnsNot DEF Owners
  <2>3. Readers = {}
    BY <1>14, <2>1, <2>2, ReadersFinite, FS_EmptySet DEF WordInv
  <2>4. Readers' = {} /\ reserver' = NONE
    BY <1>14, <2>1, <2>3 DEF XWaitEnd, Got, Readers
  <2>5. depth'[t] = 1 /\ Owners' = {t} /\ lock_word' = 0
    BY <1>14, <2>1, <2>2 DEF XWaitEnd, Owners
  <2> QED
    BY <2>4, <2>5, WordOfOwner DEF Word
<1>15. ASSUME NEW t \in Thread, SUnlock(t) PROVE WordInv'
  <2>1. t \in Readers /\ Readers' = Readers \ {t}
    BY <1>15 DEF SUnlock, Readers
  <2>2. Owners = {} /\ Owners' = {}
    BY <1>15, <2>1, ReserverOwnsNot DEF SUnlock, Owners
  <2>3. lock_word' = lock_word + 1 /\ reserver' = reserver
    BY <1>15 DEF SUnlock
  <2>4. Cardinality(Readers') = Cardinality(Readers) - 1
    BY <2>1, ReadersFinite, FS_RemoveElement
  <2> QED
    BY <2>2, <2>3, <2>4, WordOfOthers, ReadersFinite, DecrPositive DEF WordInv
<1>16. ASSUME NEW t \in Thread, XPrepareUnlock(t) PROVE WordInv'
  <2>1. Readers' = Readers
    BY <1>16 DEF XPrepareUnlock, Readers
  <2> QED
    BY <1>16, <2>1, WordKept DEF XPrepareUnlock
<1>17. ASSUME NEW t \in Thread, XUnlock(t) PROVE WordInv'
  <2>1. Owners = {t} /\ Readers = {} /\ reserver = NONE /\ lock_word = Word(depth[t])
    BY <1>17, ReserverOwnsNot DEF XUnlock
  <2>2. Readers' = {} /\ reserver' = NONE /\ depth'[t] = depth[t] - 1
    BY <1>17, <2>1 DEF XUnlock, Readers
  <2>3. depth[t] \in Nat \ {0} /\ lock_word' = lock_word + XLockIncr
    BY <1>17 DEF XUnlock
  <2>4. CASE depth[t] = 1
    <3>1. Owners' = {}
      BY <1>17, <2>1, <2>2, <2>4 DEF XUnlock, Owners
    <3> QED
      BY <2>1, <2>2, <2>3, <2>4, <3>1, UnlockWord, WordOfOthers, FS_EmptySet, DecrPositive
  <2>5. CASE depth[t] # 1
    <3>1. Owners' = {t}
      BY <1>17, <2>1, <2>2, <2>3, <2>5 DEF XUnlock, Owners
    <3> QED
      BY <2>1, <2>2, <2>3, <2>5, <3>1, UnlockWord, WordOfOwner
  <2> QED
    BY <2>4, <2>5
<1>18. ASSUME NEW t \in Thread, LookHigh(t) PROVE WordInv'
  <2>1. Readers' = Readers
    BY <1>18 DEF LookHigh, Readers
  <2> QED
    BY <1>18, <2>1, WordKept DEF LookHigh
<1>19. ASSUME NEW t \in Thread, LookLow(t) PROVE WordInv'
  <2>1. Readers' = Readers
    BY <1>19 DEF LookLow, Readers
  <2> QED
    BY <1>19, <2>1, WordKept DEF LookLow
<1>20. ASSUME NEW t \in Thread, ResetWaiterFlag(t) PROVE WordInv'
  <2>1. Readers' = Readers
    BY <1>20 DEF ResetWaiterFlag, Readers
  <2> QED
    BY <1>20, <2>1, WordKept DEF ResetWaiterFlag
<1>21. ASSUME NEW t \in Thread, SetEvent(t) PROVE WordInv'
  <2>1. Readers' = Readers
    BY <1>21 DEF SetEvent, Readers
  <2> QED
    BY <1>21, <2>1, WordKept DEF SetEvent
<1>22. ASSUME NEW t \in Thread, NEW u \in Thread, Pass(t, u) PROVE WordInv'
  <2>1. Owners = {t} /\ Readers = {} /\ reserver = NONE /\ lock_word = Word(depth[t])
    BY <1>22, ReserverOwnsNot DEF Pass
  <2>2. depth[t] = 1
    BY <1>22 DEF Pass
  <2>3. Readers' = {} /\ reserver' = NONE
    BY <1>22, <2>1 DEF Pass, Readers
  <2>4. depth'[u] = 1 /\ Owners' = {u} /\ lock_word' = lock_word
    BY <1>22, <2>1 DEF Pass, Owners
  <2> QED
    BY <2>1, <2>2, <2>3, <2>4, WordOfOwner
<1>23. ASSUME NEW t \in Thread, Call(t) PROVE WordInv'
  <2>1. Readers' = Readers
    BY <1>23 DEF Call, Readers
  <2> QED
    BY <1>23, <2>1, WordKept DEF Call
<1>24. ASSUME NEW t \in Thread, CallAgain(t) PROVE WordInv'
  <2>1. Readers' = Readers
    BY <1>24 DEF CallAgain, Readers
  <2> QED
    BY <1>24, <2>1, WordKept DEF CallAgain
<1>25. ASSUME NEW t \in Thread, XLockNowait(t) PROVE WordInv'
  <2>1. Owners = {} /\ reserver = NONE
    BY <1>25, WordPositive, DecrPositive DEF XLockNowait
  <2>2. lock_word = X_LOCK_DECR /\ lock_word' = 0 /\ reserver' = NONE
    BY <1>25, <2>1 DEF XLockNowait
  <2>3. Cardinality(Readers) = 0
    BY <2>1, <2>2, ReadersFinite, DecrPositive DEF WordInv
  <2>4. Readers = {}
    BY <2>3, ReadersFinite, FS_EmptySet
  <2>5. Readers' = {}
    BY <1>25, <2>4 DEF XLockNowait, Readers
  <2>6. depth'[t] = 1 /\ Owners' = {t}
    BY <1>25, <2>1 DEF XLockNowait, Owners
  <2> QED
    BY <2>2, <2>5, <2>6, WordOfOwner DEF Word
<1>26. ASSUME NEW t \in Thread, UNCHANGED <<lockVars, own>>, ReserveCell(t) PROVE WordInv'
  <2>1. Readers' = Readers
    BY <1>26 DEF ReserveCell, Readers
  <2> QED
    BY <1>26, <2>1, WordKept DEF ReserveCell
<1>27. ASSUME NEW t \in Thread, UNCHANGED <<lockVars, own>>, ReserveFails(t) PROVE WordInv'
  <2>1. Readers' = Readers
    BY <1>27 DEF ReserveFails, GetArray, Readers
  <2> QED
    BY <1>27, <2>1, WordKept DEF ReserveFails, GetArray
<1>28. ASSUME NEW t \in Thread, UNCHANGED <<lockVars, own>>, ResetEvent(t) PROVE WordInv'
  <2>1. Readers' = Readers
    BY <1>28 DEF ResetEvent, Readers
  <2> QED
    BY <1>28, <2>1, WordKept DEF ResetEvent
<1>29. ASSUME NEW t \in Thread, UNCHANGED <<lockVars, own>>, WaitEvent(t) PROVE WordInv'
  <2>1. Readers' = Readers
    BY <1>29 DEF WaitEvent, FreeCell, Readers
  <2> QED
    BY <1>29, <2>1, WordKept DEF WaitEvent, FreeCell
<1>30. ASSUME NEW t \in Thread, UNCHANGED <<lockVars, own>>, Cancel(t) PROVE WordInv'
  <2>1. Readers' = Readers
    BY <1>30 DEF Cancel, FreeCell, Readers
  <2> QED
    BY <1>30, <2>1, WordKept DEF Cancel, FreeCell
<1> QED
  BY <1>1, <1>2, <1>3, <1>4, <1>5, <1>6, <1>7, <1>8, <1>9, <1>10, <1>11,
     <1>12, <1>13, <1>14, <1>15, <1>16, <1>17, <1>18, <1>19, <1>20, <1>21, <1>22,
     <1>23, <1>24, <1>25, <1>26, <1>27, <1>28, <1>29, <1>30 DEF Next, Busy, ArrayStep

----------------------------------------------------------------------------
(* Events, cells and counters.                                             *)

EventTypeInv ==
    /\ is_set \in [Event -> BOOLEAN] /\ signal_count \in [Event -> Nat \ {0}]
    /\ cells \subseteq [arr : Arr, thread : Thread, event : Event, sig : Nat]
    /\ \A t \in Thread :
          tries[t] \in IF pc[t] \in {"enter", "aborted"} THEN 1 .. NArrays ELSE {0}
    /\ tries \in [Thread -> Nat]
    /\ waiters \in 0 .. 1
    /\ high_priority_s_waiters \in Int /\ high_priority_x_waiters \in Int
    /\ high_priority_wait_ex_waiter \in 0 .. 1
    /\ prio \in BOOLEAN /\ high \subseteq Thread /\ (~prio => high = {})

\* The places where a thread has a cell for the event it wants.
WithCell == {"reset", "reserved", "asleep", "cancel"}

\* The try after the announcement, and the first one.
Retrying == {"s_retry", "s_decr", "x_low", "x_decr"}

\* A thread has at most one cell for the lock, and the next writer one more for
\* wait_ex_event; the former is for the event that goes with its priority and mode.
CellInv ==
    /\ \A c \in cells : c.event = "wait_ex_event" =>
          reserver = c.thread /\ want[c.thread] = "wait_ex_event" /\ pc[c.thread] \in WithCell
    /\ \A c \in cells : c.event # "wait_ex_event" =>
          /\ c.event = EventOf(c.thread)
          /\ pc[c.thread] \in WithCell \cup Retrying \/ reserver = c.thread
    /\ \A c, d \in cells : c.thread = d.thread /\ c.event = d.event => c = d
    /\ \A t \in Thread : pc[t] \in WithCell => \E c \in cells : c.thread = t /\ c.event = want[t]
    /\ \A t \in Thread : pc[t] \in Waiting \cup {"cancel"} =>
          want[t] = IF reserver = t THEN "wait_ex_event" ELSE EventOf(t)
    /\ \A t \in Thread : pc[t] \in Retrying /\ HasCell(t) => want[t] = EventOf(t)

\* What a thread asks for stays the same while it is in a call, and with it the event.
LEMMA SameCall ==
  ASSUME TypeInv, Next
  PROVE  /\ high' = high /\ prio' = prio
         /\ \A t \in Thread : pc[t] # "idle" => mode'[t] = mode[t] /\ EventOf(t)' = EventOf(t)
<1> DEFINE Same == /\ high' = high /\ prio' = prio
                   /\ \A t \in Thread : pc[t] # "idle" => mode'[t] = mode[t]
<1>0. Same
  <2> USE DEF TypeInv, Goto, lockVars, own, arrayVars, eventVars, writer, highCounts, build
  <2>1. ASSUME NEW t \in Thread, StandBack(t) PROVE Same
    BY <2>1 DEF StandBack, Failed, GotoReserve, GetArray
  <2>2. ASSUME NEW t \in Thread, GoOn(t) PROVE Same
    BY <2>2 DEF GoOn
  <2>3. ASSUME NEW t \in Thread, SLockGets(t) PROVE Same
    BY <2>3 DEF SLockGets, Decr, Got
  <2>4. ASSUME NEW t \in Thread, LockFails(t) PROVE Same
    BY <2>4 DEF LockFails, EndLow, Failed, GotoReserve, GetArray
  <2>5. ASSUME NEW t \in Thread, Announce(t) PROVE Same
    BY <2>5 DEF Announce, AfterAnnounce
  <2>6. ASSUME NEW t \in Thread, Retract(t) PROVE Same
    BY <2>6 DEF Retract
  <2>7. ASSUME NEW t \in Thread, XLow(t) PROVE Same
    BY <2>7 DEF XLow
  <2>8. ASSUME NEW t \in Thread, XDecr(t) PROVE Same
    BY <2>8 DEF XDecr, Decr, EndLow
  <2>9. ASSUME NEW t \in Thread, Relock(t) PROVE Same
    BY <2>9 DEF Relock, EndLow, Got
  <2>10. ASSUME NEW t \in Thread, SetWriter(t) PROVE Same
    BY <2>10 DEF SetWriter, WriterThenFlag
  <2>11. ASSUME NEW t \in Thread, XWaitBegin(t) PROVE Same
    BY <2>11 DEF XWaitBegin
  <2>12. ASSUME NEW t \in Thread, XWaitReserve(t) PROVE Same
    BY <2>12 DEF XWaitReserve, GotoReserve, GetArray
  <2>13. ASSUME NEW t \in Thread, XWaitSleep(t) PROVE Same
    BY <2>13 DEF XWaitSleep
  <2>14. ASSUME NEW t \in Thread, XWaitEnd(t) PROVE Same
    BY <2>14 DEF XWaitEnd, Got
  <2>15. ASSUME NEW t \in Thread, SUnlock(t) PROVE Same
    BY <2>15 DEF SUnlock
  <2>16. ASSUME NEW t \in Thread, XPrepareUnlock(t) PROVE Same
    BY <2>16 DEF XPrepareUnlock
  <2>17. ASSUME NEW t \in Thread, XUnlock(t) PROVE Same
    BY <2>17 DEF XUnlock, XLockIncr
  <2>18. ASSUME NEW t \in Thread, LookHigh(t) PROVE Same
    BY <2>18 DEF LookHigh
  <2>19. ASSUME NEW t \in Thread, LookLow(t) PROVE Same
    BY <2>19 DEF LookLow
  <2>20. ASSUME NEW t \in Thread, ResetWaiterFlag(t) PROVE Same
    BY <2>20 DEF ResetWaiterFlag
  <2>21. ASSUME NEW t \in Thread, SetEvent(t) PROVE Same
    BY <2>21 DEF SetEvent
  <2>22. ASSUME NEW t \in Thread, NEW u \in Thread, Pass(t, u) PROVE Same
    BY <2>22 DEF Pass
  <2>23. ASSUME NEW t \in Thread, Call(t) PROVE Same
    BY <2>23 DEF Call
  <2>24. ASSUME NEW t \in Thread, CallAgain(t) PROVE Same
    BY <2>24 DEF CallAgain
  <2>25. ASSUME NEW t \in Thread, XLockNowait(t) PROVE Same
    BY <2>25 DEF XLockNowait
  <2>26. ASSUME NEW t \in Thread, UNCHANGED <<lockVars, own>>, ReserveCell(t) PROVE Same
    BY <2>26 DEF ReserveCell
  <2>27. ASSUME NEW t \in Thread, UNCHANGED <<lockVars, own>>, ReserveFails(t) PROVE Same
    BY <2>27 DEF ReserveFails, GetArray
  <2>28. ASSUME NEW t \in Thread, UNCHANGED <<lockVars, own>>, ResetEvent(t) PROVE Same
    BY <2>28 DEF ResetEvent
  <2>29. ASSUME NEW t \in Thread, UNCHANGED <<lockVars, own>>, WaitEvent(t) PROVE Same
    BY <2>29 DEF WaitEvent, FreeCell
  <2>30. ASSUME NEW t \in Thread, UNCHANGED <<lockVars, own>>, Cancel(t) PROVE Same
    BY <2>30 DEF Cancel, FreeCell
  <2> QED
    BY <2>1, <2>2, <2>3, <2>4, <2>5, <2>6, <2>7, <2>8, <2>9, <2>10, <2>11,
       <2>12, <2>13, <2>14, <2>15, <2>16, <2>17, <2>18, <2>19, <2>20, <2>21, <2>22,
       <2>23, <2>24, <2>25, <2>26, <2>27, <2>28, <2>29, <2>30 DEF Next, Busy, ArrayStep
<1> QED
  BY <1>0 DEF EventOf, high_priority

LEMMA CellOf ==
  ASSUME CellInv, NEW t \in Thread, pc[t] \in WithCell
  PROVE  /\ Cell(t) \in cells
         /\ Cell(t).thread = t /\ Cell(t).event = want[t]
         /\ \A c \in cells : c.thread = t /\ c.event = want[t] => c = Cell(t)
  BY DEF CellInv, Cell

\* The event a thread wants.
LEMMA Wanted ==
  ASSUME TypeInv, WantInv, CellInv, NEW t \in Thread, pc[t] \in Waiting \cup {"cancel"}
  PROVE  want[t] \in Event
  BY EventOfType, RwAssumption DEF CellInv

\* What the two actions that write cells put there.
LEMMA ReserveEffect ==
  ASSUME NEW t \in Thread, ReserveCell(t), UNCHANGED <<lockVars, own>>
  PROVE  \E new : /\ cells' = cells \cup {new}
                  /\ new.thread = t /\ new.event = want[t] /\ new.sig = 0
                  /\ pc[t] = "enter" /\ pc' = [pc EXCEPT ![t] = "reset"]
                  /\ UNCHANGED <<want, is_set, signal_count, mode, high, reserver>>
<1> WITNESS [arr |-> at[t], thread |-> t, event |-> want[t], sig |-> 0]
<1> QED
  BY DEF ReserveCell, Goto, eventVars, own, build

LEMMA ResetEffect ==
  ASSUME TypeInv, EventTypeInv, CellInv, NEW t \in Thread, ResetEvent(t), UNCHANGED <<lockVars, own>>
  PROVE  \E new : /\ cells' = (cells \ {Cell(t)}) \cup {new}
                  /\ new \in [arr : Arr, thread : Thread, event : Event, sig : Nat]
                  /\ new.thread = t /\ new.event = want[t]
                  /\ new.sig = signal_count[want[t]] /\ want[t] \in Event
                  /\ pc[t] = "reset" /\ pc' = [pc EXCEPT ![t] = "reserved"]
                  /\ is_set' = [is_set EXCEPT ![want[t]] = FALSE]
                  /\ UNCHANGED <<want, signal_count, mode, high, reserver>>
<1> DEFINE old == Cell(t)
           new == [old EXCEPT !.sig = signal_count[want[t]]]
<1>1. /\ old \in [arr : Arr, thread : Thread, event : Event, sig : Nat]
      /\ old.thread = t /\ old.event = want[t]
  BY CellOf DEF ResetEvent, WithCell, EventTypeInv
<1>2. /\ cells' = (cells \ {Cell(t)}) \cup {new}
      /\ pc[t] = "reset" /\ pc' = [pc EXCEPT ![t] = "reserved"]
      /\ is_set' = [is_set EXCEPT ![want[t]] = FALSE]
      /\ UNCHANGED <<want, signal_count, mode, high, reserver>>
  BY DEF ResetEvent, Goto, own, build
<1> HIDE DEF old
<1>3. /\ new \in [arr : Arr, thread : Thread, event : Event, sig : Nat]
      /\ new.thread = t /\ new.event = want[t]
      /\ new.sig = signal_count[want[t]] /\ want[t] \in Event
  BY <1>1 DEF EventTypeInv
<1> HIDE DEF new
<1> WITNESS new
<1> QED
  BY <1>2, <1>3 DEF old

\* A cell is given back.
LEMMA FreeEffect ==
  ASSUME TypeInv, EventTypeInv, CellInv, NEW t \in Thread, WaitEvent(t) \/ Cancel(t),
         UNCHANGED <<lockVars, own>>
  PROVE  \E c, q : /\ c \in cells /\ c.thread = t /\ c.event = want[t] /\ cells' = cells \ {c}
                   /\ \A d \in cells : d.thread = t /\ d.event = want[t] => d = c
                   /\ \/ pc[t] = "asleep" /\ q = "freed"
                      \/ pc[t] = "cancel" /\ q = "cancelled"
                   /\ pc' = [pc EXCEPT ![t] = q]
                   /\ want' = [want EXCEPT ![t] = NONE]
                   /\ UNCHANGED <<is_set, signal_count, mode, high, reserver>>
<1>1. pc[t] \in WithCell
  BY DEF WaitEvent, Cancel, WithCell
<1>2. PICK c : c = Cell(t)
  OBVIOUS
<1>3. PICK q : q = IF pc[t] = "asleep" THEN "freed" ELSE "cancelled"
  OBVIOUS
<1> WITNESS c, q
<1>4. /\ c \in cells /\ c.thread = t /\ c.event = want[t]
      /\ \A d \in cells : d.thread = t /\ d.event = want[t] => d = c
  BY <1>1, <1>2, CellOf
<1>5. /\ cells' = cells \ {c} /\ want' = [want EXCEPT ![t] = NONE]
      /\ UNCHANGED <<is_set, signal_count, mode, high, reserver>>
      /\ \/ pc[t] = "asleep" /\ q = "freed"
         \/ pc[t] = "cancel" /\ q = "cancelled"
      /\ pc' = [pc EXCEPT ![t] = q]
  BY <1>2, <1>3 DEF WaitEvent, Cancel, FreeCell, WithoutCell, Goto, own, build, eventVars
<1> QED
  BY <1>4, <1>5

LEMMA EventTypeInit == Init => EventTypeInv
  BY ArrayAssumption, RwAssumption DEF Init, ArrayInit, EventTypeInv

LEMMA EventTypeStep ==
  ASSUME TypeInv, EventTypeInv, WantInv, CellInv, Next
  PROVE  EventTypeInv'
<1> USE ArrayAssumption, RwAssumption DEF TypeInv, EventTypeInv, Place, Goto, lockVars, own, arrayVars, eventVars, writer, highCounts, build
<1>1. ASSUME NEW t \in Thread, StandBack(t) PROVE EventTypeInv'
  <2>1. tries[t] = 0
    BY <1>1 DEF StandBack
  <2>2. CASE HasCell(t)
    BY <1>1, <2>1, <2>2 DEF StandBack, Failed, GotoReserve, GetArray
  <2>3. CASE ~HasCell(t)
    BY <1>1, <2>1, <2>3 DEF StandBack, Failed, GotoReserve, GetArray
  <2> QED
    BY <2>2, <2>3
<1>2. ASSUME NEW t \in Thread, GoOn(t) PROVE EventTypeInv'
  BY <1>2 DEF GoOn
<1>3. ASSUME NEW t \in Thread, SLockGets(t) PROVE EventTypeInv'
  BY <1>3 DEF SLockGets, Decr, Got
<1>4. ASSUME NEW t \in Thread, LockFails(t) PROVE EventTypeInv'
  <2>1. tries[t] = 0
    BY <1>4 DEF LockFails
  <2>2. CASE HasCell(t)
    BY <1>4, <2>1, <2>2 DEF LockFails, EndLow, Failed, GotoReserve, GetArray
  <2>3. CASE ~HasCell(t)
    BY <1>4, <2>1, <2>3 DEF LockFails, EndLow, Failed, GotoReserve, GetArray
  <2> QED
    BY <2>2, <2>3
<1>5. ASSUME NEW t \in Thread, Announce(t) PROVE EventTypeInv'
  BY <1>5 DEF Announce, AfterAnnounce
<1>6. ASSUME NEW t \in Thread, Retract(t) PROVE EventTypeInv'
  BY <1>6 DEF Retract, Uncounted
<1>7. ASSUME NEW t \in Thread, XLow(t) PROVE EventTypeInv'
  BY <1>7 DEF XLow
<1>8. ASSUME NEW t \in Thread, XDecr(t) PROVE EventTypeInv'
  BY <1>8 DEF XDecr, Decr, EndLow
<1>9. ASSUME NEW t \in Thread, Relock(t) PROVE EventTypeInv'
  BY <1>9 DEF Relock, EndLow, Got
<1>10. ASSUME NEW t \in Thread, SetWriter(t) PROVE EventTypeInv'
  BY <1>10 DEF SetWriter, WriterThenFlag
<1>11. ASSUME NEW t \in Thread, XWaitBegin(t) PROVE EventTypeInv'
  BY <1>11 DEF XWaitBegin
<1>12. ASSUME NEW t \in Thread, XWaitReserve(t) PROVE EventTypeInv'
  <2>1. tries[t] = 0
    BY <1>12 DEF XWaitReserve
  <2>2. /\ tries' = [tries EXCEPT ![t] = 1] /\ pc' = [pc EXCEPT ![t] = "enter"]
        /\ UNCHANGED <<eventVars, cells, lockVars, own>>
    BY <1>12, <2>1 DEF XWaitReserve, GotoReserve, GetArray
  <2> QED
    BY <2>2, SMTT(40)
<1>13. ASSUME NEW t \in Thread, XWaitSleep(t) PROVE EventTypeInv'
  BY <1>13 DEF XWaitSleep
<1>14. ASSUME NEW t \in Thread, XWaitEnd(t) PROVE EventTypeInv'
  BY <1>14 DEF XWaitEnd, Got
<1>15. ASSUME NEW t \in Thread, SUnlock(t) PROVE EventTypeInv'
  BY <1>15 DEF SUnlock
<1>16. ASSUME NEW t \in Thread, XPrepareUnlock(t) PROVE EventTypeInv'
  BY <1>16 DEF XPrepareUnlock
<1>17. ASSUME NEW t \in Thread, XUnlock(t) PROVE EventTypeInv'
  BY <1>17 DEF XUnlock, XLockIncr
<1>18. ASSUME NEW t \in Thread, LookHigh(t) PROVE EventTypeInv'
  BY <1>18 DEF LookHigh
<1>19. ASSUME NEW t \in Thread, LookLow(t) PROVE EventTypeInv'
  BY <1>19 DEF LookLow
<1>20. ASSUME NEW t \in Thread, ResetWaiterFlag(t) PROVE EventTypeInv'
  BY <1>20 DEF ResetWaiterFlag
<1>21. ASSUME NEW t \in Thread, SetEvent(t) PROVE EventTypeInv'
  BY <1>21 DEF SetEvent, os_event_set, CountAfterSet
<1>22. ASSUME NEW t \in Thread, NEW u \in Thread, Pass(t, u) PROVE EventTypeInv'
  BY <1>22 DEF Pass
<1>23. ASSUME NEW t \in Thread, Call(t) PROVE EventTypeInv'
  BY <1>23 DEF Call
<1>24. ASSUME NEW t \in Thread, CallAgain(t) PROVE EventTypeInv'
  BY <1>24 DEF CallAgain
<1>25. ASSUME NEW t \in Thread, XLockNowait(t) PROVE EventTypeInv'
  BY <1>25 DEF XLockNowait
<1>26. ASSUME NEW t \in Thread, UNCHANGED <<lockVars, own>>, ReserveCell(t) PROVE EventTypeInv'
  <2>1. want[t] \in Event
    BY <1>26, Wanted DEF ReserveCell, Waiting
  <2> QED
    BY <1>26, <2>1, SMTT(40) DEF ReserveCell
<1>27. ASSUME NEW t \in Thread, UNCHANGED <<lockVars, own>>, ReserveFails(t) PROVE EventTypeInv'
  <2>1. CASE tries[t] < NArrays
    BY <1>27, <2>1 DEF ReserveFails, GetArray
  <2>2. CASE ~(tries[t] < NArrays)
    BY <1>27, <2>2 DEF ReserveFails
  <2> QED
    BY <2>1, <2>2
<1>28. ASSUME NEW t \in Thread, UNCHANGED <<lockVars, own>>, ResetEvent(t) PROVE EventTypeInv'
  <2>1. PICK new : /\ cells' = (cells \ {Cell(t)}) \cup {new}
                   /\ new \in [arr : Arr, thread : Thread, event : Event, sig : Nat]
    BY <1>28, ResetEffect
  <2> QED
    BY <1>28, <2>1, ZenonT(60) DEF ResetEvent
<1>29. ASSUME NEW t \in Thread, UNCHANGED <<lockVars, own>>, WaitEvent(t) PROVE EventTypeInv'
  BY <1>29 DEF WaitEvent, FreeCell, WithoutCell
<1>30. ASSUME NEW t \in Thread, UNCHANGED <<lockVars, own>>, Cancel(t) PROVE EventTypeInv'
  BY <1>30 DEF Cancel, FreeCell, WithoutCell
<1> QED
  BY <1>1, <1>2, <1>3, <1>4, <1>5, <1>6, <1>7, <1>8, <1>9, <1>10, <1>11,
     <1>12, <1>13, <1>14, <1>15, <1>16, <1>17, <1>18, <1>19, <1>20, <1>21, <1>22,
     <1>23, <1>24, <1>25, <1>26, <1>27, <1>28, <1>29, <1>30 DEF Next, Busy, ArrayStep

LEMMA CellInit == Init => CellInv
  BY DEF Init, ArrayInit, CellInv, WithCell, Retrying, Waiting

LEMMA CellStep ==
  ASSUME TypeInv, EventTypeInv, PlaceInv, WantInv, WordInv, CellInv, Next
  PROVE  CellInv'
<1>0. /\ high' = high
      /\ \A t \in Thread : pc[t] # "idle" => EventOf(t)' = EventOf(t)
  BY SameCall
<1>00. \A c \in cells : c.thread \in Thread
  BY DEF EventTypeInv
<1> USE <1>0, <1>00, ArrayAssumption, EventOfType DEF TypeInv, PlaceInv, CellInv, WithCell, Retrying, Waiting, HasCell,
        Reserves, Owns, Place, Goto, lockVars, own, arrayVars, eventVars, writer, highCounts, build
<1>1. ASSUME NEW t \in Thread, StandBack(t) PROVE CellInv'
  BY <1>1 DEF StandBack, Failed, GotoReserve, GetArray
<1>2. ASSUME NEW t \in Thread, GoOn(t) PROVE CellInv'
  BY <1>2 DEF GoOn
<1>3. ASSUME NEW t \in Thread, SLockGets(t) PROVE CellInv'
  BY <1>3 DEF SLockGets, Decr, Got
<1>4. ASSUME NEW t \in Thread, LockFails(t) PROVE CellInv'
  BY <1>4 DEF LockFails, EndLow, Failed, GotoReserve, GetArray
<1>5. ASSUME NEW t \in Thread, Announce(t) PROVE CellInv'
  BY <1>5 DEF Announce, AfterAnnounce
<1>6. ASSUME NEW t \in Thread, Retract(t) PROVE CellInv'
  BY <1>6 DEF Retract
<1>7. ASSUME NEW t \in Thread, XLow(t) PROVE CellInv'
  BY <1>7 DEF XLow
<1>8. ASSUME NEW t \in Thread, XDecr(t) PROVE CellInv'
  <2>1. reserver = NONE
    BY <1>8, WordPositive, DecrPositive DEF XDecr, Decr
  <2> QED
    BY <1>8, <2>1 DEF XDecr, EndLow
<1>9. ASSUME NEW t \in Thread, Relock(t) PROVE CellInv'
  BY <1>9 DEF Relock, EndLow, Got
<1>10. ASSUME NEW t \in Thread, SetWriter(t) PROVE CellInv'
  BY <1>10 DEF SetWriter, WriterThenFlag
<1>11. ASSUME NEW t \in Thread, XWaitBegin(t) PROVE CellInv'
  BY <1>11 DEF XWaitBegin
<1>12. ASSUME NEW t \in Thread, XWaitReserve(t) PROVE CellInv'
  BY <1>12 DEF XWaitReserve, GotoReserve, GetArray
<1>13. ASSUME NEW t \in Thread, XWaitSleep(t) PROVE CellInv'
  BY <1>13 DEF XWaitSleep
<1>14. ASSUME NEW t \in Thread, XWaitEnd(t) PROVE CellInv'
  BY <1>14 DEF XWaitEnd, Got
<1>15. ASSUME NEW t \in Thread, SUnlock(t) PROVE CellInv'
  BY <1>15 DEF SUnlock
<1>16. ASSUME NEW t \in Thread, XPrepareUnlock(t) PROVE CellInv'
  BY <1>16 DEF XPrepareUnlock
<1>17. ASSUME NEW t \in Thread, XUnlock(t) PROVE CellInv'
  BY <1>17 DEF XUnlock, XLockIncr
<1>18. ASSUME NEW t \in Thread, LookHigh(t) PROVE CellInv'
  BY <1>18 DEF LookHigh
<1>19. ASSUME NEW t \in Thread, LookLow(t) PROVE CellInv'
  BY <1>19 DEF LookLow
<1>20. ASSUME NEW t \in Thread, ResetWaiterFlag(t) PROVE CellInv'
  BY <1>20 DEF ResetWaiterFlag
<1>21. ASSUME NEW t \in Thread, SetEvent(t) PROVE CellInv'
  BY <1>21 DEF SetEvent
<1>22. ASSUME NEW t \in Thread, NEW u \in Thread, Pass(t, u) PROVE CellInv'
  BY <1>22 DEF Pass
<1>23. ASSUME NEW t \in Thread, Call(t) PROVE CellInv'
  BY <1>23 DEF Call
<1>24. ASSUME NEW t \in Thread, CallAgain(t) PROVE CellInv'
  BY <1>24 DEF CallAgain
<1>25. ASSUME NEW t \in Thread, XLockNowait(t) PROVE CellInv'
  <2>1. reserver = NONE
    BY <1>25, WordPositive, DecrPositive DEF XLockNowait
  <2> QED
    BY <1>25, <2>1 DEF XLockNowait
<1>26. ASSUME NEW t \in Thread, UNCHANGED <<lockVars, own>>, ReserveCell(t) PROVE CellInv'
  <2>1. PICK new : /\ cells' = cells \cup {new}
                   /\ new.thread = t /\ new.event = want[t]
                   /\ pc[t] = "enter" /\ pc' = [pc EXCEPT ![t] = "reset"]
                   /\ UNCHANGED <<want, reserver>>
    BY <1>26, ReserveEffect
  <2>2. want[t] = IF reserver = t THEN "wait_ex_event" ELSE EventOf(t)
    BY <2>1
  <2>3. \A c \in cells : c.thread = t => reserver = t /\ c.event # "wait_ex_event"
    BY <2>1
  <2> QED
    BY <2>1, <2>2, <2>3
<1>27. ASSUME NEW t \in Thread, UNCHANGED <<lockVars, own>>, ReserveFails(t) PROVE CellInv'
  BY <1>27 DEF ReserveFails, GetArray
<1>28. ASSUME NEW t \in Thread, UNCHANGED <<lockVars, own>>, ResetEvent(t) PROVE CellInv'
  <2>1. PICK new : /\ cells' = (cells \ {Cell(t)}) \cup {new}
                   /\ new.thread = t /\ new.event = want[t]
                   /\ pc[t] = "reset" /\ pc' = [pc EXCEPT ![t] = "reserved"]
                   /\ UNCHANGED <<want, reserver>>
    BY <1>28, ResetEffect
  <2>2. \A c \in cells : c.thread = t /\ c.event = want[t] => c = Cell(t)
    BY <2>1, CellOf
  <2>3. Cell(t) \in cells /\ Cell(t).thread = t /\ Cell(t).event = want[t]
    BY <2>1, CellOf
  <2> QED
    BY <2>1, <2>2, <2>3
<1>29. ASSUME NEW t \in Thread, UNCHANGED <<lockVars, own>>, WaitEvent(t) PROVE CellInv'
  <2>1. PICK c, q : /\ c \in cells /\ c.thread = t /\ c.event = want[t] /\ cells' = cells \ {c}
                    /\ \A d \in cells : d.thread = t /\ d.event = want[t] => d = c
                    /\ \/ pc[t] = "asleep" /\ q = "freed"
                       \/ pc[t] = "cancel" /\ q = "cancelled"
                    /\ pc' = [pc EXCEPT ![t] = q]
                    /\ want' = [want EXCEPT ![t] = NONE]
                    /\ UNCHANGED reserver
    BY <1>29, FreeEffect
  <2>2. ASSUME NEW d \in cells', d.thread = t
        PROVE  reserver = t /\ d.event # "wait_ex_event"
    BY <2>1, <2>2
  <2> QED
    BY <2>1, <2>2
<1>30. ASSUME NEW t \in Thread, UNCHANGED <<lockVars, own>>, Cancel(t) PROVE CellInv'
  <2>1. PICK c, q : /\ c \in cells /\ c.thread = t /\ c.event = want[t] /\ cells' = cells \ {c}
                    /\ \A d \in cells : d.thread = t /\ d.event = want[t] => d = c
                    /\ \/ pc[t] = "asleep" /\ q = "freed"
                       \/ pc[t] = "cancel" /\ q = "cancelled"
                    /\ pc' = [pc EXCEPT ![t] = q]
                    /\ want' = [want EXCEPT ![t] = NONE]
                    /\ UNCHANGED reserver
    BY <1>30, FreeEffect
  <2>2. ASSUME NEW d \in cells', d.thread = t
        PROVE  reserver = t /\ d.event # "wait_ex_event"
    BY <2>1, <2>2
  <2> QED
    BY <2>1, <2>2
<1> QED
  BY <1>1, <1>2, <1>3, <1>4, <1>5, <1>6, <1>7, <1>8, <1>9, <1>10, <1>11,
     <1>12, <1>13, <1>14, <1>15, <1>16, <1>17, <1>18, <1>19, <1>20, <1>21, <1>22,
     <1>23, <1>24, <1>25, <1>26, <1>27, <1>28, <1>29, <1>30 DEF Next, Busy, ArrayStep

----------------------------------------------------------------------------
(* Signals.                                                                *)

\* A cell never holds a count that is still to come; and after the event was
\* set the count of every cell is in the past, so that a reset by another
\* thread does not take the signal away.
SignalInv ==
    \A c \in cells :
        /\ c.sig =< signal_count[c.event]
        /\ is_set[c.event] => c.sig < signal_count[c.event]

\* Cell c has not been signalled.
Silent(c) == c.sig = signal_count[c.event]

\* A cell that is new, or filled anew, is not one on which a thread retries or
\* sleeps; and the count of an event never falls.
OldCells ==
    /\ \A c \in cells' : c \in cells \/ pc'[c.thread] \in {"reset", "reserved"}
    /\ \A e \in Event : signal_count'[e] >= signal_count[e]

LEMMA SignalInit == Init => SignalInv
  BY DEF Init, ArrayInit, SignalInv

LEMMA SignalStep ==
  ASSUME TypeInv, EventTypeInv, WantInv, CellInv, SignalInv, Next
  PROVE  SignalInv' /\ OldCells
<1> DEFINE Goal == SignalInv' /\ OldCells
<1> USE RwAssumption DEF TypeInv, EventTypeInv, SignalInv, OldCells, Goto, lockVars, own, arrayVars, eventVars, writer, highCounts, build
<1>1. ASSUME NEW t \in Thread, StandBack(t) PROVE Goal
  BY <1>1 DEF StandBack, Failed, GotoReserve, GetArray
<1>2. ASSUME NEW t \in Thread, GoOn(t) PROVE Goal
  BY <1>2 DEF GoOn
<1>3. ASSUME NEW t \in Thread, SLockGets(t) PROVE Goal
  BY <1>3 DEF SLockGets, Decr, Got
<1>4. ASSUME NEW t \in Thread, LockFails(t) PROVE Goal
  BY <1>4 DEF LockFails, EndLow, Failed, GotoReserve, GetArray
<1>5. ASSUME NEW t \in Thread, Announce(t) PROVE Goal
  BY <1>5 DEF Announce, AfterAnnounce
<1>6. ASSUME NEW t \in Thread, Retract(t) PROVE Goal
  BY <1>6 DEF Retract
<1>7. ASSUME NEW t \in Thread, XLow(t) PROVE Goal
  BY <1>7 DEF XLow
<1>8. ASSUME NEW t \in Thread, XDecr(t) PROVE Goal
  BY <1>8 DEF XDecr, Decr, EndLow
<1>9. ASSUME NEW t \in Thread, Relock(t) PROVE Goal
  BY <1>9 DEF Relock, EndLow, Got
<1>10. ASSUME NEW t \in Thread, SetWriter(t) PROVE Goal
  BY <1>10 DEF SetWriter, WriterThenFlag
<1>11. ASSUME NEW t \in Thread, XWaitBegin(t) PROVE Goal
  BY <1>11 DEF XWaitBegin
<1>12. ASSUME NEW t \in Thread, XWaitReserve(t) PROVE Goal
  BY <1>12 DEF XWaitReserve, GotoReserve, GetArray
<1>13. ASSUME NEW t \in Thread, XWaitSleep(t) PROVE Goal
  BY <1>13 DEF XWaitSleep
<1>14. ASSUME NEW t \in Thread, XWaitEnd(t) PROVE Goal
  BY <1>14 DEF XWaitEnd, Got
<1>15. ASSUME NEW t \in Thread, SUnlock(t) PROVE Goal
  BY <1>15 DEF SUnlock
<1>16. ASSUME NEW t \in Thread, XPrepareUnlock(t) PROVE Goal
  BY <1>16 DEF XPrepareUnlock
<1>17. ASSUME NEW t \in Thread, XUnlock(t) PROVE Goal
  BY <1>17 DEF XUnlock, XLockIncr
<1>18. ASSUME NEW t \in Thread, LookHigh(t) PROVE Goal
  BY <1>18 DEF LookHigh
<1>19. ASSUME NEW t \in Thread, LookLow(t) PROVE Goal
  BY <1>19 DEF LookLow
<1>20. ASSUME NEW t \in Thread, ResetWaiterFlag(t) PROVE Goal
  BY <1>20 DEF ResetWaiterFlag
<1>21. ASSUME NEW t \in Thread, SetEvent(t) PROVE Goal
  BY <1>21 DEF SetEvent, os_event_set, CountAfterSet
<1>22. ASSUME NEW t \in Thread, NEW u \in Thread, Pass(t, u) PROVE Goal
  BY <1>22 DEF Pass
<1>23. ASSUME NEW t \in Thread, Call(t) PROVE Goal
  BY <1>23 DEF Call
<1>24. ASSUME NEW t \in Thread, CallAgain(t) PROVE Goal
  BY <1>24 DEF CallAgain
<1>25. ASSUME NEW t \in Thread, XLockNowait(t) PROVE Goal
  BY <1>25 DEF XLockNowait
<1>26. ASSUME NEW t \in Thread, UNCHANGED <<lockVars, own>>, ReserveCell(t) PROVE Goal
  <2>1. PICK new : /\ cells' = cells \cup {new}
                   /\ new.thread = t /\ new.event = want[t] /\ new.sig = 0
                   /\ pc[t] = "enter" /\ pc' = [pc EXCEPT ![t] = "reset"]
                   /\ UNCHANGED <<is_set, signal_count>>
    BY <1>26, ReserveEffect
  <2>2. want[t] \in Event
    BY <2>1, Wanted DEF Waiting
  <2> QED
    BY <2>1, <2>2
<1>27. ASSUME NEW t \in Thread, UNCHANGED <<lockVars, own>>, ReserveFails(t) PROVE Goal
  BY <1>27 DEF ReserveFails, GetArray
<1>28. ASSUME NEW t \in Thread, UNCHANGED <<lockVars, own>>, ResetEvent(t) PROVE Goal
  <2>1. PICK new : /\ cells' = (cells \ {Cell(t)}) \cup {new}
                   /\ new.thread = t /\ new.event = want[t]
                   /\ new.sig = signal_count[want[t]] /\ want[t] \in Event
                   /\ pc' = [pc EXCEPT ![t] = "reserved"]
                   /\ is_set' = [is_set EXCEPT ![want[t]] = FALSE]
                   /\ signal_count' = signal_count
    BY <1>28, ResetEffect
  <2> QED
    BY <2>1
<1>29. ASSUME NEW t \in Thread, UNCHANGED <<lockVars, own>>, WaitEvent(t) PROVE Goal
  BY <1>29 DEF WaitEvent, FreeCell, WithoutCell
<1>30. ASSUME NEW t \in Thread, UNCHANGED <<lockVars, own>>, Cancel(t) PROVE Goal
  BY <1>30 DEF Cancel, FreeCell, WithoutCell
<1> QED
  BY <1>1, <1>2, <1>3, <1>4, <1>5, <1>6, <1>7, <1>8, <1>9, <1>10, <1>11,
     <1>12, <1>13, <1>14, <1>15, <1>16, <1>17, <1>18, <1>19, <1>20, <1>21, <1>22,
     <1>23, <1>24, <1>25, <1>26, <1>27, <1>28, <1>29, <1>30 DEF Next, Busy, ArrayStep

\* A cell on which a thread retries or sleeps was there before, and was silent
\* if it is silent now.
LEMMA SilentBefore ==
  ASSUME TypeInv, EventTypeInv, WantInv, CellInv, SignalInv, Next,
         NEW c \in cells', pc'[c.thread] \in Retrying \cup {"asleep"}, Silent(c)'
  PROVE  /\ c \in cells /\ c.thread \in Thread /\ c.event \in Event
         /\ Silent(c) /\ signal_count'[c.event] = signal_count[c.event]
<1>1. c \in cells
  BY SignalStep DEF OldCells, Retrying
<1>2. c.event \in Event /\ c.sig \in Nat /\ c.thread \in Thread
  BY <1>1 DEF EventTypeInv
<1>3. signal_count[c.event] \in Nat /\ signal_count'[c.event] \in Nat
  BY <1>2, EventTypeStep DEF EventTypeInv
<1>4. c.sig =< signal_count[c.event] /\ signal_count'[c.event] >= signal_count[c.event]
  BY <1>1, <1>2, SignalStep DEF SignalInv, OldCells
<1>5. c.sig = signal_count'[c.event]
  BY DEF Silent
<1> QED
  BY <1>1, <1>2, <1>3, <1>4, <1>5 DEF Silent

\* An event that is set signals every cell that waits for it.
LEMMA SetSignals ==
  ASSUME EventTypeInv, SignalInv, NEW c \in cells, os_event_set(c.event)
  PROVE  ~(Silent(c) /\ signal_count'[c.event] = signal_count[c.event])
  BY DEF EventTypeInv, SignalInv, Silent, os_event_set, CountAfterSet

LEMMA SilentMeansNotSignalled ==
  ASSUME EventTypeInv, SignalInv, NEW c \in cells
  PROVE  Silent(c) <=> ~Signalled(c)
  BY DEF EventTypeInv, SignalInv, Silent, Signalled

----------------------------------------------------------------------------
(* High priority waiters.                                                  *)

\* Thread t has announced itself and has not taken that back.
Announced(t) ==
    \/ HasCell(t) /\ (reserver = t \/ pc[t] \notin {"reset", "reserved"})
    \/ reserver # t /\ pc[t] \in {"freed", "cancelled"}

\* The threads that are counted in high_priority_s_waiters, high_priority_x_waiters.
Counted(m) == {t \in high : mode[t] = m /\ Announced(t)}

CountInv ==
    /\ high_priority_s_waiters = Cardinality(Counted("S"))
    /\ high_priority_x_waiters = Cardinality(Counted("X"))
    /\ high_priority_wait_ex_waiter = 1 => reserver \in high

LEMMA CountedFinite ==
  ASSUME EventTypeInv, NEW m
  PROVE  IsFiniteSet(Counted(m)) /\ Cardinality(Counted(m)) \in 0 .. Cardinality(high)
<1>1. IsFiniteSet(high) /\ Counted(m) \subseteq high
  BY ArrayAssumption, FS_Subset DEF EventTypeInv, Counted
<1> QED
  BY <1>1, FS_Subset, FS_CardinalityType

\* A counter is above 0 exactly if there is somebody to count.
LEMMA CounterTells ==
  ASSUME EventTypeInv, CountInv
  PROVE  /\ high_priority_s_waiters > 0 <=> \E t : t \in Counted("S")
         /\ high_priority_x_waiters > 0 <=> \E t : t \in Counted("X")
  BY CountedFinite, FS_EmptySet DEF CountInv

LEMMA CountInit == Init => CountInv
<1> SUFFICES ASSUME Init PROVE CountInv
  OBVIOUS
<1>1. Counted("S") = {} /\ Counted("X") = {}
  BY RwAssumption DEF Init, ArrayInit, Counted, Announced, HasCell
<1> QED
  BY <1>1, FS_EmptySet, SMTT(40) DEF CountInv, Init

\* The announcement of a thread, and the end of it.
AnnouncedSame(S) == \A v \in S : Announced(v)' <=> Announced(v)

CountsBy(t, n) ==
    /\ high_priority_s_waiters' =
          high_priority_s_waiters + (IF t \in high /\ mode[t] = "S" THEN n ELSE 0)
    /\ high_priority_x_waiters' =
          high_priority_x_waiters + (IF t \in high /\ mode[t] = "X" THEN n ELSE 0)

LEMMA AnnounceCounts ==
  ASSUME TypeInv, EventTypeInv, WantInv, CellInv, NEW t \in Thread, Announce(t)
  PROVE  ~Announced(t) /\ Announced(t)' /\ AnnouncedSame(Thread \ {t}) /\ CountsBy(t, 1)
<1>1. /\ pc[t] = "reserved" /\ reserver # t /\ want[t] = EventOf(t) /\ EventOf(t) # "wait_ex_event"
  BY EventOfType DEF Announce, CellInv, Waiting
<1>2. HasCell(t)
  BY <1>1 DEF CellInv, WithCell, HasCell
<1>3. /\ pc'[t] \notin {"reset", "reserved"} /\ \A v \in Thread \ {t} : pc'[v] = pc[v]
      /\ cells' = cells /\ reserver' = reserver
  BY DEF Announce, AfterAnnounce, Goto, TypeInv, arrayVars, own
<1>4. \A v : HasCell(v)' <=> HasCell(v)
  BY <1>3 DEF HasCell
<1>5. CountsBy(t, 1)
  BY <1>1 DEF Announce, CountsBy, EventOf, high_priority, TypeInv, EventTypeInv
<1> QED
  BY <1>1, <1>2, <1>3, <1>4, <1>5 DEF Announced, AnnouncedSame

LEMMA RetractCounts ==
  ASSUME TypeInv, EventTypeInv, WantInv, CellInv, NEW t \in Thread, Retract(t)
  PROVE  Announced(t) /\ ~Announced(t)' /\ AnnouncedSame(Thread \ {t}) /\ CountsBy(t, -1)
<1>1. pc[t] \in {"freed", "cancelled"} /\ reserver # t
  BY DEF Retract
<1>2. ~HasCell(t)
  BY <1>1 DEF CellInv, WithCell, Retrying, HasCell
<1>3. /\ pc'[t] \notin {"freed", "cancelled"} /\ \A v \in Thread \ {t} : pc'[v] = pc[v]
      /\ cells' = cells /\ reserver' = reserver
  BY DEF Retract, Goto, TypeInv, arrayVars, own
<1>4. \A v : HasCell(v)' <=> HasCell(v)
  BY <1>3 DEF HasCell
<1>5. CountsBy(t, -1)
  BY <1>1 DEF Retract, Uncounted, CountsBy, EventOf, high_priority, TypeInv, EventTypeInv
<1> QED
  BY <1>1, <1>2, <1>3, <1>4, <1>5 DEF Announced, AnnouncedSame

LEMMA OthersCount ==
  ASSUME TypeInv, EventTypeInv, PlaceInv, WantInv, WordInv, CellInv, Next,
         \A t \in Thread : ~Announce(t) /\ ~Retract(t)
  PROVE  AnnouncedSame(Thread) /\ UNCHANGED <<high_priority_s_waiters, high_priority_x_waiters>>
<1> DEFINE Goal == AnnouncedSame(Thread)
                   /\ UNCHANGED <<high_priority_s_waiters, high_priority_x_waiters>>
<1>0. \A v \in Thread : HasCell(v) => pc[v] \in WithCell \cup Retrying \/ reserver = v
  BY DEF CellInv, HasCell
<1>00. ASSUME cells' = cells PROVE \A v : HasCell(v)' <=> HasCell(v)
  BY <1>00 DEF HasCell
<1> USE <1>0, <1>00, ArrayAssumption DEF TypeInv, PlaceInv, Announced, AnnouncedSame, WithCell, Retrying, Waiting,
        Reserves, Owns, Place, Goto, lockVars, own, arrayVars, eventVars, writer, highCounts, build
<1>1. ASSUME NEW t \in Thread, StandBack(t) PROVE Goal
  BY <1>1 DEF StandBack, Failed, GotoReserve, GetArray
<1>2. ASSUME NEW t \in Thread, GoOn(t) PROVE Goal
  BY <1>2 DEF GoOn
<1>3. ASSUME NEW t \in Thread, SLockGets(t) PROVE Goal
  BY <1>3 DEF SLockGets, Decr, Got
<1>4. ASSUME NEW t \in Thread, LockFails(t) PROVE Goal
  BY <1>4 DEF LockFails, EndLow, Failed, GotoReserve, GetArray
<1>5. ASSUME NEW t \in Thread, Announce(t) PROVE Goal
  BY <1>5
<1>6. ASSUME NEW t \in Thread, Retract(t) PROVE Goal
  BY <1>6
<1>7. ASSUME NEW t \in Thread, XLow(t) PROVE Goal
  BY <1>7 DEF XLow
<1>8. ASSUME NEW t \in Thread, XDecr(t) PROVE Goal
  <2>1. reserver = NONE
    BY <1>8, WordPositive, DecrPositive DEF XDecr, Decr
  <2> QED
    BY <1>8, <2>1 DEF XDecr, EndLow
<1>9. ASSUME NEW t \in Thread, Relock(t) PROVE Goal
  BY <1>9 DEF Relock, EndLow, Got
<1>10. ASSUME NEW t \in Thread, SetWriter(t) PROVE Goal
  BY <1>10 DEF SetWriter, WriterThenFlag
<1>11. ASSUME NEW t \in Thread, XWaitBegin(t) PROVE Goal
  BY <1>11 DEF XWaitBegin
<1>12. ASSUME NEW t \in Thread, XWaitReserve(t) PROVE Goal
  BY <1>12 DEF XWaitReserve, GotoReserve, GetArray
<1>13. ASSUME NEW t \in Thread, XWaitSleep(t) PROVE Goal
  BY <1>13 DEF XWaitSleep, WantInv
<1>14. ASSUME NEW t \in Thread, XWaitEnd(t) PROVE Goal
  BY <1>14 DEF XWaitEnd, Got
<1>15. ASSUME NEW t \in Thread, SUnlock(t) PROVE Goal
  BY <1>15 DEF SUnlock
<1>16. ASSUME NEW t \in Thread, XPrepareUnlock(t) PROVE Goal
  BY <1>16 DEF XPrepareUnlock
<1>17. ASSUME NEW t \in Thread, XUnlock(t) PROVE Goal
  BY <1>17 DEF XUnlock, XLockIncr
<1>18. ASSUME NEW t \in Thread, LookHigh(t) PROVE Goal
  BY <1>18 DEF LookHigh
<1>19. ASSUME NEW t \in Thread, LookLow(t) PROVE Goal
  BY <1>19 DEF LookLow
<1>20. ASSUME NEW t \in Thread, ResetWaiterFlag(t) PROVE Goal
  BY <1>20 DEF ResetWaiterFlag
<1>21. ASSUME NEW t \in Thread, SetEvent(t) PROVE Goal
  BY <1>21 DEF SetEvent
<1>22. ASSUME NEW t \in Thread, NEW u \in Thread, Pass(t, u) PROVE Goal
  BY <1>22 DEF Pass
<1>23. ASSUME NEW t \in Thread, Call(t) PROVE Goal
  BY <1>23 DEF Call
<1>24. ASSUME NEW t \in Thread, CallAgain(t) PROVE Goal
  BY <1>24 DEF CallAgain
<1>25. ASSUME NEW t \in Thread, XLockNowait(t) PROVE Goal
  <2>1. reserver = NONE
    BY <1>25, WordPositive, DecrPositive DEF XLockNowait
  <2> QED
    BY <1>25, <2>1 DEF XLockNowait
<1>26. ASSUME NEW t \in Thread, UNCHANGED <<lockVars, own>>, ReserveCell(t) PROVE Goal
  <2>1. PICK new : /\ cells' = cells \cup {new}
                   /\ new.thread = t /\ new.event = want[t]
                   /\ pc[t] = "enter" /\ pc' = [pc EXCEPT ![t] = "reset"]
                   /\ UNCHANGED reserver
    BY <1>26, ReserveEffect
  <2>2. want[t] = IF reserver = t THEN "wait_ex_event" ELSE EventOf(t)
    BY <2>1 DEF CellInv
  <2>3. \A v \in Thread \ {t} : HasCell(v)' <=> HasCell(v)
    BY <2>1 DEF HasCell
  <2>4. reserver = t => (HasCell(t)' <=> HasCell(t))
    BY <2>1, <2>2 DEF HasCell
  <2>5. reserver # t => ~HasCell(t)
    BY <2>1
  <2> QED
    BY <1>26, <2>1, <2>3, <2>4, <2>5
<1>27. ASSUME NEW t \in Thread, UNCHANGED <<lockVars, own>>, ReserveFails(t) PROVE Goal
  BY <1>27 DEF ReserveFails, GetArray
<1>28. ASSUME NEW t \in Thread, UNCHANGED <<lockVars, own>>, ResetEvent(t) PROVE Goal
  <2>1. PICK new : /\ cells' = (cells \ {Cell(t)}) \cup {new}
                   /\ new.thread = t /\ new.event = want[t]
                   /\ pc[t] = "reset" /\ pc' = [pc EXCEPT ![t] = "reserved"]
                   /\ UNCHANGED reserver
    BY <1>28, ResetEffect
  <2>2. Cell(t) \in cells /\ Cell(t).thread = t /\ Cell(t).event = want[t]
    BY <2>1, CellOf
  <2>3. \A v \in Thread : HasCell(v)' <=> HasCell(v)
    BY <2>1, <2>2 DEF HasCell
  <2> QED
    BY <1>28, <2>1, <2>3
<1>29. ASSUME NEW t \in Thread, UNCHANGED <<lockVars, own>>, WaitEvent(t) PROVE Goal
  <2>1. PICK c, q : /\ c \in cells /\ c.thread = t /\ c.event = want[t] /\ cells' = cells \ {c}
                    /\ \A d \in cells : d.thread = t /\ d.event = want[t] => d = c
                    /\ \/ pc[t] = "asleep" /\ q = "freed"
                       \/ pc[t] = "cancel" /\ q = "cancelled"
                    /\ pc' = [pc EXCEPT ![t] = q]
                    /\ UNCHANGED reserver
    BY <1>29, FreeEffect
  <2>2. want[t] = IF reserver = t THEN "wait_ex_event" ELSE EventOf(t)
    BY <2>1 DEF CellInv
  <2>3. \A v \in Thread \ {t} : HasCell(v)' <=> HasCell(v)
    BY <2>1 DEF HasCell
  <2>4. reserver = t => (HasCell(t)' <=> HasCell(t))
    BY <2>1, <2>2 DEF HasCell
  <2>5. reserver # t => HasCell(t) /\ ~HasCell(t)'
    BY <2>1, <2>2, EventOfType DEF HasCell, CellInv
  <2> QED
    BY <1>29, <2>1, <2>3, <2>4, <2>5
<1>30. ASSUME NEW t \in Thread, UNCHANGED <<lockVars, own>>, Cancel(t) PROVE Goal
  <2>1. PICK c, q : /\ c \in cells /\ c.thread = t /\ c.event = want[t] /\ cells' = cells \ {c}
                    /\ \A d \in cells : d.thread = t /\ d.event = want[t] => d = c
                    /\ \/ pc[t] = "asleep" /\ q = "freed"
                       \/ pc[t] = "cancel" /\ q = "cancelled"
                    /\ pc' = [pc EXCEPT ![t] = q]
                    /\ UNCHANGED reserver
    BY <1>30, FreeEffect
  <2>2. want[t] = IF reserver = t THEN "wait_ex_event" ELSE EventOf(t)
    BY <2>1 DEF CellInv
  <2>3. \A v \in Thread \ {t} : HasCell(v)' <=> HasCell(v)
    BY <2>1 DEF HasCell
  <2>4. reserver = t => (HasCell(t)' <=> HasCell(t))
    BY <2>1, <2>2 DEF HasCell
  <2>5. reserver # t => HasCell(t) /\ ~HasCell(t)'
    BY <2>1, <2>2, EventOfType DEF HasCell, CellInv
  <2> QED
    BY <1>30, <2>1, <2>3, <2>4, <2>5
<1> QED
  BY <1>1, <1>2, <1>3, <1>4, <1>5, <1>6, <1>7, <1>8, <1>9, <1>10, <1>11,
     <1>12, <1>13, <1>14, <1>15, <1>16, <1>17, <1>18, <1>19, <1>20, <1>21, <1>22,
     <1>23, <1>24, <1>25, <1>26, <1>27, <1>28, <1>29, <1>30 DEF Next, Busy, ArrayStep

\* The next writer of high priority, and only it, has set high_priority_wait_ex_waiter.
LEMMA ExStep ==
  ASSUME TypeInv, EventTypeInv, PlaceInv, WordInv, CountInv, Next
  PROVE  high_priority_wait_ex_waiter' = 1 => reserver' \in high'
<1> DEFINE Goal == high_priority_wait_ex_waiter' = 1 => reserver' \in high'
<1> USE ArrayAssumption DEF TypeInv, EventTypeInv, PlaceInv, CountInv, Reserves, high_priority, Goto, lockVars, own, arrayVars, eventVars, writer, highCounts, build
<1>1. ASSUME NEW t \in Thread, StandBack(t) PROVE Goal
  BY <1>1 DEF StandBack, Failed, GotoReserve, GetArray
<1>2. ASSUME NEW t \in Thread, GoOn(t) PROVE Goal
  BY <1>2 DEF GoOn
<1>3. ASSUME NEW t \in Thread, SLockGets(t) PROVE Goal
  BY <1>3 DEF SLockGets, Decr, Got
<1>4. ASSUME NEW t \in Thread, LockFails(t) PROVE Goal
  BY <1>4 DEF LockFails, EndLow, Failed, GotoReserve, GetArray
<1>5. ASSUME NEW t \in Thread, Announce(t) PROVE Goal
  BY <1>5 DEF Announce, AfterAnnounce
<1>6. ASSUME NEW t \in Thread, Retract(t) PROVE Goal
  BY <1>6 DEF Retract
<1>7. ASSUME NEW t \in Thread, XLow(t) PROVE Goal
  BY <1>7 DEF XLow
<1>8. ASSUME NEW t \in Thread, XDecr(t) PROVE Goal
  <2>1. reserver = NONE
    BY <1>8, WordPositive, DecrPositive DEF XDecr, Decr
  <2> QED
    BY <1>8, <2>1 DEF XDecr, EndLow
<1>9. ASSUME NEW t \in Thread, Relock(t) PROVE Goal
  BY <1>9 DEF Relock, EndLow, Got
<1>10. ASSUME NEW t \in Thread, SetWriter(t) PROVE Goal
  BY <1>10 DEF SetWriter, WriterThenFlag
<1>11. ASSUME NEW t \in Thread, XWaitBegin(t) PROVE Goal
  BY <1>11 DEF XWaitBegin
<1>12. ASSUME NEW t \in Thread, XWaitReserve(t) PROVE Goal
  BY <1>12 DEF XWaitReserve, GotoReserve, GetArray
<1>13. ASSUME NEW t \in Thread, XWaitSleep(t) PROVE Goal
  BY <1>13 DEF XWaitSleep
<1>14. ASSUME NEW t \in Thread, XWaitEnd(t) PROVE Goal
  <2>1. reserver = t
    BY <1>14 DEF XWaitEnd
  <2> QED
    BY <1>14, <2>1 DEF XWaitEnd, Got
<1>15. ASSUME NEW t \in Thread, SUnlock(t) PROVE Goal
  BY <1>15 DEF SUnlock
<1>16. ASSUME NEW t \in Thread, XPrepareUnlock(t) PROVE Goal
  BY <1>16 DEF XPrepareUnlock
<1>17. ASSUME NEW t \in Thread, XUnlock(t) PROVE Goal
  BY <1>17 DEF XUnlock, XLockIncr
<1>18. ASSUME NEW t \in Thread, LookHigh(t) PROVE Goal
  BY <1>18 DEF LookHigh
<1>19. ASSUME NEW t \in Thread, LookLow(t) PROVE Goal
  BY <1>19 DEF LookLow
<1>20. ASSUME NEW t \in Thread, ResetWaiterFlag(t) PROVE Goal
  BY <1>20 DEF ResetWaiterFlag
<1>21. ASSUME NEW t \in Thread, SetEvent(t) PROVE Goal
  BY <1>21 DEF SetEvent
<1>22. ASSUME NEW t \in Thread, NEW u \in Thread, Pass(t, u) PROVE Goal
  BY <1>22 DEF Pass
<1>23. ASSUME NEW t \in Thread, Call(t) PROVE Goal
  BY <1>23 DEF Call
<1>24. ASSUME NEW t \in Thread, CallAgain(t) PROVE Goal
  BY <1>24 DEF CallAgain
<1>25. ASSUME NEW t \in Thread, XLockNowait(t) PROVE Goal
  <2>1. reserver = NONE
    BY <1>25, WordPositive, DecrPositive DEF XLockNowait
  <2> QED
    BY <1>25, <2>1 DEF XLockNowait
<1>26. ASSUME NEW t \in Thread, UNCHANGED <<lockVars, own>>, ReserveCell(t) PROVE Goal
  BY <1>26 DEF ReserveCell
<1>27. ASSUME NEW t \in Thread, UNCHANGED <<lockVars, own>>, ReserveFails(t) PROVE Goal
  BY <1>27 DEF ReserveFails, GetArray
<1>28. ASSUME NEW t \in Thread, UNCHANGED <<lockVars, own>>, ResetEvent(t) PROVE Goal
  BY <1>28 DEF ResetEvent
<1>29. ASSUME NEW t \in Thread, UNCHANGED <<lockVars, own>>, WaitEvent(t) PROVE Goal
  BY <1>29 DEF WaitEvent, FreeCell
<1>30. ASSUME NEW t \in Thread, UNCHANGED <<lockVars, own>>, Cancel(t) PROVE Goal
  BY <1>30 DEF Cancel, FreeCell
<1> QED
  BY <1>1, <1>2, <1>3, <1>4, <1>5, <1>6, <1>7, <1>8, <1>9, <1>10, <1>11,
     <1>12, <1>13, <1>14, <1>15, <1>16, <1>17, <1>18, <1>19, <1>20, <1>21, <1>22,
     <1>23, <1>24, <1>25, <1>26, <1>27, <1>28, <1>29, <1>30 DEF Next, Busy, ArrayStep

LEMMA CountStep ==
  ASSUME TypeInv, EventTypeInv, PlaceInv, WantInv, WordInv, CellInv, CountInv, Next
  PROVE  CountInv'
<1>0. high \subseteq Thread /\ high' = high /\ \A t \in Thread : pc[t] # "idle" => mode'[t] = mode[t]
  BY SameCall DEF EventTypeInv
<1>1. \A t \in Thread : Announced(t) => pc[t] # "idle"
  BY ArrayAssumption DEF Announced, CellInv, HasCell, WithCell, Retrying, PlaceInv, Reserves, Waiting
<1>3. CASE \E t \in Thread : Announce(t)
  <2>1. PICK t \in Thread : Announce(t)
    BY <1>3
  <2>2. mode' = mode /\ mode \in [Thread -> {"S", "X"}]
    BY <2>1 DEF Announce, own, TypeInv
  <2>3. ~Announced(t) /\ Announced(t)' /\ AnnouncedSame(Thread \ {t}) /\ CountsBy(t, 1)
    BY <2>1, AnnounceCounts
  <2>4. \A m : Counted(m)' = IF t \in high /\ mode[t] = m THEN Counted(m) \cup {t} ELSE Counted(m)
    BY <1>0, <2>2, <2>3 DEF Counted, AnnouncedSame
  <2>5. \A m : t \notin Counted(m) /\ IsFiniteSet(Counted(m))
    BY <2>3, CountedFinite DEF Counted
  <2>6. \A m : Cardinality(Counted(m) \cup {t}) = Cardinality(Counted(m)) + 1
    BY <2>5, FS_AddElement
  <2>7. high_priority_s_waiters' = Cardinality(Counted("S")') /\ high_priority_x_waiters' = Cardinality(Counted("X")')
    BY <2>3, <2>4, <2>6 DEF CountsBy, CountInv, EventTypeInv
  <2> QED
    BY <2>7, ExStep DEF CountInv
<1>4. CASE \E t \in Thread : Retract(t)
  <2>1. PICK t \in Thread : Retract(t)
    BY <1>4
  <2>2. mode' = mode /\ mode \in [Thread -> {"S", "X"}]
    BY <2>1 DEF Retract, own, TypeInv
  <2>3. Announced(t) /\ ~Announced(t)' /\ AnnouncedSame(Thread \ {t}) /\ CountsBy(t, -1)
    BY <2>1, RetractCounts
  <2>4. \A m : Counted(m)' = IF t \in high /\ mode[t] = m THEN Counted(m) \ {t} ELSE Counted(m)
    BY <1>0, <2>2, <2>3 DEF Counted, AnnouncedSame
  <2>5. \A m : IsFiniteSet(Counted(m)) /\ (t \in high /\ mode[t] = m => t \in Counted(m))
    BY <2>3, CountedFinite DEF Counted
  <2>6. \A m : t \in Counted(m) => Cardinality(Counted(m) \ {t}) = Cardinality(Counted(m)) - 1
    BY <2>5, FS_RemoveElement
  <2>7. high_priority_s_waiters' = Cardinality(Counted("S")') /\ high_priority_x_waiters' = Cardinality(Counted("X")')
    BY <2>3, <2>4, <2>5, <2>6 DEF CountsBy, CountInv, EventTypeInv
  <2> QED
    BY <2>7, ExStep DEF CountInv
<1>5. CASE \A t \in Thread : ~Announce(t) /\ ~Retract(t)
  <2>1. AnnouncedSame(Thread) /\ UNCHANGED <<high_priority_s_waiters, high_priority_x_waiters>>
    BY <1>5, OthersCount
  <2>2. \A m : Counted(m)' = Counted(m)
    BY <1>0, <1>1, <2>1 DEF Counted, AnnouncedSame
  <2> QED
    BY <2>1, <2>2, ExStep DEF CountInv
<1> QED
  BY <1>3, <1>4, <1>5

----------------------------------------------------------------------------
(* The flag.                                                               *)

\* As long as a low priority thread that has announced itself is not
\* signalled, the flag is up or somebody who took it down will set the event.
FlagInv ==
    \A c \in cells :
        /\ c.event = "event" /\ Silent(c)
        /\ pc[c.thread] \in Retrying \cup {"asleep"} /\ reserver # c.thread
        => waiters = 1 \/ At({"set"})

LEMMA FlagInit == Init => FlagInv
  BY DEF Init, ArrayInit, FlagInv

LEMMA FlagCell ==
  ASSUME TypeInv, EventTypeInv, PlaceInv, WantInv, CellInv, SignalInv, FlagInv, WordInv,
         NEW c \in cells, Silent(c), signal_count'[c.event] = signal_count[c.event],
         c.event = "event", pc'[c.thread] \in Retrying \cup {"asleep"}, reserver' # c.thread, Next
  PROVE  waiters' = 1 \/ At({"set"})'
<1> DEFINE Goal == waiters' = 1 \/ At({"set"})'
<1>0. c.thread \in Thread /\ c.event # "wait_ex_event" /\ (c.event = "event" => c.thread \notin high)
  BY DEF EventTypeInv, CellInv, EventOf, high_priority
<1>1a. /\ (pc[c.thread] \in Retrying \cup {"asleep"} /\ reserver # c.thread) => waiters = 1 \/ At({"set"})
       /\ pc[c.thread] \in WithCell \cup Retrying \/ reserver = c.thread
  BY <1>0 DEF FlagInv, CellInv
<1> USE <1>0, <1>1a, ArrayAssumption DEF TypeInv, EventTypeInv, PlaceInv, WithCell, Retrying, Waiting, At, Place,
        Reserves, high_priority, Goto, lockVars, own, arrayVars, eventVars, writer, highCounts, build
<1>1. ASSUME NEW t \in Thread, StandBack(t) PROVE Goal
  BY <1>1 DEF StandBack, Failed, GotoReserve, GetArray
<1>2. ASSUME NEW t \in Thread, GoOn(t) PROVE Goal
  BY <1>2 DEF GoOn
<1>3. ASSUME NEW t \in Thread, SLockGets(t) PROVE Goal
  BY <1>3 DEF SLockGets, Decr, Got
<1>4. ASSUME NEW t \in Thread, LockFails(t) PROVE Goal
  BY <1>4 DEF LockFails, EndLow, Failed, GotoReserve, GetArray
<1>5. ASSUME NEW t \in Thread, Announce(t) PROVE Goal
  BY <1>5 DEF Announce, AfterAnnounce
<1>6. ASSUME NEW t \in Thread, Retract(t) PROVE Goal
  BY <1>6 DEF Retract
<1>7. ASSUME NEW t \in Thread, XLow(t) PROVE Goal
  BY <1>7 DEF XLow
<1>8. ASSUME NEW t \in Thread, XDecr(t) PROVE Goal
  <2>1. reserver = NONE
    BY <1>8, WordPositive, DecrPositive DEF XDecr, Decr
  <2> QED
    BY <1>8, <2>1 DEF XDecr, EndLow
<1>9. ASSUME NEW t \in Thread, Relock(t) PROVE Goal
  BY <1>9 DEF Relock, EndLow, Got
<1>10. ASSUME NEW t \in Thread, SetWriter(t) PROVE Goal
  BY <1>10 DEF SetWriter, WriterThenFlag
<1>11. ASSUME NEW t \in Thread, XWaitBegin(t) PROVE Goal
  BY <1>11 DEF XWaitBegin
<1>12. ASSUME NEW t \in Thread, XWaitReserve(t) PROVE Goal
  BY <1>12 DEF XWaitReserve, GotoReserve, GetArray
<1>13. ASSUME NEW t \in Thread, XWaitSleep(t) PROVE Goal
  BY <1>13 DEF XWaitSleep, WantInv
<1>14. ASSUME NEW t \in Thread, XWaitEnd(t) PROVE Goal
  BY <1>14 DEF XWaitEnd, Got
<1>15. ASSUME NEW t \in Thread, SUnlock(t) PROVE Goal
  BY <1>15 DEF SUnlock
<1>16. ASSUME NEW t \in Thread, XPrepareUnlock(t) PROVE Goal
  BY <1>16 DEF XPrepareUnlock
<1>17. ASSUME NEW t \in Thread, XUnlock(t) PROVE Goal
  BY <1>17 DEF XUnlock, XLockIncr
<1>18. ASSUME NEW t \in Thread, LookHigh(t) PROVE Goal
  BY <1>18 DEF LookHigh
<1>19. ASSUME NEW t \in Thread, LookLow(t) PROVE Goal
  BY <1>19 DEF LookLow
<1>20. ASSUME NEW t \in Thread, ResetWaiterFlag(t) PROVE Goal
  BY <1>20 DEF ResetWaiterFlag
<1>21. ASSUME NEW t \in Thread, SetEvent(t) PROVE Goal
  <2>1. CASE pc[t] = "set"
    BY <1>21, <2>1, SetSignals DEF SetEvent
  <2>2. CASE pc[t] # "set"
    BY <1>21, <2>2 DEF SetEvent
  <2> QED
    BY <2>1, <2>2
<1>22. ASSUME NEW t \in Thread, NEW u \in Thread, Pass(t, u) PROVE Goal
  BY <1>22 DEF Pass
<1>23. ASSUME NEW t \in Thread, Call(t) PROVE Goal
  BY <1>23 DEF Call
<1>24. ASSUME NEW t \in Thread, CallAgain(t) PROVE Goal
  BY <1>24 DEF CallAgain
<1>25. ASSUME NEW t \in Thread, XLockNowait(t) PROVE Goal
  <2>1. reserver = NONE
    BY <1>25, WordPositive, DecrPositive DEF XLockNowait
  <2> QED
    BY <1>25, <2>1 DEF XLockNowait
<1>26. ASSUME NEW t \in Thread, UNCHANGED <<lockVars, own>>, ReserveCell(t) PROVE Goal
  BY <1>26 DEF ReserveCell
<1>27. ASSUME NEW t \in Thread, UNCHANGED <<lockVars, own>>, ReserveFails(t) PROVE Goal
  BY <1>27 DEF ReserveFails, GetArray
<1>28. ASSUME NEW t \in Thread, UNCHANGED <<lockVars, own>>, ResetEvent(t) PROVE Goal
  BY <1>28 DEF ResetEvent
<1>29. ASSUME NEW t \in Thread, UNCHANGED <<lockVars, own>>, WaitEvent(t) PROVE Goal
  BY <1>29 DEF WaitEvent, FreeCell
<1>30. ASSUME NEW t \in Thread, UNCHANGED <<lockVars, own>>, Cancel(t) PROVE Goal
  BY <1>30 DEF Cancel, FreeCell
<1> QED
  BY <1>1, <1>2, <1>3, <1>4, <1>5, <1>6, <1>7, <1>8, <1>9, <1>10, <1>11,
     <1>12, <1>13, <1>14, <1>15, <1>16, <1>17, <1>18, <1>19, <1>20, <1>21, <1>22,
     <1>23, <1>24, <1>25, <1>26, <1>27, <1>28, <1>29, <1>30 DEF Next, Busy, ArrayStep

LEMMA FlagStep ==
  ASSUME TypeInv, EventTypeInv, PlaceInv, WantInv, WordInv, CellInv, SignalInv, FlagInv, Next
  PROVE  FlagInv'
<1> SUFFICES ASSUME NEW c \in cells', c.event = "event", Silent(c)',
                    pc'[c.thread] \in Retrying \cup {"asleep"}, reserver' # c.thread
             PROVE  waiters' = 1 \/ At({"set"})'
  BY DEF FlagInv, Retrying
<1> QED
  BY SilentBefore, FlagCell

----------------------------------------------------------------------------
(* Who will look for waiters.                                              *)

\* While the lock can not be had there is an owner or a next writer.
LEMMA WriterHere ==
  ASSUME TypeInv, WordInv, lock_word =< 0
  PROVE  WriterThere
<1> SUFFICES ASSUME Owners = {}, reserver = NONE PROVE FALSE
  BY DEF WriterThere
<1>1. lock_word = X_LOCK_DECR - Cardinality(Readers)
  BY DEF WordInv
<1>2. Cardinality(Readers) \in Nat /\ Cardinality(Readers) =< Cardinality(Thread)
  BY ReadersFinite, FS_CardinalityType, ArrayAssumption
<1>3. X_LOCK_DECR \in Nat /\ X_LOCK_DECR > Cardinality(Thread) /\ Cardinality(Thread) \in Nat
  BY RwAssumption, FS_CardinalityType, ArrayAssumption
<1> QED
  BY <1>1, <1>2, <1>3

\* A counted thread asks for the lock or has it.
LEMMA WhoIsCounted ==
  ASSUME TypeInv, EventTypeInv, PlaceInv, CellInv, NEW v
  PROVE  /\ v \in Counted("S") => v \in high /\ mode[v] = "S" /\ (Pending(v) \/ v \in Readers)
         /\ v \in Counted("X") => v \in high /\ mode[v] = "X" /\ (Pending(v) \/ WriterThere)
<1> SUFFICES ASSUME v \in high, v \in Thread, Announced(v)
             PROVE  /\ mode[v] = "S" => Pending(v) \/ v \in Readers
                    /\ mode[v] = "X" => Pending(v) \/ WriterThere
  BY DEF Counted, EventTypeInv
<1>1. pc[v] \in WithCell \cup Retrying \cup {"freed", "cancelled"} \/ reserver = v
  BY DEF Announced, HasCell, CellInv
<1>2. Pending(v) \/ pc[v] \in {"cancel", "cancelled"}
  BY <1>1 DEF Pending, WithCell, Retrying
<1> QED
  BY <1>2 DEF Readers, WriterThere, Owners, PlaceInv, Reserves, Owns, Pending

\* The owner stays until its last unlock, and then looks.
LEMMA WriterStays ==
  ASSUME TypeInv, EventTypeInv, PlaceInv, WordInv, WriterThere, Next
  PROVE  \/ WriterThere'
         \/ \E t \in Thread : pc'[t] = IF prio THEN "look_x" ELSE "look"
<1> DEFINE Goal == WriterThere' \/ \E t \in Thread : pc'[t] = IF prio THEN "look_x" ELSE "look"
<1> USE ArrayAssumption, RwAssumption DEF TypeInv, WriterThere, Owners, Goto, lockVars, own, arrayVars, eventVars, writer, highCounts, build
<1>1. ASSUME NEW t \in Thread, StandBack(t) PROVE Goal
  BY <1>1 DEF StandBack, Failed, GotoReserve, GetArray
<1>2. ASSUME NEW t \in Thread, GoOn(t) PROVE Goal
  BY <1>2 DEF GoOn
<1>3. ASSUME NEW t \in Thread, SLockGets(t) PROVE Goal
  BY <1>3 DEF SLockGets, Decr, Got
<1>4. ASSUME NEW t \in Thread, LockFails(t) PROVE Goal
  BY <1>4 DEF LockFails, EndLow, Failed, GotoReserve, GetArray
<1>5. ASSUME NEW t \in Thread, Announce(t) PROVE Goal
  BY <1>5 DEF Announce, AfterAnnounce
<1>6. ASSUME NEW t \in Thread, Retract(t) PROVE Goal
  BY <1>6 DEF Retract
<1>7. ASSUME NEW t \in Thread, XLow(t) PROVE Goal
  BY <1>7 DEF XLow
<1>8. ASSUME NEW t \in Thread, XDecr(t) PROVE Goal
  BY <1>8 DEF XDecr, Decr, EndLow
<1>9. ASSUME NEW t \in Thread, Relock(t) PROVE Goal
  BY <1>9 DEF Relock, EndLow, Got
<1>10. ASSUME NEW t \in Thread, SetWriter(t) PROVE Goal
  BY <1>10 DEF SetWriter, WriterThenFlag
<1>11. ASSUME NEW t \in Thread, XWaitBegin(t) PROVE Goal
  BY <1>11 DEF XWaitBegin
<1>12. ASSUME NEW t \in Thread, XWaitReserve(t) PROVE Goal
  BY <1>12 DEF XWaitReserve, GotoReserve, GetArray
<1>13. ASSUME NEW t \in Thread, XWaitSleep(t) PROVE Goal
  BY <1>13 DEF XWaitSleep
<1>14. ASSUME NEW t \in Thread, XWaitEnd(t) PROVE Goal
  <2>1. depth'[t] = 1
    BY <1>14 DEF XWaitEnd
  <2> QED
    BY <2>1
<1>15. ASSUME NEW t \in Thread, SUnlock(t) PROVE Goal
  BY <1>15 DEF SUnlock
<1>16. ASSUME NEW t \in Thread, XPrepareUnlock(t) PROVE Goal
  BY <1>16 DEF XPrepareUnlock
<1>17. ASSUME NEW t \in Thread, XUnlock(t) PROVE Goal
  <2>1. lock_word = Word(depth[t]) /\ depth[t] \in Nat \ {0}
    BY <1>17, ReserverOwnsNot DEF XUnlock, PlaceInv, Owns
  <2>2. CASE depth[t] = 1
    <3>1. lock_word + XLockIncr = X_LOCK_DECR
      BY <2>1, <2>2, UnlockWord
    <3> QED
      BY <1>17, <3>1 DEF XUnlock
  <2>3. CASE depth[t] # 1
    BY <1>17, <2>1, <2>3 DEF XUnlock
  <2> QED
    BY <2>2, <2>3
<1>18. ASSUME NEW t \in Thread, LookHigh(t) PROVE Goal
  BY <1>18 DEF LookHigh
<1>19. ASSUME NEW t \in Thread, LookLow(t) PROVE Goal
  BY <1>19 DEF LookLow
<1>20. ASSUME NEW t \in Thread, ResetWaiterFlag(t) PROVE Goal
  BY <1>20 DEF ResetWaiterFlag
<1>21. ASSUME NEW t \in Thread, SetEvent(t) PROVE Goal
  BY <1>21 DEF SetEvent
<1>22. ASSUME NEW t \in Thread, NEW u \in Thread, Pass(t, u) PROVE Goal
  BY <1>22 DEF Pass
<1>23. ASSUME NEW t \in Thread, Call(t) PROVE Goal
  BY <1>23 DEF Call
<1>24. ASSUME NEW t \in Thread, CallAgain(t) PROVE Goal
  BY <1>24 DEF CallAgain
<1>25. ASSUME NEW t \in Thread, XLockNowait(t) PROVE Goal
  BY <1>25 DEF XLockNowait
<1>26. ASSUME NEW t \in Thread, UNCHANGED <<lockVars, own>>, ReserveCell(t) PROVE Goal
  BY <1>26 DEF ReserveCell
<1>27. ASSUME NEW t \in Thread, UNCHANGED <<lockVars, own>>, ReserveFails(t) PROVE Goal
  BY <1>27 DEF ReserveFails, GetArray
<1>28. ASSUME NEW t \in Thread, UNCHANGED <<lockVars, own>>, ResetEvent(t) PROVE Goal
  BY <1>28 DEF ResetEvent
<1>29. ASSUME NEW t \in Thread, UNCHANGED <<lockVars, own>>, WaitEvent(t) PROVE Goal
  BY <1>29 DEF WaitEvent, FreeCell
<1>30. ASSUME NEW t \in Thread, UNCHANGED <<lockVars, own>>, Cancel(t) PROVE Goal
  BY <1>30 DEF Cancel, FreeCell
<1> QED
  BY <1>1, <1>2, <1>3, <1>4, <1>5, <1>6, <1>7, <1>8, <1>9, <1>10, <1>11,
     <1>12, <1>13, <1>14, <1>15, <1>16, <1>17, <1>18, <1>19, <1>20, <1>21, <1>22,
     <1>23, <1>24, <1>25, <1>26, <1>27, <1>28, <1>29, <1>30 DEF Next, Busy, ArrayStep

\* A thread of high priority asks for the lock until it has it.
LEMMA AskerStays ==
  ASSUME TypeInv, EventTypeInv, PlaceInv, WantInv, WordInv, WriterInv, Next,
         NEW v \in Thread, Pending(v)
  PROVE  \/ Pending(v)' \/ WriterThere' \/ pc'[v] = "aborted"
         \/ mode[v] = "S" /\ v \in Readers'
<1> DEFINE Goal == \/ Pending(v)' \/ WriterThere' \/ pc'[v] = "aborted"
                   \/ mode[v] = "S" /\ v \in Readers'
<1> USE ArrayAssumption DEF TypeInv, PlaceInv, Pending, WriterThere, Readers, Owners, Reserves, Owns, Goto, lockVars, own, arrayVars, eventVars, writer, highCounts, build
<1>1. ASSUME NEW t \in Thread, StandBack(t) PROVE Goal
  BY <1>1 DEF StandBack, Failed, GotoReserve, GetArray
<1>2. ASSUME NEW t \in Thread, GoOn(t) PROVE Goal
  BY <1>2 DEF GoOn
<1>3. ASSUME NEW t \in Thread, SLockGets(t) PROVE Goal
  BY <1>3 DEF SLockGets, Decr, Got
<1>4. ASSUME NEW t \in Thread, LockFails(t) PROVE Goal
  BY <1>4 DEF LockFails, EndLow, Failed, GotoReserve, GetArray
<1>5. ASSUME NEW t \in Thread, Announce(t) PROVE Goal
  BY <1>5 DEF Announce, AfterAnnounce
<1>6. ASSUME NEW t \in Thread, Retract(t) PROVE Goal
  BY <1>6 DEF Retract
<1>7. ASSUME NEW t \in Thread, XLow(t) PROVE Goal
  BY <1>7 DEF XLow
<1>8. ASSUME NEW t \in Thread, XDecr(t) PROVE Goal
  BY <1>8 DEF XDecr, Decr, EndLow
<1>9. ASSUME NEW t \in Thread, Relock(t) PROVE Goal
  BY <1>9 DEF Relock, EndLow, Got
<1>10. ASSUME NEW t \in Thread, SetWriter(t) PROVE Goal
  BY <1>10 DEF SetWriter, WriterThenFlag
<1>11. ASSUME NEW t \in Thread, XWaitBegin(t) PROVE Goal
  BY <1>11 DEF XWaitBegin
<1>12. ASSUME NEW t \in Thread, XWaitReserve(t) PROVE Goal
  BY <1>12 DEF XWaitReserve, GotoReserve, GetArray
<1>13. ASSUME NEW t \in Thread, XWaitSleep(t) PROVE Goal
  BY <1>13 DEF XWaitSleep, WantInv, Waiting
<1>14. ASSUME NEW t \in Thread, XWaitEnd(t) PROVE Goal
  BY <1>14 DEF XWaitEnd, Got
<1>15. ASSUME NEW t \in Thread, SUnlock(t) PROVE Goal
  BY <1>15 DEF SUnlock
<1>16. ASSUME NEW t \in Thread, XPrepareUnlock(t) PROVE Goal
  BY <1>16 DEF XPrepareUnlock
<1>17. ASSUME NEW t \in Thread, XUnlock(t) PROVE Goal
  BY <1>17 DEF XUnlock, XLockIncr
<1>18. ASSUME NEW t \in Thread, LookHigh(t) PROVE Goal
  BY <1>18 DEF LookHigh
<1>19. ASSUME NEW t \in Thread, LookLow(t) PROVE Goal
  BY <1>19 DEF LookLow
<1>20. ASSUME NEW t \in Thread, ResetWaiterFlag(t) PROVE Goal
  BY <1>20 DEF ResetWaiterFlag
<1>21. ASSUME NEW t \in Thread, SetEvent(t) PROVE Goal
  BY <1>21 DEF SetEvent
<1>22. ASSUME NEW t \in Thread, NEW u \in Thread, Pass(t, u) PROVE Goal
  BY <1>22 DEF Pass
<1>23. ASSUME NEW t \in Thread, Call(t) PROVE Goal
  BY <1>23 DEF Call
<1>24. ASSUME NEW t \in Thread, CallAgain(t) PROVE Goal
  BY <1>24 DEF CallAgain
<1>25. ASSUME NEW t \in Thread, XLockNowait(t) PROVE Goal
  BY <1>25 DEF XLockNowait
<1>26. ASSUME NEW t \in Thread, UNCHANGED <<lockVars, own>>, ReserveCell(t) PROVE Goal
  BY <1>26 DEF ReserveCell
<1>27. ASSUME NEW t \in Thread, UNCHANGED <<lockVars, own>>, ReserveFails(t) PROVE Goal
  BY <1>27 DEF ReserveFails, GetArray
<1>28. ASSUME NEW t \in Thread, UNCHANGED <<lockVars, own>>, ResetEvent(t) PROVE Goal
  BY <1>28 DEF ResetEvent
<1>29. ASSUME NEW t \in Thread, UNCHANGED <<lockVars, own>>, WaitEvent(t) PROVE Goal
  BY <1>29 DEF WaitEvent, FreeCell
<1>30. ASSUME NEW t \in Thread, UNCHANGED <<lockVars, own>>, Cancel(t) PROVE Goal
  BY <1>30 DEF Cancel, FreeCell
<1> QED
  BY <1>1, <1>2, <1>3, <1>4, <1>5, <1>6, <1>7, <1>8, <1>9, <1>10, <1>11,
     <1>12, <1>13, <1>14, <1>15, <1>16, <1>17, <1>18, <1>19, <1>20, <1>21, <1>22,
     <1>23, <1>24, <1>25, <1>26, <1>27, <1>28, <1>29, <1>30 DEF Next, Busy, ArrayStep

\* A reader stays until it unlocks.
LEMMA ReaderStays ==
  ASSUME TypeInv, PlaceInv, WantInv, Next, NEW v \in Readers
  PROVE  v \in Thread /\ (v \in Readers' \/ SUnlock(v))
<1> DEFINE Goal == v \in Readers' \/ SUnlock(v)
<1>0. v \in Thread /\ mode[v] = "S" /\ pc[v] \in {"s_hold", "cancel", "cancelled"}
  BY DEF Readers
<1> USE <1>0 DEF TypeInv, PlaceInv, Readers, Reserves, Owns, Goto, lockVars, own, arrayVars, eventVars, writer, highCounts, build
<1>1. ASSUME NEW t \in Thread, StandBack(t) PROVE Goal
  BY <1>1 DEF StandBack, Failed, GotoReserve, GetArray
<1>2. ASSUME NEW t \in Thread, GoOn(t) PROVE Goal
  BY <1>2 DEF GoOn
<1>3. ASSUME NEW t \in Thread, SLockGets(t) PROVE Goal
  BY <1>3 DEF SLockGets, Decr, Got
<1>4. ASSUME NEW t \in Thread, LockFails(t) PROVE Goal
  BY <1>4 DEF LockFails, EndLow, Failed, GotoReserve, GetArray
<1>5. ASSUME NEW t \in Thread, Announce(t) PROVE Goal
  BY <1>5 DEF Announce, AfterAnnounce
<1>6. ASSUME NEW t \in Thread, Retract(t) PROVE Goal
  BY <1>6 DEF Retract
<1>7. ASSUME NEW t \in Thread, XLow(t) PROVE Goal
  BY <1>7 DEF XLow
<1>8. ASSUME NEW t \in Thread, XDecr(t) PROVE Goal
  BY <1>8 DEF XDecr, Decr, EndLow
<1>9. ASSUME NEW t \in Thread, Relock(t) PROVE Goal
  BY <1>9 DEF Relock, EndLow, Got
<1>10. ASSUME NEW t \in Thread, SetWriter(t) PROVE Goal
  BY <1>10 DEF SetWriter, WriterThenFlag
<1>11. ASSUME NEW t \in Thread, XWaitBegin(t) PROVE Goal
  BY <1>11 DEF XWaitBegin
<1>12. ASSUME NEW t \in Thread, XWaitReserve(t) PROVE Goal
  BY <1>12 DEF XWaitReserve, GotoReserve, GetArray
<1>13. ASSUME NEW t \in Thread, XWaitSleep(t) PROVE Goal
  BY <1>13 DEF XWaitSleep
<1>14. ASSUME NEW t \in Thread, XWaitEnd(t) PROVE Goal
  BY <1>14 DEF XWaitEnd, Got
<1>15. ASSUME NEW t \in Thread, SUnlock(t) PROVE Goal
  BY <1>15 DEF SUnlock
<1>16. ASSUME NEW t \in Thread, XPrepareUnlock(t) PROVE Goal
  BY <1>16 DEF XPrepareUnlock
<1>17. ASSUME NEW t \in Thread, XUnlock(t) PROVE Goal
  BY <1>17 DEF XUnlock, XLockIncr
<1>18. ASSUME NEW t \in Thread, LookHigh(t) PROVE Goal
  BY <1>18 DEF LookHigh
<1>19. ASSUME NEW t \in Thread, LookLow(t) PROVE Goal
  BY <1>19 DEF LookLow
<1>20. ASSUME NEW t \in Thread, ResetWaiterFlag(t) PROVE Goal
  BY <1>20 DEF ResetWaiterFlag
<1>21. ASSUME NEW t \in Thread, SetEvent(t) PROVE Goal
  BY <1>21 DEF SetEvent
<1>22. ASSUME NEW t \in Thread, NEW u \in Thread, Pass(t, u) PROVE Goal
  BY <1>22 DEF Pass
<1>23. ASSUME NEW t \in Thread, Call(t) PROVE Goal
  BY <1>23 DEF Call
<1>24. ASSUME NEW t \in Thread, CallAgain(t) PROVE Goal
  BY <1>24 DEF CallAgain
<1>25. ASSUME NEW t \in Thread, XLockNowait(t) PROVE Goal
  BY <1>25 DEF XLockNowait
<1>26. ASSUME NEW t \in Thread, UNCHANGED <<lockVars, own>>, ReserveCell(t) PROVE Goal
  BY <1>26 DEF ReserveCell
<1>27. ASSUME NEW t \in Thread, UNCHANGED <<lockVars, own>>, ReserveFails(t) PROVE Goal
  BY <1>27 DEF ReserveFails, GetArray
<1>28. ASSUME NEW t \in Thread, UNCHANGED <<lockVars, own>>, ResetEvent(t) PROVE Goal
  BY <1>28 DEF ResetEvent
<1>29. ASSUME NEW t \in Thread, UNCHANGED <<lockVars, own>>, WaitEvent(t) PROVE Goal
  BY <1>29 DEF WaitEvent, FreeCell
<1>30. ASSUME NEW t \in Thread, UNCHANGED <<lockVars, own>>, Cancel(t) PROVE Goal
  BY <1>30 DEF Cancel, FreeCell
<1> QED
  BY <1>0, <1>1, <1>2, <1>3, <1>4, <1>5, <1>6, <1>7, <1>8, <1>9, <1>10, <1>11,
     <1>12, <1>13, <1>14, <1>15, <1>16, <1>17, <1>18, <1>19, <1>20, <1>21, <1>22,
     <1>23, <1>24, <1>25, <1>26, <1>27, <1>28, <1>29, <1>30 DEF Next, Busy, ArrayStep

\* Who looks for waiters or is about to set an event goes on with that.
LEMMA LookerStays ==
  ASSUME TypeInv, PlaceInv, Next, NEW v \in Thread,
         pc[v] \in {"look_x", "look_s", "look", "clear", "set", "set_s", "set_x", "set_ex"}
  PROVE  pc'[v] = pc[v] \/ LookHigh(v) \/ LookLow(v) \/ ResetWaiterFlag(v) \/ SetEvent(v)
<1> DEFINE Goal == pc'[v] = pc[v] \/ LookHigh(v) \/ LookLow(v) \/ ResetWaiterFlag(v) \/ SetEvent(v)
<1> USE DEF TypeInv, PlaceInv, Reserves, Owns, Goto, lockVars, own, arrayVars, eventVars, writer, highCounts, build
<1>1. ASSUME NEW t \in Thread, StandBack(t) PROVE Goal
  BY <1>1 DEF StandBack, Failed, GotoReserve, GetArray
<1>2. ASSUME NEW t \in Thread, GoOn(t) PROVE Goal
  BY <1>2 DEF GoOn
<1>3. ASSUME NEW t \in Thread, SLockGets(t) PROVE Goal
  BY <1>3 DEF SLockGets, Decr, Got
<1>4. ASSUME NEW t \in Thread, LockFails(t) PROVE Goal
  BY <1>4 DEF LockFails, EndLow, Failed, GotoReserve, GetArray
<1>5. ASSUME NEW t \in Thread, Announce(t) PROVE Goal
  BY <1>5 DEF Announce, AfterAnnounce
<1>6. ASSUME NEW t \in Thread, Retract(t) PROVE Goal
  BY <1>6 DEF Retract
<1>7. ASSUME NEW t \in Thread, XLow(t) PROVE Goal
  BY <1>7 DEF XLow
<1>8. ASSUME NEW t \in Thread, XDecr(t) PROVE Goal
  BY <1>8 DEF XDecr, Decr, EndLow
<1>9. ASSUME NEW t \in Thread, Relock(t) PROVE Goal
  BY <1>9 DEF Relock, EndLow, Got
<1>10. ASSUME NEW t \in Thread, SetWriter(t) PROVE Goal
  BY <1>10 DEF SetWriter, WriterThenFlag
<1>11. ASSUME NEW t \in Thread, XWaitBegin(t) PROVE Goal
  BY <1>11 DEF XWaitBegin
<1>12. ASSUME NEW t \in Thread, XWaitReserve(t) PROVE Goal
  BY <1>12 DEF XWaitReserve, GotoReserve, GetArray
<1>13. ASSUME NEW t \in Thread, XWaitSleep(t) PROVE Goal
  BY <1>13 DEF XWaitSleep
<1>14. ASSUME NEW t \in Thread, XWaitEnd(t) PROVE Goal
  BY <1>14 DEF XWaitEnd, Got
<1>15. ASSUME NEW t \in Thread, SUnlock(t) PROVE Goal
  BY <1>15 DEF SUnlock
<1>16. ASSUME NEW t \in Thread, XPrepareUnlock(t) PROVE Goal
  BY <1>16 DEF XPrepareUnlock
<1>17. ASSUME NEW t \in Thread, XUnlock(t) PROVE Goal
  BY <1>17 DEF XUnlock, XLockIncr
<1>18. ASSUME NEW t \in Thread, LookHigh(t) PROVE Goal
  BY <1>18 DEF LookHigh
<1>19. ASSUME NEW t \in Thread, LookLow(t) PROVE Goal
  BY <1>19 DEF LookLow
<1>20. ASSUME NEW t \in Thread, ResetWaiterFlag(t) PROVE Goal
  BY <1>20 DEF ResetWaiterFlag
<1>21. ASSUME NEW t \in Thread, SetEvent(t) PROVE Goal
  BY <1>21 DEF SetEvent
<1>22. ASSUME NEW t \in Thread, NEW u \in Thread, Pass(t, u) PROVE Goal
  BY <1>22 DEF Pass
<1>23. ASSUME NEW t \in Thread, Call(t) PROVE Goal
  BY <1>23 DEF Call
<1>24. ASSUME NEW t \in Thread, CallAgain(t) PROVE Goal
  BY <1>24 DEF CallAgain
<1>25. ASSUME NEW t \in Thread, XLockNowait(t) PROVE Goal
  BY <1>25 DEF XLockNowait
<1>26. ASSUME NEW t \in Thread, UNCHANGED <<lockVars, own>>, ReserveCell(t) PROVE Goal
  BY <1>26 DEF ReserveCell
<1>27. ASSUME NEW t \in Thread, UNCHANGED <<lockVars, own>>, ReserveFails(t) PROVE Goal
  BY <1>27 DEF ReserveFails, GetArray
<1>28. ASSUME NEW t \in Thread, UNCHANGED <<lockVars, own>>, ResetEvent(t) PROVE Goal
  BY <1>28 DEF ResetEvent
<1>29. ASSUME NEW t \in Thread, UNCHANGED <<lockVars, own>>, WaitEvent(t) PROVE Goal
  BY <1>29 DEF WaitEvent, FreeCell
<1>30. ASSUME NEW t \in Thread, UNCHANGED <<lockVars, own>>, Cancel(t) PROVE Goal
  BY <1>30 DEF Cancel, FreeCell
<1> QED
  BY <1>1, <1>2, <1>3, <1>4, <1>5, <1>6, <1>7, <1>8, <1>9, <1>10, <1>11,
     <1>12, <1>13, <1>14, <1>15, <1>16, <1>17, <1>18, <1>19, <1>20, <1>21, <1>22,
     <1>23, <1>24, <1>25, <1>26, <1>27, <1>28, <1>29, <1>30 DEF Next, Busy, ArrayStep

\* Who sleeps has slept, or has found no way to the lock.
LEMMA SleeperBefore ==
  ASSUME TypeInv, Next, NEW v \in Thread, pc'[v] = "asleep"
  PROVE  (pc[v] = "asleep" /\ want'[v] = want[v]) \/ StandBack(v) \/ LockFails(v) \/ XWaitSleep(v)
<1> DEFINE Goal == (pc[v] = "asleep" /\ want'[v] = want[v]) \/ StandBack(v) \/ LockFails(v) \/ XWaitSleep(v)
<1> USE DEF TypeInv, Goto, lockVars, own, arrayVars, eventVars, writer, highCounts, build
<1>1. ASSUME NEW t \in Thread, StandBack(t) PROVE Goal
  BY <1>1 DEF StandBack, Failed, GotoReserve, GetArray
<1>2. ASSUME NEW t \in Thread, GoOn(t) PROVE Goal
  BY <1>2 DEF GoOn
<1>3. ASSUME NEW t \in Thread, SLockGets(t) PROVE Goal
  BY <1>3 DEF SLockGets, Decr, Got
<1>4. ASSUME NEW t \in Thread, LockFails(t) PROVE Goal
  BY <1>4 DEF LockFails, EndLow, Failed, GotoReserve, GetArray
<1>5. ASSUME NEW t \in Thread, Announce(t) PROVE Goal
  BY <1>5 DEF Announce, AfterAnnounce
<1>6. ASSUME NEW t \in Thread, Retract(t) PROVE Goal
  BY <1>6 DEF Retract
<1>7. ASSUME NEW t \in Thread, XLow(t) PROVE Goal
  BY <1>7 DEF XLow
<1>8. ASSUME NEW t \in Thread, XDecr(t) PROVE Goal
  BY <1>8 DEF XDecr, Decr, EndLow
<1>9. ASSUME NEW t \in Thread, Relock(t) PROVE Goal
  BY <1>9 DEF Relock, EndLow, Got
<1>10. ASSUME NEW t \in Thread, SetWriter(t) PROVE Goal
  BY <1>10 DEF SetWriter, WriterThenFlag
<1>11. ASSUME NEW t \in Thread, XWaitBegin(t) PROVE Goal
  BY <1>11 DEF XWaitBegin
<1>12. ASSUME NEW t \in Thread, XWaitReserve(t) PROVE Goal
  BY <1>12 DEF XWaitReserve, GotoReserve, GetArray
<1>13. ASSUME NEW t \in Thread, XWaitSleep(t) PROVE Goal
  BY <1>13 DEF XWaitSleep
<1>14. ASSUME NEW t \in Thread, XWaitEnd(t) PROVE Goal
  BY <1>14 DEF XWaitEnd, Got
<1>15. ASSUME NEW t \in Thread, SUnlock(t) PROVE Goal
  BY <1>15 DEF SUnlock
<1>16. ASSUME NEW t \in Thread, XPrepareUnlock(t) PROVE Goal
  BY <1>16 DEF XPrepareUnlock
<1>17. ASSUME NEW t \in Thread, XUnlock(t) PROVE Goal
  BY <1>17 DEF XUnlock, XLockIncr
<1>18. ASSUME NEW t \in Thread, LookHigh(t) PROVE Goal
  BY <1>18 DEF LookHigh
<1>19. ASSUME NEW t \in Thread, LookLow(t) PROVE Goal
  BY <1>19 DEF LookLow
<1>20. ASSUME NEW t \in Thread, ResetWaiterFlag(t) PROVE Goal
  BY <1>20 DEF ResetWaiterFlag
<1>21. ASSUME NEW t \in Thread, SetEvent(t) PROVE Goal
  BY <1>21 DEF SetEvent
<1>22. ASSUME NEW t \in Thread, NEW u \in Thread, Pass(t, u) PROVE Goal
  BY <1>22 DEF Pass
<1>23. ASSUME NEW t \in Thread, Call(t) PROVE Goal
  BY <1>23 DEF Call
<1>24. ASSUME NEW t \in Thread, CallAgain(t) PROVE Goal
  BY <1>24 DEF CallAgain
<1>25. ASSUME NEW t \in Thread, XLockNowait(t) PROVE Goal
  BY <1>25 DEF XLockNowait
<1>26. ASSUME NEW t \in Thread, UNCHANGED <<lockVars, own>>, ReserveCell(t) PROVE Goal
  BY <1>26 DEF ReserveCell
<1>27. ASSUME NEW t \in Thread, UNCHANGED <<lockVars, own>>, ReserveFails(t) PROVE Goal
  BY <1>27 DEF ReserveFails, GetArray
<1>28. ASSUME NEW t \in Thread, UNCHANGED <<lockVars, own>>, ResetEvent(t) PROVE Goal
  BY <1>28 DEF ResetEvent
<1>29. ASSUME NEW t \in Thread, UNCHANGED <<lockVars, own>>, WaitEvent(t) PROVE Goal
  BY <1>29 DEF WaitEvent, FreeCell
<1>30. ASSUME NEW t \in Thread, UNCHANGED <<lockVars, own>>, Cancel(t) PROVE Goal
  BY <1>30 DEF Cancel, FreeCell
<1> QED
  BY <1>1, <1>2, <1>3, <1>4, <1>5, <1>6, <1>7, <1>8, <1>9, <1>10, <1>11,
     <1>12, <1>13, <1>14, <1>15, <1>16, <1>17, <1>18, <1>19, <1>20, <1>21, <1>22,
     <1>23, <1>24, <1>25, <1>26, <1>27, <1>28, <1>29, <1>30 DEF Next, Busy, ArrayStep

----------------------------------------------------------------------------
(* Nobody is forgotten.                                                    *)

\* What the proof knows of a state, but for the cover of the sleepers.
StateInv ==
    /\ TypeInv /\ PlaceInv /\ WantInv /\ WordInv /\ WriterInv
    /\ EventTypeInv /\ CellInv /\ SignalInv /\ CountInv /\ FlagInv

\* Somebody will look for all waiters, for all but the writers of high priority.
WriterAsks == WriterThere \/ HighAsks({"X"})

Somebody == WriterThere \/ HighAsks({"S", "X"}) \/ (prio /\ Readers # {})

\* Thread c.thread sleeps on cell c.
SleepsOn(c) == pc[c.thread] = "asleep" /\ c.event = want[c.thread]

CoverInv == Aborted \/ \A c \in cells : SleepsOn(c) /\ Silent(c) => Covered(c.event)

\* While readers are left the word stays below 0, up to the last of them.
LEMMA WordStaysBelow ==
  ASSUME TypeInv, PlaceInv, WordInv, Next, reserver # NONE, pc[reserver] = "asleep", lock_word < 0
  PROVE  lock_word' < 0 \/ At({"set_ex"})'
<1> DEFINE Goal == lock_word' < 0 \/ At({"set_ex"})'
<1>0. Owners = {}
  BY DEF WordInv
<1> USE <1>0, DecrPositive DEF TypeInv, At, Goto, lockVars, own, arrayVars, eventVars, writer, highCounts, build
<1>1. ASSUME NEW t \in Thread, StandBack(t) PROVE Goal
  BY <1>1 DEF StandBack, Failed, GotoReserve, GetArray
<1>2. ASSUME NEW t \in Thread, GoOn(t) PROVE Goal
  BY <1>2 DEF GoOn
<1>3. ASSUME NEW t \in Thread, SLockGets(t) PROVE Goal
  BY <1>3 DEF SLockGets, Decr, Got
<1>4. ASSUME NEW t \in Thread, LockFails(t) PROVE Goal
  BY <1>4 DEF LockFails, EndLow, Failed, GotoReserve, GetArray
<1>5. ASSUME NEW t \in Thread, Announce(t) PROVE Goal
  BY <1>5 DEF Announce, AfterAnnounce
<1>6. ASSUME NEW t \in Thread, Retract(t) PROVE Goal
  BY <1>6 DEF Retract
<1>7. ASSUME NEW t \in Thread, XLow(t) PROVE Goal
  BY <1>7 DEF XLow
<1>8. ASSUME NEW t \in Thread, XDecr(t) PROVE Goal
  BY <1>8 DEF XDecr, Decr, EndLow
<1>9. ASSUME NEW t \in Thread, Relock(t) PROVE Goal
  <2>1. lock_word' = lock_word - 1
    BY <1>9 DEF Relock
  <2> QED
    BY <2>1
<1>10. ASSUME NEW t \in Thread, SetWriter(t) PROVE Goal
  BY <1>10 DEF SetWriter, WriterThenFlag
<1>11. ASSUME NEW t \in Thread, XWaitBegin(t) PROVE Goal
  BY <1>11 DEF XWaitBegin
<1>12. ASSUME NEW t \in Thread, XWaitReserve(t) PROVE Goal
  BY <1>12 DEF XWaitReserve, GotoReserve, GetArray
<1>13. ASSUME NEW t \in Thread, XWaitSleep(t) PROVE Goal
  BY <1>13 DEF XWaitSleep
<1>14. ASSUME NEW t \in Thread, XWaitEnd(t) PROVE Goal
  BY <1>14 DEF XWaitEnd, Got
<1>15. ASSUME NEW t \in Thread, SUnlock(t) PROVE Goal
  BY <1>15 DEF SUnlock
<1>16. ASSUME NEW t \in Thread, XPrepareUnlock(t) PROVE Goal
  BY <1>16 DEF XPrepareUnlock
<1>17. ASSUME NEW t \in Thread, XUnlock(t) PROVE Goal
  BY <1>17 DEF XUnlock, PlaceInv, Owns, Owners
<1>18. ASSUME NEW t \in Thread, LookHigh(t) PROVE Goal
  BY <1>18 DEF LookHigh
<1>19. ASSUME NEW t \in Thread, LookLow(t) PROVE Goal
  BY <1>19 DEF LookLow
<1>20. ASSUME NEW t \in Thread, ResetWaiterFlag(t) PROVE Goal
  BY <1>20 DEF ResetWaiterFlag
<1>21. ASSUME NEW t \in Thread, SetEvent(t) PROVE Goal
  BY <1>21 DEF SetEvent
<1>22. ASSUME NEW t \in Thread, NEW u \in Thread, Pass(t, u) PROVE Goal
  BY <1>22 DEF Pass
<1>23. ASSUME NEW t \in Thread, Call(t) PROVE Goal
  BY <1>23 DEF Call
<1>24. ASSUME NEW t \in Thread, CallAgain(t) PROVE Goal
  BY <1>24 DEF CallAgain
<1>25. ASSUME NEW t \in Thread, XLockNowait(t) PROVE Goal
  BY <1>25 DEF XLockNowait
<1>26. ASSUME NEW t \in Thread, UNCHANGED <<lockVars, own>>, ReserveCell(t) PROVE Goal
  BY <1>26 DEF ReserveCell
<1>27. ASSUME NEW t \in Thread, UNCHANGED <<lockVars, own>>, ReserveFails(t) PROVE Goal
  BY <1>27 DEF ReserveFails, GetArray
<1>28. ASSUME NEW t \in Thread, UNCHANGED <<lockVars, own>>, ResetEvent(t) PROVE Goal
  BY <1>28 DEF ResetEvent
<1>29. ASSUME NEW t \in Thread, UNCHANGED <<lockVars, own>>, WaitEvent(t) PROVE Goal
  BY <1>29 DEF WaitEvent, FreeCell
<1>30. ASSUME NEW t \in Thread, UNCHANGED <<lockVars, own>>, Cancel(t) PROVE Goal
  BY <1>30 DEF Cancel, FreeCell
<1> QED
  BY <1>1, <1>2, <1>3, <1>4, <1>5, <1>6, <1>7, <1>8, <1>9, <1>10, <1>11,
     <1>12, <1>13, <1>14, <1>15, <1>16, <1>17, <1>18, <1>19, <1>20, <1>21, <1>22,
     <1>23, <1>24, <1>25, <1>26, <1>27, <1>28, <1>29, <1>30 DEF Next, Busy, ArrayStep

\* The counter says who is there.
LEMMA CountedX ==
  ASSUME StateInv, high_priority_x_waiters > 0
  PROVE  WriterAsks
<1>1. PICK v : v \in Counted("X")
  BY CounterTells DEF StateInv
<1>2. v \in high /\ mode[v] = "X" /\ (Pending(v) \/ WriterThere)
  BY <1>1, WhoIsCounted DEF StateInv
<1> QED
  BY <1>2 DEF WriterAsks, HighAsks

LEMMA CountedS ==
  ASSUME StateInv, high_priority_s_waiters > 0
  PROVE  Somebody
<1>1. PICK v : v \in Counted("S")
  BY CounterTells DEF StateInv
<1>2. v \in high /\ mode[v] = "S" /\ (Pending(v) \/ v \in Readers)
  BY <1>1, WhoIsCounted DEF StateInv
<1>3. prio
  BY <1>2 DEF StateInv, EventTypeInv
<1>4. CASE Pending(v)
  <2>1. HighAsks({"S", "X"})
    BY <1>2, <1>4 DEF HighAsks
  <2> QED
    BY <2>1 DEF Somebody
<1>5. CASE v \in Readers
  BY <1>3, <1>5 DEF Somebody
<1> QED
  BY <1>2, <1>4, <1>5

\* A thread of high priority that asks is still there after the step.
LEMMA HighAskerStays ==
  ASSUME StateInv, Next, ~Aborted', NEW v \in high, Pending(v)
  PROVE  \/ WriterThere'
         \/ v \in high' /\ Pending(v)' /\ mode'[v] = mode[v]
         \/ mode[v] = "S" /\ prio' /\ v \in Readers'
<1>1. v \in Thread /\ prio
  BY DEF StateInv, EventTypeInv
<1>2. pc[v] # "idle"
  BY <1>1 DEF StateInv, PlaceInv, Pending, Reserves, Waiting
<1>3. high' = high /\ prio' = prio /\ mode'[v] = mode[v]
  BY <1>1, <1>2, SameCall DEF StateInv
<1>4. pc'[v] # "aborted"
  BY <1>1 DEF Aborted
<1>5. Pending(v)' \/ WriterThere' \/ pc'[v] = "aborted" \/ (mode[v] = "S" /\ v \in Readers')
  BY <1>1, AskerStays DEF StateInv
<1> QED
  BY <1>1, <1>3, <1>4, <1>5

LEMMA WriterAsksStays ==
  ASSUME StateInv, Next, ~Aborted', prio, WriterAsks
  PROVE  WriterAsks' \/ At({"look_x"})'
<1>1. CASE WriterThere
  BY <1>1, WriterStays DEF StateInv, WriterAsks, At
<1>2. CASE HighAsks({"X"})
  <2>1. PICK v \in high : Pending(v) /\ mode[v] = "X"
    BY <1>2 DEF HighAsks
  <2>2. mode[v] # "S"
    BY <2>1
  <2>3. WriterThere' \/ (v \in high' /\ Pending(v)' /\ mode'[v] = mode[v])
    BY <2>1, <2>2, HighAskerStays
  <2> QED
    BY <2>1, <2>3 DEF WriterAsks, HighAsks
<1> QED
  BY <1>1, <1>2 DEF WriterAsks

LEMMA SomebodyStays ==
  ASSUME StateInv, WordInv', TypeInv', Next, ~Aborted', Somebody
  PROVE  Somebody' \/ At({"look_x", "look"})'
<1>1. CASE WriterThere
  <2>1. WriterThere' \/ \E t \in Thread : pc'[t] = IF prio THEN "look_x" ELSE "look"
    BY <1>1, WriterStays DEF StateInv
  <2>2. CASE \E t \in Thread : pc'[t] = IF prio THEN "look_x" ELSE "look"
    <3>1. PICK t \in Thread : pc'[t] = IF prio THEN "look_x" ELSE "look"
      BY <2>2
    <3>2. pc'[t] \in {"look_x", "look"}
      BY <3>1
    <3> QED
      BY <3>2 DEF At
  <2> QED
    BY <2>1, <2>2 DEF Somebody
<1>2. CASE HighAsks({"S", "X"})
  <2>1. PICK v \in high : Pending(v) /\ mode[v] \in {"S", "X"}
    BY <1>2 DEF HighAsks
  <2>2. \/ WriterThere'
        \/ v \in high' /\ Pending(v)' /\ mode'[v] = mode[v]
        \/ prio' /\ v \in Readers'
    BY <2>1, HighAskerStays
  <2>3. CASE v \in high' /\ Pending(v)' /\ mode'[v] = mode[v]
    <3>1. HighAsks({"S", "X"})'
      BY <2>1, <2>3 DEF HighAsks
    <3> QED
      BY <3>1 DEF Somebody
  <2>4. CASE prio' /\ v \in Readers'
    BY <2>4 DEF Somebody
  <2> QED
    BY <2>2, <2>3, <2>4 DEF Somebody
<1>3. CASE prio /\ Readers # {}
  <2>1. PICK v \in Readers : TRUE
    BY <1>3
  <2>2. prio' = prio
    BY SameCall DEF StateInv
  <2>3. v \in Thread /\ (v \in Readers' \/ SUnlock(v))
    BY <2>1, ReaderStays DEF StateInv
  <2>5. CASE SUnlock(v) /\ lock_word' = X_LOCK_DECR
    <3>1. pc'[v] = "look"
      BY <1>3, <2>3, <2>5, DecrPositive DEF SUnlock, Goto, StateInv, TypeInv
    <3> QED
      BY <2>3, <3>1 DEF At
  <2>6. CASE lock_word' # X_LOCK_DECR /\ ~WriterThere'
    <3>1. lock_word' = X_LOCK_DECR - Cardinality(Readers')
      BY <2>6 DEF WordInv, WriterThere
    <3>2. CASE Readers' = {}
      <4>1. Cardinality(Readers') = 0
        BY <3>2, FS_EmptySet
      <4> QED
        BY <3>1, <4>1, <2>6, DecrPositive
    <3> QED
      BY <3>2, <1>3, <2>2 DEF Somebody
  <2>7. CASE v \in Readers'
    BY <1>3, <2>2, <2>7 DEF Somebody
  <2>8. CASE WriterThere'
    BY <2>8 DEF Somebody
  <2> QED
    BY <2>3, <2>5, <2>6, <2>7, <2>8
<1> QED
  BY <1>1, <1>2, <1>3 DEF Somebody

\* Who is about to set an event goes on with that; then the cells for it are
\* signalled.
LEMMA SetterStays ==
  ASSUME TypeInv, PlaceInv, EventTypeInv, SignalInv, Next, NEW c \in cells,
         Silent(c), signal_count'[c.event] = signal_count[c.event], NEW p,
         \/ p = "set" /\ c.event = "event"
         \/ p = "set_s" /\ c.event = "high_priority_s_event"
         \/ p = "set_x" /\ c.event = "high_priority_x_event"
         \/ p = "set_ex" /\ c.event = "wait_ex_event",
         At({p})
  PROVE  At({p})'
<1>1. PICK v \in Thread : pc[v] = p
  BY DEF At
<1>2. p \in {"set", "set_s", "set_x", "set_ex"}
  OBVIOUS
<1>3. pc'[v] = pc[v] \/ LookHigh(v) \/ LookLow(v) \/ ResetWaiterFlag(v) \/ SetEvent(v)
  BY <1>1, <1>2, LookerStays
<1>4. pc'[v] = pc[v] \/ SetEvent(v)
  BY <1>1, <1>2, <1>3 DEF LookHigh, LookLow, ResetWaiterFlag
<1>5. SetEvent(v) => os_event_set(c.event)
  BY <1>1 DEF SetEvent
<1>6. ~SetEvent(v)
  BY <1>5, SetSignals
<1> QED
  BY <1>1, <1>4, <1>6 DEF At

\* The counter of a sleeper is above 0.
CountsSleepers ==
    \A c \in cells : SleepsOn(c) =>
        /\ c.event = "high_priority_x_event" => high_priority_x_waiters > 0
        /\ c.event = "high_priority_s_event" => high_priority_s_waiters > 0
        /\ c.event = "event" => reserver # c.thread

LEMMA SleeperCounted == StateInv => CountsSleepers
<1> SUFFICES ASSUME TypeInv, EventTypeInv, CellInv, CountInv, NEW c \in cells, SleepsOn(c),
                    c.event # "wait_ex_event"
             PROVE  /\ c.event = "high_priority_x_event" => high_priority_x_waiters > 0
                    /\ c.event = "high_priority_s_event" => high_priority_s_waiters > 0
                    /\ c.event = "event" => reserver # c.thread
  BY DEF StateInv, CountsSleepers
<1>1. c.thread \in Thread /\ c.event = EventOf(c.thread) /\ mode[c.thread] \in {"S", "X"}
  BY DEF EventTypeInv, CellInv, TypeInv
<1>2. Announced(c.thread)
  BY <1>1 DEF Announced, HasCell, SleepsOn
<1>3. reserver # c.thread
  BY <1>1 DEF CellInv, SleepsOn, Waiting
<1>4. /\ c.event = "high_priority_x_event" => c.thread \in Counted("X")
      /\ c.event = "high_priority_s_event" => c.thread \in Counted("S")
  BY <1>1, <1>2 DEF EventOf, high_priority, Counted
<1> QED
  BY <1>3, <1>4, CounterTells

\* Where a thread comes from that falls asleep on a cell for the lock: the lock
\* was taken, or threads of high priority wait.
LEMMA NewSleeper ==
  ASSUME StateInv, Next, NEW c \in cells, SleepsOn(c)', c.event # "wait_ex_event"
  PROVE  \/ SleepsOn(c)
         \/ WriterThere'
         \/ c.event = "event" /\ Somebody /\ HigherPrioWaitersExist(c.thread)
<1> DEFINE t == c.thread
<1>1. t \in Thread /\ c.event = EventOf(t)
  BY DEF StateInv, EventTypeInv, CellInv
<1>2. (pc[t] = "asleep" /\ want'[t] = want[t]) \/ StandBack(t) \/ LockFails(t) \/ XWaitSleep(t)
  BY <1>1, SleeperBefore DEF SleepsOn, StateInv
<1>3. CASE pc[t] = "asleep" /\ want'[t] = want[t]
  BY <1>3 DEF SleepsOn
<1>4. CASE StandBack(t)
  <2>1. prio /\ t \notin high /\ HigherPrioWaitersExist(t)
    BY <1>4 DEF StandBack, HigherPrioWaitersExist
  <2>2. c.event = "event"
    BY <1>1, <2>1 DEF EventOf, high_priority
  <2>3. CASE high_priority_wait_ex_waiter > 0
    <3>1. high_priority_wait_ex_waiter = 1
      BY <2>3 DEF StateInv, EventTypeInv
    <3>2. reserver \in high /\ high \subseteq Thread
      BY <3>1 DEF StateInv, CountInv, EventTypeInv
    <3>3. WriterThere
      BY <3>2, ArrayAssumption DEF WriterThere
    <3> QED
      BY <2>1, <2>2, <3>3 DEF Somebody
  <2>4. CASE high_priority_s_waiters > 0
    BY <2>1, <2>2, <2>4, CountedS
  <2>5. CASE high_priority_x_waiters > 0
    <3>1. WriterAsks
      BY <2>5, CountedX
    <3>2. Somebody
      BY <3>1 DEF WriterAsks, Somebody, HighAsks
    <3> QED
      BY <2>1, <2>2, <3>2
  <2> QED
    BY <2>1, <2>3, <2>4, <2>5 DEF HigherPrioWaitersExist
<1>5. CASE LockFails(t)
  <2>1. lock_word =< 0 /\ UNCHANGED <<depth, reserver>>
    BY <1>5 DEF LockFails
  <2>2. WriterThere
    BY <2>1, WriterHere DEF StateInv
  <2> QED
    BY <2>1, <2>2 DEF WriterThere, Owners
<1>6. CASE XWaitSleep(t)
  <2>1. want'[t] = "wait_ex_event"
    BY <1>6 DEF XWaitSleep, arrayVars
  <2> QED
    BY <2>1 DEF SleepsOn
<1> QED
  BY <1>2, <1>3, <1>4, <1>5, <1>6

\* The four events, one after the other.
LEMMA CoverEx ==
  ASSUME StateInv, Next, NEW c \in cells, c.event = "wait_ex_event", SleepsOn(c)',
         Silent(c), signal_count'[c.event] = signal_count[c.event],
         SleepsOn(c) => Covered(c.event)
  PROVE  At({"set_ex"})' \/ lock_word' < 0
<1> DEFINE t == c.thread
<1>1. t \in Thread /\ reserver = t /\ want[t] = "wait_ex_event" /\ pc[t] \in WithCell
  BY DEF StateInv, EventTypeInv, CellInv
<1>2. (pc[t] = "asleep" /\ want'[t] = want[t]) \/ StandBack(t) \/ LockFails(t) \/ XWaitSleep(t)
  BY <1>1, SleeperBefore DEF SleepsOn, StateInv
<1>3. ~StandBack(t) /\ ~LockFails(t)
  BY <1>1 DEF StandBack, LockFails, WithCell
<1>4. CASE XWaitSleep(t)
  <2>1. pc'[t] = "asleep" /\ lock_word' = lock_word
    BY <1>4 DEF SleepsOn, XWaitSleep, lockVars
  <2>2. lock_word < 0
    BY <1>1, <1>4, <2>1 DEF XWaitSleep, ReadersLeft, Goto, StateInv, TypeInv
  <2> QED
    BY <2>1, <2>2
<1>5. CASE pc[t] = "asleep" /\ want'[t] = want[t]
  <2>1. At({"set_ex"}) \/ lock_word < 0
    BY <1>1, <1>5 DEF SleepsOn, Covered
  <2>2. CASE At({"set_ex"})
    BY <2>2, SetterStays DEF StateInv
  <2>3. CASE lock_word < 0
    BY <1>1, <1>5, <2>3, WordStaysBelow, ArrayAssumption DEF StateInv
  <2> QED
    BY <2>1, <2>2, <2>3
<1> QED
  BY <1>2, <1>3, <1>4, <1>5

LEMMA CoverX ==
  ASSUME StateInv, Next, NEW c \in cells, c.event = "high_priority_x_event", SleepsOn(c)',
         Silent(c), signal_count'[c.event] = signal_count[c.event],
         SleepsOn(c) => Covered(c.event), high_priority_x_waiters' > 0
  PROVE  At({"set_x"})' \/ WriterThere' \/ At({"look_x"})'
<1>1. c.thread \in high /\ prio
  BY DEF StateInv, EventTypeInv, CellInv, EventOf, high_priority
<1>2. SleepsOn(c) \/ WriterThere'
  BY NewSleeper
<1>3. SleepsOn(c) => At({"set_x"}) \/ WriterThere \/ At({"look_x"})
  BY DEF Covered
<1>4. CASE At({"set_x"})
  BY <1>4, SetterStays DEF StateInv
<1>5. CASE WriterThere
  BY <1>1, <1>5, WriterStays DEF StateInv, At
<1>6. CASE At({"look_x"})
  <2>1. PICK v \in Thread : pc[v] = "look_x"
    BY <1>6 DEF At
  <2>2. pc'[v] = pc[v] \/ LookHigh(v) \/ LookLow(v) \/ ResetWaiterFlag(v) \/ SetEvent(v)
    BY <2>1, LookerStays DEF StateInv
  <2>3. pc'[v] = "look_x" \/ LookHigh(v)
    BY <2>1, <2>2 DEF LookLow, ResetWaiterFlag, SetEvent
  <2>4. LookHigh(v) => pc'[v] = "set_x"
    BY <2>1 DEF LookHigh, lockVars, highCounts, Goto, StateInv, TypeInv
  <2> QED
    BY <2>3, <2>4 DEF At
<1> QED
  BY <1>2, <1>3, <1>4, <1>5, <1>6

LEMMA CoverS ==
  ASSUME StateInv, Next, ~Aborted', NEW c \in cells, c.event = "high_priority_s_event", SleepsOn(c)',
         Silent(c), signal_count'[c.event] = signal_count[c.event],
         SleepsOn(c) => Covered(c.event), high_priority_s_waiters' > 0
  PROVE  At({"set_s"})' \/ WriterAsks' \/ At({"look_x", "look_s"})'
<1>1. c.thread \in high /\ prio
  BY DEF StateInv, EventTypeInv, CellInv, EventOf, high_priority
<1>2. SleepsOn(c) \/ WriterThere'
  BY NewSleeper
<1>3. SleepsOn(c) => At({"set_s"}) \/ WriterAsks \/ At({"look_x", "look_s"})
  BY DEF Covered, WriterAsks
<1>4. CASE At({"set_s"})
  BY <1>4, SetterStays DEF StateInv
<1>5. CASE WriterAsks
  <2>1. WriterAsks' \/ At({"look_x"})'
    BY <1>1, <1>5, WriterAsksStays
  <2> QED
    BY <2>1 DEF At
<1>6. CASE At({"look_x", "look_s"})
  <2>1. PICK v \in Thread : pc[v] \in {"look_x", "look_s"}
    BY <1>6 DEF At
  <2>2. pc'[v] = pc[v] \/ LookHigh(v) \/ LookLow(v) \/ ResetWaiterFlag(v) \/ SetEvent(v)
    BY <2>1, LookerStays DEF StateInv
  <2>3. pc'[v] = pc[v] \/ LookHigh(v)
    BY <2>1, <2>2 DEF LookLow, ResetWaiterFlag, SetEvent
  <2>4. CASE high_priority_x_waiters > 0
    BY <2>4, CountedX, <1>5
  <2>5. LookHigh(v) /\ ~(high_priority_x_waiters > 0) => pc'[v] \in {"look_s", "set_s"}
    BY <2>1 DEF LookHigh, lockVars, highCounts, Goto, StateInv, TypeInv
  <2> QED
    BY <2>1, <2>3, <2>4, <2>5 DEF At
<1> QED
  BY <1>2, <1>3, <1>4, <1>5, <1>6 DEF WriterAsks

LEMMA CoverLow ==
  ASSUME StateInv, TypeInv', WordInv', Next, ~Aborted', NEW c \in cells, c.event = "event",
         SleepsOn(c)', Silent(c), signal_count'[c.event] = signal_count[c.event],
         SleepsOn(c) => Covered(c.event), waiters' = 1
  PROVE  At({"set"})' \/ Somebody' \/ At({"look_x", "look_s", "look", "clear"})'
<1>2. SleepsOn(c) \/ WriterThere' \/ Somebody
  BY NewSleeper
<1>3. SleepsOn(c) => At({"set"}) \/ Somebody \/ At({"look_x", "look_s", "look", "clear"})
  BY DEF Covered, Somebody
<1>4. CASE At({"set"})
  BY <1>4, SetterStays DEF StateInv
<1>5. CASE Somebody
  <2>1. Somebody' \/ At({"look_x", "look"})'
    BY <1>5, SomebodyStays
  <2> QED
    BY <2>1 DEF At
<1>6. CASE At({"look_x", "look_s", "look", "clear"})
  <2>1. PICK v \in Thread : pc[v] \in {"look_x", "look_s", "look", "clear"}
    BY <1>6 DEF At
  <2>2. pc'[v] = pc[v] \/ LookHigh(v) \/ LookLow(v) \/ ResetWaiterFlag(v) \/ SetEvent(v)
    BY <2>1, LookerStays DEF StateInv
  <2>3. pc'[v] = pc[v] \/ LookHigh(v) \/ LookLow(v) \/ ResetWaiterFlag(v)
    BY <2>1, <2>2 DEF SetEvent
  <2>4. CASE high_priority_x_waiters > 0
    <3>1. WriterAsks
      BY <2>4, CountedX
    <3>2. Somebody
      BY <3>1 DEF WriterAsks, Somebody, HighAsks
    <3> QED
      BY <3>2, <1>5
  <2>5. CASE high_priority_s_waiters > 0
    BY <2>5, CountedS, <1>5
  <2>6. LookHigh(v) /\ ~(high_priority_x_waiters > 0) /\ ~(high_priority_s_waiters > 0)
           => pc'[v] \in {"look_s", "look"}
    BY <2>1 DEF LookHigh, Goto, StateInv, TypeInv
  <2>7. LookLow(v) => pc'[v] = "clear"
    BY DEF LookLow, lockVars, Goto, StateInv, TypeInv
  <2>8. ~ResetWaiterFlag(v)
    BY DEF ResetWaiterFlag
  <2> QED
    BY <2>1, <2>3, <2>4, <2>5, <2>6, <2>7, <2>8 DEF At
<1> QED
  BY <1>2, <1>3, <1>4, <1>5, <1>6 DEF Somebody

LEMMA CoverInit == Init => CoverInv
  BY DEF Init, ArrayInit, CoverInv

\* Who is down stays down.
LEMMA AbortedStays ==
  ASSUME TypeInv, PlaceInv, Next, Aborted
  PROVE  Aborted'
<1>1. PICK v \in Thread : pc[v] = "aborted"
  BY DEF Aborted
<1> DEFINE Goal == pc'[v] = "aborted"
<1> USE <1>1 DEF TypeInv, PlaceInv, Reserves, Owns, Goto, lockVars, own, arrayVars, eventVars, writer, highCounts, build
<1>2. ASSUME NEW t \in Thread, StandBack(t) PROVE Goal
  BY <1>2 DEF StandBack, Failed, GotoReserve, GetArray
<1>3. ASSUME NEW t \in Thread, GoOn(t) PROVE Goal
  BY <1>3 DEF GoOn
<1>4. ASSUME NEW t \in Thread, SLockGets(t) PROVE Goal
  BY <1>4 DEF SLockGets, Decr, Got
<1>5. ASSUME NEW t \in Thread, LockFails(t) PROVE Goal
  BY <1>5 DEF LockFails, EndLow, Failed, GotoReserve, GetArray
<1>6. ASSUME NEW t \in Thread, Announce(t) PROVE Goal
  BY <1>6 DEF Announce, AfterAnnounce
<1>7. ASSUME NEW t \in Thread, Retract(t) PROVE Goal
  BY <1>7 DEF Retract
<1>8. ASSUME NEW t \in Thread, XLow(t) PROVE Goal
  BY <1>8 DEF XLow
<1>9. ASSUME NEW t \in Thread, XDecr(t) PROVE Goal
  BY <1>9 DEF XDecr, Decr, EndLow
<1>10. ASSUME NEW t \in Thread, Relock(t) PROVE Goal
  BY <1>10 DEF Relock, EndLow, Got
<1>11. ASSUME NEW t \in Thread, SetWriter(t) PROVE Goal
  BY <1>11 DEF SetWriter, WriterThenFlag
<1>12. ASSUME NEW t \in Thread, XWaitBegin(t) PROVE Goal
  BY <1>12 DEF XWaitBegin
<1>13. ASSUME NEW t \in Thread, XWaitReserve(t) PROVE Goal
  BY <1>13 DEF XWaitReserve, GotoReserve, GetArray
<1>14. ASSUME NEW t \in Thread, XWaitSleep(t) PROVE Goal
  BY <1>14 DEF XWaitSleep
<1>15. ASSUME NEW t \in Thread, XWaitEnd(t) PROVE Goal
  BY <1>15 DEF XWaitEnd, Got
<1>16. ASSUME NEW t \in Thread, SUnlock(t) PROVE Goal
  BY <1>16 DEF SUnlock
<1>17. ASSUME NEW t \in Thread, XPrepareUnlock(t) PROVE Goal
  BY <1>17 DEF XPrepareUnlock
<1>18. ASSUME NEW t \in Thread, XUnlock(t) PROVE Goal
  BY <1>18 DEF XUnlock, XLockIncr
<1>19. ASSUME NEW t \in Thread, LookHigh(t) PROVE Goal
  BY <1>19 DEF LookHigh
<1>20. ASSUME NEW t \in Thread, LookLow(t) PROVE Goal
  BY <1>20 DEF LookLow
<1>21. ASSUME NEW t \in Thread, ResetWaiterFlag(t) PROVE Goal
  BY <1>21 DEF ResetWaiterFlag
<1>22. ASSUME NEW t \in Thread, SetEvent(t) PROVE Goal
  BY <1>22 DEF SetEvent
<1>23. ASSUME NEW t \in Thread, NEW u \in Thread, Pass(t, u) PROVE Goal
  BY <1>23 DEF Pass
<1>24. ASSUME NEW t \in Thread, Call(t) PROVE Goal
  BY <1>24 DEF Call
<1>25. ASSUME NEW t \in Thread, CallAgain(t) PROVE Goal
  BY <1>25 DEF CallAgain
<1>26. ASSUME NEW t \in Thread, XLockNowait(t) PROVE Goal
  BY <1>26 DEF XLockNowait
<1>27. ASSUME NEW t \in Thread, UNCHANGED <<lockVars, own>>, ReserveCell(t) PROVE Goal
  BY <1>27 DEF ReserveCell
<1>28. ASSUME NEW t \in Thread, UNCHANGED <<lockVars, own>>, ReserveFails(t) PROVE Goal
  BY <1>28 DEF ReserveFails, GetArray
<1>29. ASSUME NEW t \in Thread, UNCHANGED <<lockVars, own>>, ResetEvent(t) PROVE Goal
  BY <1>29 DEF ResetEvent
<1>30. ASSUME NEW t \in Thread, UNCHANGED <<lockVars, own>>, WaitEvent(t) PROVE Goal
  BY <1>30 DEF WaitEvent, FreeCell
<1>31. ASSUME NEW t \in Thread, UNCHANGED <<lockVars, own>>, Cancel(t) PROVE Goal
  BY <1>31 DEF Cancel, FreeCell
<1>32. Goal
  BY <1>2, <1>3, <1>4, <1>5, <1>6, <1>7, <1>8, <1>9, <1>10, <1>11, <1>12,
     <1>13, <1>14, <1>15, <1>16, <1>17, <1>18, <1>19, <1>20, <1>21, <1>22, <1>23,
     <1>24, <1>25, <1>26, <1>27, <1>28, <1>29, <1>30, <1>31 DEF Next, Busy, ArrayStep
<1> QED
  BY <1>1, <1>32 DEF Aborted

LEMMA CoverStep ==
  ASSUME StateInv, StateInv', CoverInv, Next
  PROVE  CoverInv'
<1> SUFFICES ASSUME ~Aborted', NEW c \in cells', SleepsOn(c)', Silent(c)'
             PROVE  Covered(c.event)'
  BY DEF CoverInv
<1>1. /\ c \in cells /\ c.thread \in Thread /\ c.event \in Event
      /\ Silent(c) /\ signal_count'[c.event] = signal_count[c.event]
  BY SilentBefore DEF StateInv, SleepsOn
<1>2. SleepsOn(c) => Covered(c.event)
  BY <1>1, AbortedStays DEF CoverInv, StateInv
<1>3. /\ c.event = "high_priority_x_event" => high_priority_x_waiters' > 0
      /\ c.event = "high_priority_s_event" => high_priority_s_waiters' > 0
      /\ c.event = "event" => reserver' # c.thread
  <2>1. (StateInv => CountsSleepers)'
    BY SleeperCounted, PTL
  <2> QED
    BY <2>1 DEF CountsSleepers
<1>4. CASE c.event = "wait_ex_event"
  BY <1>1, <1>2, <1>4, CoverEx DEF Covered
<1>5. CASE c.event = "high_priority_x_event"
  BY <1>1, <1>2, <1>3, <1>5, CoverX DEF Covered
<1>6. CASE c.event = "high_priority_s_event"
  BY <1>1, <1>2, <1>3, <1>6, CoverS DEF Covered, WriterAsks
<1>7. CASE c.event = "event"
  <2>1. waiters' = 1 \/ At({"set"})'
    BY <1>3, <1>7 DEF StateInv, FlagInv, SleepsOn
  <2>2. waiters' = 1 => At({"set"})' \/ Somebody' \/ At({"look_x", "look_s", "look", "clear"})'
    BY <1>1, <1>2, <1>7, CoverLow DEF StateInv
  <2> QED
    BY <1>7, <2>1, <2>2 DEF Covered, Somebody
<1> QED
  BY <1>1, <1>4, <1>5, <1>6, <1>7, RwAssumption

----------------------------------------------------------------------------
(* The theorems.                                                           *)

\* The inductive invariant.
WakeInv == StateInv /\ CoverInv

LEMMA Inductive == Spec => []WakeInv
<1>1. Init => WakeInv
  BY TypeInit, PlaceInit, WantInit, WordInit, WriterInit, EventTypeInit, CellInit, SignalInit,
     CountInit, FlagInit, CoverInit DEF WakeInv, StateInv
<1>2. WakeInv /\ Next => WakeInv'
  <2> SUFFICES ASSUME StateInv, CoverInv, Next PROVE StateInv' /\ CoverInv'
    BY DEF WakeInv
  <2>1. StateInv'
    BY TypeStep, PlaceStep, WantStep, WordStep, WriterStep, EventTypeStep, CellStep, SignalStep,
       CountStep, FlagStep DEF StateInv
  <2> QED
    BY <2>1, CoverStep
<1>3. WakeInv /\ UNCHANGED vars => WakeInv'
  <2> SUFFICES ASSUME WakeInv, UNCHANGED vars PROVE WakeInv'
    OBVIOUS
  <2> USE DEF WakeInv, StateInv, vars, arrayVars, eventVars, lockVars, highCounts, writer, own, build
  <2>1. TypeInv' /\ PlaceInv' /\ WantInv'
    BY DEF TypeInv, PlaceInv, WantInv, Reserves, Owns
  <2>2. WordInv' /\ WriterInv'
    BY DEF WordInv, Word, Owners, Readers, WriterInv, Reserves, Owns
  <2>3. EventTypeInv'
    BY DEF EventTypeInv
  <2>4. CellInv'
    BY DEF CellInv, HasCell, EventOf, high_priority
  <2>5. SignalInv' /\ FlagInv'
    BY DEF SignalInv, FlagInv, Silent, At
  <2>6. CountInv'
    BY DEF CountInv, Counted, Announced, HasCell
  <2>7. CoverInv'
    BY DEF CoverInv, Aborted, SleepsOn, Silent, Covered, At, WriterThere, Owners, HighAsks, Pending, Readers
  <2> QED
    BY <2>1, <2>2, <2>3, <2>4, <2>5, <2>6, <2>7
<1> QED
  BY <1>1, <1>2, <1>3, PTL DEF Spec

\* The lock_word that rw_lock_lock_word_decr, rw_lock_s_unlock_func and
\* rw_lock_x_unlock_func take down and up means what the table at the top of
\* sync0rw.cc says; so an owner is alone, whoever else asked for the lock,
\* passed it on or locked it again.
THEOREM WordTells == Spec => []LockWordTells
<1>1. WakeInv => LockWordTells
  <2> SUFFICES ASSUME WakeInv PROVE LockWordTells
    OBVIOUS
  <2>1. CASE Owners # {}
    <3>1. PICK t \in Owners : TRUE
      BY <2>1
    <3>2. /\ Owners = {t} /\ Readers = {} /\ reserver = NONE
          /\ lock_word = IF depth[t] = 1 THEN 0 ELSE 2 - depth[t] - X_LOCK_DECR
      BY <3>1 DEF WakeInv, StateInv, WordInv, Word
    <3>3. Cardinality(Readers) = 0
      BY <3>2, FS_EmptySet
    <3> QED
      BY <2>1, <3>2, <3>3 DEF LockWordTells
  <2>2. CASE Owners = {} /\ reserver # NONE
    <3>1. lock_word = -Cardinality(Readers)
      BY <2>2, ReadersFinite DEF WakeInv, StateInv, WordInv
    <3> QED
      BY <2>2, <3>1 DEF LockWordTells
  <2>3. CASE Owners = {} /\ reserver = NONE
    <3>1. lock_word = X_LOCK_DECR - Cardinality(Readers)
      BY <2>3 DEF WakeInv, StateInv, WordInv
    <3> QED
      BY <2>3, <3>1 DEF LockWordTells
  <2> QED
    BY <2>1, <2>2, <2>3
<1> QED
  BY <1>1, Inductive, PTL

\* rw_lock_set_writer_id_and_recursion_flag writes the id before the flag and
\* rw_lock_x_prepare_unlock resets the flag before the word: whoever reads the
\* flag set finds the id of the thread that has the lock or has reserved it,
\* and ut_a(!lock->recursive) holds.
THEOREM WriterTrusted == Spec => []WriterIsValid
<1>1. WakeInv => WriterIsValid
  BY DEF WakeInv, StateInv, WriterInv, WriterIsValid, Owns, Reserves, Owners
<1> QED
  BY <1>1, Inductive, PTL

\* rw_lock_x_lock_low takes the lock word without a locked instruction when
\* local_recursive was set and writer_thread is the caller: only the owner ever
\* gets there, although both were read at different times.
THEOREM OnlyOwnerRelocks == Spec => [][\A t \in Thread : Relock(t) => t \in Owners]_vars
<1>1. WakeInv => \A t \in Thread : Relock(t) => t \in Owners
  BY DEF WakeInv, StateInv, WriterInv, Relock, Owns, Owners
<1> QED
  BY <1>1, Inductive, PTL

\* A thread that sleeps in the wait array without having been signalled is not
\* forgotten: somebody is on the way to set its event, or has the lock or asks
\* for it with priority and will find the waiter announced when it leaves.  So
\* the order of reservation, announcement and second try in rw_lock_s_lock_spin
\* and rw_lock_x_lock_func, and of the unlock and the look at the waiters in
\* rw_lock_s_unlock_func and rw_lock_x_unlock_func, loses no wake-up, however
\* many threads there are and whatever their priorities.
THEOREM NobodyForgotten == Spec => []NoSleeperForgotten
<1>1. WakeInv => NoSleeperForgotten
  <2> SUFFICES ASSUME WakeInv, ~Aborted, NEW t \in Thread, Sleeps(t) PROVE Covered(want[t])
    BY DEF NoSleeperForgotten
  <2>1. Cell(t) \in cells /\ Cell(t).thread = t /\ Cell(t).event = want[t]
    BY CellOf DEF WakeInv, StateInv, Sleeps, WithCell
  <2>2. Silent(Cell(t))
    BY <2>1, SilentMeansNotSignalled DEF WakeInv, StateInv, Sleeps
  <2> QED
    BY <2>1, <2>2 DEF WakeInv, CoverInv, SleepsOn, Sleeps
<1> QED
  BY <1>1, Inductive, PTL

\* The variables of the lock keep their types: lock_word never leaves the range
\* the table allows, and the counters of the high priority waiters are never
\* negative and never above the number of such threads, although the threads
\* count themselves in and out in rw_lock_s_lock_spin and rw_lock_x_lock_func.
THEOREM TypeCorrect == Spec => []TypeOK
<1>1. WakeInv => TypeOK
  <2> SUFFICES ASSUME WakeInv PROVE TypeOK
    OBVIOUS
  <2> USE DEF WakeInv, StateInv
  <2>1. ArrayTypeOK
    <3>1. NArrays \in Nat \ {0}
      BY ArrayAssumption
    <3>2. tries \in [Thread -> Nat] /\ \A t \in Thread : tries[t] =< NArrays
      BY <3>1 DEF EventTypeInv
    <3>3. tries \in [Thread -> 0 .. NArrays]
      BY <3>1, <3>2
    <3> QED
      BY <3>3 DEF ArrayTypeOK, TypeInv, EventTypeInv
  <2>2. lock_word \in (-X_LOCK_DECR - MaxDepth) .. X_LOCK_DECR
    <3>0. X_LOCK_DECR \in Nat \ {0} /\ MaxDepth \in Nat \ {0} /\ lock_word \in Int
      BY DecrPositive, RwAssumption DEF TypeInv
    <3>1. CASE Owners # {}
      <4>1. PICK t \in Owners : TRUE
        BY <3>1
      <4>2. depth[t] \in 1 .. MaxDepth /\ lock_word = Word(depth[t])
        BY <4>1, <3>0 DEF WordInv, Owners, TypeInv
      <4> QED
        BY <4>2, <3>0 DEF Word
    <3>2. CASE Owners = {}
      <4>1. lock_word = (IF reserver = NONE THEN X_LOCK_DECR ELSE 0) - Cardinality(Readers)
        BY <3>2 DEF WordInv
      <4>2. Cardinality(Readers) \in Nat /\ Cardinality(Readers) =< Cardinality(Thread)
        BY ReadersFinite, FS_CardinalityType, ArrayAssumption
      <4>3. X_LOCK_DECR > Cardinality(Thread) /\ Cardinality(Thread) \in Nat
        BY RwAssumption, FS_CardinalityType, ArrayAssumption
      <4> QED
        BY <3>0, <4>1, <4>2, <4>3
    <3> QED
      BY <3>1, <3>2
  <2>3. /\ high_priority_s_waiters \in 0 .. Cardinality(high)
        /\ high_priority_x_waiters \in 0 .. Cardinality(high)
    BY CountedFinite DEF CountInv
  <2>4. /\ waiters \in 0 .. 1 /\ high_priority_wait_ex_waiter \in 0 .. 1
        /\ recursive \in BOOLEAN /\ writer_thread \in Thread \cup {NONE}
        /\ depth \in [Thread -> 0 .. MaxDepth]
        /\ reserver \in Thread \cup {NONE}
    BY DEF TypeInv, EventTypeInv
  <2> QED
    BY <2>1, <2>2, <2>3, <2>4 DEF TypeOK
<1> QED
  BY <1>1, Inductive, PTL
=============================================================================
