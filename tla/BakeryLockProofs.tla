-------------------------- MODULE BakeryLockProofs --------------------------
(***************************************************************************)
(* Proofs about BakeryLock for every number of threads and every bound on  *)
(* the tickets: type correctness, mutual exclusion, first come first       *)
(* served, and that the lock implements the abstract Mutex.                *)
(***************************************************************************)
EXTENDS BakeryLock, TLAPS

\* The order of two tickets, the thread index breaking a tie.
Precedes(i, k) ==
    number[i] < number[k] \/ (number[i] = number[k] /\ i < k)

\* Thread i, which has a ticket, is served before whatever ticket thread k
\* has or is about to take.  In "take" thread k has seen a number above
\* num_max and will read it again: it must still be there.
Ahead(i, k) ==
    /\ pc[k] = "compare" /\ i < j[k] => number[i] =< num_max[k]
    /\ pc[k] = "take" /\ i < j[k] =>
         number[i] =< num_max[k] /\ num_max[k] < number[j[k]]
    /\ pc[k] = "assign" => number[i] =< num_max[k]
    /\ HasTicket(k) => Precedes(i, k)

\* Thread i has left the loop round for thread k.
Passed(i, k) ==
    \/ pc[i] = "cs"
    \/ pc[i] \in {"await"} \cup Spinning /\ k < j[i]

\* Whoever thread i has passed comes after i.
PassedInv ==
    \A i, k \in Thread : i # k /\ Passed(i, k) => Ahead(i, k)

\* A thread that i watches began to choose after i had its ticket, and in the
\* last read of the condition its ticket is not below the one of i.
SpinInv ==
    \A i, k \in Thread : i # k /\ pc[i] \in Spinning /\ k = j[i] =>
        /\ pc[k] \in Doorway => Ahead(i, k)
        /\ pc[i] = "equal" /\ HasTicket(k) => number[i] =< number[k]

\* Whoever had a ticket when i began to choose, and has it still, is ahead.
BeforeInv ==
    \A i, k \in Thread : pc[i] # "idle" /\ k \in before[i] =>
        i # k /\ HasTicket(k) /\ Ahead(k, i)

IInv == TypeOK /\ PassedInv /\ SpinInv /\ BeforeInv

----------------------------------------------------------------------------
\* Thread numbers are integers below N.
LEMMA ThreadInt == N \in Nat /\ \A i \in Thread : i \in Int /\ 0 =< i /\ i < N
  BY NAssumption DEF Thread

USE ThreadInt DEF Doorway, Scanning, Spinning, Waiting, Ticketed

\* The variables keep their types, tickets and choosing flags their meaning.
LEMMA TypeInit == Init => TypeOK
  BY DEF Init, TypeOK, Types, Meaning, HasTicket

\* Every step keeps the types.
LEMMA TypeStep == TypeOK /\ [Next]_vars => TypeOK'
  <1> SUFFICES ASSUME TypeOK, [Next]_vars PROVE TypeOK'
    OBVIOUS
  <1>1. CASE UNCHANGED vars
    BY <1>1 DEF vars, TypeOK, Types, Meaning, HasTicket
  <1>2. ASSUME NEW i \in Thread, Lock(i) PROVE TypeOK'
    <2>1. Types'
      <3>1. {k \in Thread : HasTicket(k)} \in SUBSET Thread
        OBVIOUS
      <3>2. before' \in [Thread -> SUBSET Thread]
        BY <1>2, <3>1 DEF Lock, TypeOK, Types
      <3> QED  BY <1>2, <3>2 DEF Lock, TypeOK, Types
    <2>2. ASSUME NEW k \in Thread PROVE Meaning(k)'
      BY <1>2 DEF Lock, TypeOK, Types, Meaning, HasTicket
    <2> QED  BY <2>1, <2>2 DEF TypeOK
  <1>3. ASSUME NEW i \in Thread, MaxCompare(i) PROVE TypeOK'
    <2>1. Types'
      <3>1. j[i] \in 0 .. N /\ j[i] + 1 \in 0 .. N
        BY <1>3 DEF MaxCompare, TypeOK, Types, Meaning
      <3>2. j' \in [Thread -> 0 .. N]
        BY <1>3, <3>1 DEF MaxCompare, TypeOK, Types
      <3>3. pc' \in [Thread -> {"idle"} \cup Doorway \cup Ticketed]
        BY <1>3 DEF MaxCompare, TypeOK, Types
      <3> QED  BY <1>3, <3>1, <3>2, <3>3 DEF MaxCompare, TypeOK, Types
    <2>2. ASSUME NEW k \in Thread PROVE Meaning(k)'
      BY <1>3 DEF MaxCompare, TypeOK, Types, Meaning, HasTicket
    <2> QED  BY <2>1, <2>2 DEF TypeOK
  <1>4. ASSUME NEW i \in Thread, MaxTake(i) PROVE TypeOK'
    <2>1. Types'
      <3>1. j[i] \in 0 .. N /\ j[i] + 1 \in 0 .. N
        BY <1>4 DEF MaxTake, TypeOK, Types, Meaning
      <3>2. j' \in [Thread -> 0 .. N]
        BY <1>4, <3>1 DEF MaxTake, TypeOK, Types
      <3>3. pc' \in [Thread -> {"idle"} \cup Doorway \cup Ticketed]
        BY <1>4 DEF MaxTake, TypeOK, Types
      <3>4. number[j[i]] \in Nat
        BY <1>4 DEF MaxTake, TypeOK, Types, Meaning, Thread
      <3> QED  BY <1>4, <3>1, <3>2, <3>3, <3>4 DEF MaxTake, TypeOK, Types
    <2>2. ASSUME NEW k \in Thread PROVE Meaning(k)'
      BY <1>4 DEF MaxTake, TypeOK, Types, Meaning, HasTicket
    <2> QED  BY <2>1, <2>2 DEF TypeOK
  <1>5. ASSUME NEW i \in Thread, MaxReturn(i) PROVE TypeOK'
    <2>1. Types'
      BY <1>5 DEF MaxReturn, TypeOK, Types
    <2>2. ASSUME NEW k \in Thread PROVE Meaning(k)'
      BY <1>5 DEF MaxReturn, TypeOK, Types, Meaning, HasTicket
    <2> QED  BY <2>1, <2>2 DEF TypeOK
  <1>6. ASSUME NEW i \in Thread, TakeTicket(i) PROVE TypeOK'
    <2>1. Types'
      BY <1>6 DEF TakeTicket, Ticket, TypeOK, Types
    <2>2. ASSUME NEW k \in Thread PROVE Meaning(k)'
      BY <1>6 DEF TakeTicket, Ticket, TypeOK, Types, Meaning, HasTicket
    <2> QED  BY <2>1, <2>2 DEF TypeOK
  <1>7. ASSUME NEW i \in Thread, DoneChoosing(i) PROVE TypeOK'
    <2>1. Types'
      BY <1>7 DEF DoneChoosing, TypeOK, Types
    <2>2. ASSUME NEW k \in Thread PROVE Meaning(k)'
      BY <1>7 DEF DoneChoosing, TypeOK, Types, Meaning, HasTicket
    <2> QED  BY <2>1, <2>2 DEF TypeOK
  <1>8. ASSUME NEW i \in Thread, AwaitChoosing(i) PROVE TypeOK'
    <2>1. Types'
      BY <1>8 DEF AwaitChoosing, TypeOK, Types
    <2>2. ASSUME NEW k \in Thread PROVE Meaning(k)'
      BY <1>8 DEF AwaitChoosing, TypeOK, Types, Meaning, HasTicket
    <2> QED  BY <2>1, <2>2 DEF TypeOK
  <1>9. ASSUME NEW i \in Thread, ReadZero(i) PROVE TypeOK'
    <2>1. Types'
      <3>1. j[i] \in 0 .. N /\ j[i] + 1 \in 0 .. N
        BY <1>9 DEF ReadZero, TypeOK, Types, Meaning
      <3>2. j' \in [Thread -> 0 .. N]
        BY <1>9, <3>1 DEF ReadZero, NextPeer, SpinTo, TypeOK, Types
      <3>3. pc' \in [Thread -> {"idle"} \cup Doorway \cup Ticketed]
        BY <1>9 DEF ReadZero, NextPeer, SpinTo, TypeOK, Types
      <3> QED  BY <1>9, <3>1, <3>2, <3>3 DEF ReadZero, NextPeer, SpinTo, TypeOK, Types
    <2>2. ASSUME NEW k \in Thread PROVE Meaning(k)'
      BY <1>9 DEF ReadZero, NextPeer, SpinTo, TypeOK, Types, Meaning, HasTicket
    <2> QED  BY <2>1, <2>2 DEF TypeOK
  <1>10. ASSUME NEW i \in Thread, ReadLess(i) PROVE TypeOK'
    <2>1. Types'
      BY <1>10 DEF ReadLess, SpinTo, TypeOK, Types
    <2>2. ASSUME NEW k \in Thread PROVE Meaning(k)'
      BY <1>10 DEF ReadLess, SpinTo, TypeOK, Types, Meaning, HasTicket
    <2> QED  BY <2>1, <2>2 DEF TypeOK
  <1>11. ASSUME NEW i \in Thread, ReadEqual(i) PROVE TypeOK'
    <2>1. Types'
      <3>1. j[i] \in 0 .. N /\ j[i] + 1 \in 0 .. N
        BY <1>11 DEF ReadEqual, TypeOK, Types, Meaning
      <3>2. j' \in [Thread -> 0 .. N]
        BY <1>11, <3>1 DEF ReadEqual, LosesTie, NextPeer, SpinTo, TypeOK, Types
      <3>3. pc' \in [Thread -> {"idle"} \cup Doorway \cup Ticketed]
        BY <1>11 DEF ReadEqual, LosesTie, NextPeer, SpinTo, TypeOK, Types
      <3> QED  BY <1>11, <3>1, <3>2, <3>3 DEF ReadEqual, LosesTie, NextPeer, SpinTo, TypeOK, Types
    <2>2. ASSUME NEW k \in Thread PROVE Meaning(k)'
      BY <1>11 DEF ReadEqual, LosesTie, NextPeer, SpinTo, TypeOK, Types, Meaning, HasTicket
    <2> QED  BY <2>1, <2>2 DEF TypeOK
  <1>12. ASSUME NEW i \in Thread, Enter(i) PROVE TypeOK'
    <2>1. Types'
      BY <1>12 DEF Enter, TypeOK, Types
    <2>2. ASSUME NEW k \in Thread PROVE Meaning(k)'
      BY <1>12 DEF Enter, TypeOK, Types, Meaning, HasTicket
    <2> QED  BY <2>1, <2>2 DEF TypeOK
  <1>13. ASSUME NEW i \in Thread, Unlock(i) PROVE TypeOK'
    <2>1. Types'
      BY <1>13 DEF Unlock, ReturnTicket, TypeOK, Types
    <2>2. ASSUME NEW k \in Thread PROVE Meaning(k)'
      <3>1. /\ number' = [number EXCEPT ![i] = 0]
            /\ pc' = [pc EXCEPT ![i] = "idle"]
            /\ UNCHANGED <<choosing, j>>
            /\ pc[i] = "cs"
        BY <1>13 DEF Unlock, ReturnTicket
      <3> QED  BY <3>1 DEF TypeOK, Types, Meaning, HasTicket
    <2> QED  BY <2>1, <2>2 DEF TypeOK
  <1> QED
    BY <1>1, <1>2, <1>3, <1>4, <1>5, <1>6, <1>7, <1>8, <1>9, <1>10, <1>11,
       <1>12, <1>13 DEF Next, Step

\* The type invariant, which carries the meaning of number and choosing.
THEOREM TypeCorrect == Spec => []TypeOK
  BY TypeInit, TypeStep, PTL DEF Spec

----------------------------------------------------------------------------
(* A thread that is ahead of another stays ahead as long as it keeps its   *)
(* ticket.  The delicate case is "take": the number that k saw may only    *)
(* vanish when its owner unlocks, but an owner in the critical section is  *)
(* ahead of i and so has a ticket that is not above the one of i.          *)

\* A step of thread m leaves the other threads' state alone, and only
\* TakeTicket and Unlock write a ticket.
LEMMA StepFrame ==
  ASSUME TypeOK, NEW m \in Thread, Lock(m) \/ Step(m), NEW x \in Thread
  PROVE  /\ x # m => /\ pc'[x] = pc[x] /\ j'[x] = j[x]
                     /\ num_max'[x] = num_max[x] /\ number'[x] = number[x]
                     /\ before'[x] \subseteq before[x]
         /\ number'[x] # number[x] =>
               x = m /\ (TakeTicket(m) \/ Unlock(m))
  <1> USE DEF TypeOK, Types
  <1>1. CASE Lock(m)          BY <1>1 DEF Lock
  <1>2. CASE MaxCompare(m)    BY <1>2 DEF MaxCompare
  <1>3. CASE MaxTake(m)       BY <1>3 DEF MaxTake
  <1>4. CASE MaxReturn(m)     BY <1>4 DEF MaxReturn
  <1>5. CASE TakeTicket(m)    BY <1>5 DEF TakeTicket
  <1>6. CASE DoneChoosing(m)  BY <1>6 DEF DoneChoosing
  <1>7. CASE AwaitChoosing(m) BY <1>7 DEF AwaitChoosing
  <1>8. CASE ReadZero(m)      BY <1>8 DEF ReadZero, NextPeer, SpinTo
  <1>9. CASE ReadLess(m)      BY <1>9 DEF ReadLess, SpinTo
  <1>10. CASE ReadEqual(m)    BY <1>10 DEF ReadEqual, NextPeer, SpinTo
  <1>11. CASE Enter(m)        BY <1>11 DEF Enter
  <1>12. CASE Unlock(m)       BY <1>12 DEF Unlock, ReturnTicket
  <1> QED
    BY <1>1, <1>2, <1>3, <1>4, <1>5, <1>6, <1>7, <1>8, <1>9, <1>10, <1>11,
       <1>12 DEF Step

\* Who is ahead of a waiting thread stays ahead of it until it leaves.
LEMMA AheadStable ==
  ASSUME TypeOK, PassedInv,
         NEW m \in Thread, Lock(m) \/ Step(m),
         NEW i \in Thread, NEW k \in Thread, i # k,
         HasTicket(i), HasTicket(i)', Ahead(i, k)
  PROVE  Ahead(i, k)' /\ number'[i] = number[i]
  <1>1. number'[i] = number[i] /\ number[i] > 0
    <2>1. ~(i = m /\ TakeTicket(m))
      BY DEF TakeTicket, HasTicket
    <2>2. ~(i = m /\ Unlock(m))
      BY DEF Unlock, HasTicket, TypeOK, Types
    <2> QED  BY <2>1, <2>2, StepFrame DEF TypeOK, Types, Meaning
  <1>2. \A x \in Thread : x # i /\ pc[x] = "cs" => number[x] =< number[i]
    BY DEF PassedInv, Passed, Ahead, Precedes, TypeOK, Types
  <1>3. CASE m # k
    <2>1. /\ pc'[k] = pc[k] /\ j'[k] = j[k]
          /\ num_max'[k] = num_max[k] /\ number'[k] = number[k]
      BY <1>3, StepFrame
    <2>2. ASSUME pc[k] = "take", i < j[k]
          PROVE  number'[j[k]] = number[j[k]]
      <3>1. j[k] \in Thread /\ num_max[k] < number[j[k]] /\ number[i] =< num_max[k]
        BY <2>2 DEF Ahead, TypeOK, Types, Meaning, Thread
      <3>2. ~TakeTicket(j[k])
        BY <1>1, <3>1 DEF TakeTicket, TypeOK, Types, Meaning, HasTicket
      <3>3. ~Unlock(j[k])
        BY <1>1, <1>2, <2>2, <3>1 DEF Unlock, TypeOK, Types
      <3> QED  BY <3>1, <3>2, <3>3, StepFrame
    <2> QED
      BY <1>1, <2>1, <2>2 DEF Ahead, HasTicket, Precedes
  <1>4. CASE m = k
    <2> USE <1>1, <1>4 DEF Ahead, HasTicket, Precedes, TypeOK, Types
    <2>1. CASE Lock(k)          BY <2>1 DEF Lock
    <2>2. CASE MaxCompare(k)    BY <2>2 DEF MaxCompare
    <2>3. CASE MaxTake(k)
      <3>1. j[k] \in Thread /\ i \in Int
        BY <2>3 DEF MaxTake, Meaning, Thread
      <3>2. /\ pc'[k] = "compare" /\ j'[k] = j[k] + 1
            /\ num_max'[k] = number[j[k]]
        BY <2>3 DEF MaxTake
      <3>3. i < j'[k] => number[i] =< number[j[k]]
        BY <2>3, <3>1, <3>2 DEF MaxTake
      <3> QED  BY <3>1, <3>2, <3>3
    <2>4. CASE MaxReturn(k)     BY <2>4 DEF MaxReturn
    <2>5. CASE TakeTicket(k)    BY <2>5 DEF TakeTicket, Ticket
    <2>6. CASE DoneChoosing(k)  BY <2>6 DEF DoneChoosing
    <2>7. CASE AwaitChoosing(k) BY <2>7 DEF AwaitChoosing
    <2>8. CASE ReadZero(k)      BY <2>8 DEF ReadZero, NextPeer, SpinTo
    <2>9. CASE ReadLess(k)      BY <2>9 DEF ReadLess, SpinTo
    <2>10. CASE ReadEqual(k)    BY <2>10 DEF ReadEqual, NextPeer, SpinTo
    <2>11. CASE Enter(k)        BY <2>11 DEF Enter
    <2>12. CASE Unlock(k)       BY <2>12 DEF Unlock, ReturnTicket
    <2> QED
      BY <2>1, <2>2, <2>3, <2>4, <2>5, <2>6, <2>7, <2>8, <2>9, <2>10, <2>11,
         <2>12 DEF Step
  <1> QED  BY <1>1, <1>3, <1>4

----------------------------------------------------------------------------
\* Nobody has a ticket at the start.
LEMMA InductiveInit == Init => IInv
  BY TypeInit DEF Init, IInv, PassedInv, Passed, SpinInv, BeforeInv

\* Every step keeps the inductive invariant.
LEMMA InductiveStep == IInv /\ [Next]_vars => IInv'
  <1> SUFFICES ASSUME IInv, [Next]_vars PROVE IInv'
    OBVIOUS
  <1> USE DEF IInv
  <1>1. CASE UNCHANGED vars
    BY <1>1 DEF vars, TypeOK, Types, Meaning, HasTicket, PassedInv, Passed,
       SpinInv, BeforeInv, Ahead, Precedes
  <1>2. ASSUME NEW m \in Thread, Lock(m) \/ Step(m) PROVE IInv'
    <2>1. TypeOK'
      BY <1>2, TypeStep DEF Next
    <2>2. PassedInv'
      <3> SUFFICES ASSUME NEW i \in Thread, NEW k \in Thread, i # k,
                          Passed(i, k)'
                   PROVE  Ahead(i, k)'
        BY DEF PassedInv
      <3>1. HasTicket(i)'
        BY DEF Passed, HasTicket
      <3>2. HasTicket(i) /\ Ahead(i, k)
        <4>1. CASE Passed(i, k)
          BY <4>1 DEF Passed, HasTicket, PassedInv
        <4>2. CASE ~Passed(i, k)
          <5>1. m = i
            BY <1>2, <4>2, StepFrame DEF Passed
          <5>2. CASE ReadZero(i)
            BY <4>2, <5>2 DEF ReadZero, NextPeer, SpinTo, Passed, SpinInv,
               Ahead, HasTicket, TypeOK, Types, Meaning
          <5>3. CASE ReadEqual(i)
            BY <4>2, <5>3 DEF ReadEqual, LosesTie, NextPeer, SpinTo, Passed,
               SpinInv, Ahead, Precedes, HasTicket, TypeOK, Types, Meaning
          <5>4. ~(ReadZero(i) \/ ReadEqual(i)) => FALSE
            BY <1>2, <4>2, <5>1 DEF Lock, Step, MaxCompare, MaxTake, MaxReturn,
               TakeTicket, DoneChoosing, AwaitChoosing, ReadLess, SpinTo,
               Enter, Unlock, Passed, TypeOK, Types
          <5> QED  BY <5>2, <5>3, <5>4
        <4> QED  BY <4>1, <4>2
      <3> QED  BY <1>2, <3>1, <3>2, AheadStable
    <2>3. SpinInv'
      <3> SUFFICES ASSUME NEW i \in Thread, NEW k \in Thread, i # k,
                          pc'[i] \in Spinning, k = j'[i]
                   PROVE  /\ pc'[k] \in Doorway => Ahead(i, k)'
                          /\ pc'[i] = "equal" /\ HasTicket(k)' =>
                               number'[i] =< number'[k]
        BY DEF SpinInv
      <3>1. HasTicket(i)'
        BY DEF HasTicket
      <3>2. CASE m = i
        <4>1. pc[k] = pc'[k] /\ number[k] = number'[k]
          BY <1>2, <3>2, StepFrame
        <4>2. CASE AwaitChoosing(i)
          BY <4>1, <4>2 DEF AwaitChoosing, PeerHasChosen, TypeOK, Types, Meaning
        <4>3. CASE ReadZero(i) \/ ReadLess(i) \/ ReadEqual(i)
          <5>1. pc[i] \in Spinning /\ j'[i] = j[i] /\ HasTicket(i)
            BY <4>3 DEF ReadZero, ReadLess, ReadEqual, NextPeer, SpinTo,
               HasTicket, TypeOK, Types
          <5>2. pc'[k] \in Doorway => Ahead(i, k)'
            BY <1>2, <3>1, <3>2, <4>1, <5>1, AheadStable DEF SpinInv
          <5>3. pc'[i] = "equal" => number'[i] =< number'[k]
            BY <4>1, <4>3, <5>1 DEF ReadZero, ReadLess, ReadEqual, NextPeer,
               SpinTo, TypeOK, Types
          <5> QED  BY <5>2, <5>3
        <4> QED
          BY <1>2, <3>2, <4>2, <4>3 DEF Lock, Step, MaxCompare, MaxTake,
             MaxReturn, TakeTicket, DoneChoosing, Enter, Unlock, TypeOK, Types
      <3>3. CASE m # i
        <4>1. pc[i] = pc'[i] /\ j[i] = j'[i] /\ number[i] = number'[i]
          BY <1>2, <3>3, StepFrame
        <4>2. HasTicket(i)
          BY <4>1 DEF HasTicket
        <4>3. CASE pc[k] \in Doorway
          <5>1. Ahead(i, k)'
            BY <1>2, <3>1, <4>1, <4>2, <4>3, AheadStable DEF SpinInv
          <5> QED
            BY <2>1, <4>1, <5>1 DEF Ahead, Precedes, TypeOK, Types
        <4>4. CASE pc[k] = "idle"
          <5>1. m # k => pc'[k] = "idle"
            BY <1>2, <4>4, StepFrame
          <5>2. m = k => Lock(k)
            BY <1>2, <4>4 DEF Step, MaxCompare, MaxTake, MaxReturn, TakeTicket,
               DoneChoosing, AwaitChoosing, ReadZero, ReadLess, ReadEqual,
               Enter, Unlock
          <5>3. Lock(k) => pc'[k] = "compare" /\ j'[k] = 0
            BY DEF Lock, TypeOK, Types
          <5> QED
            BY <5>1, <5>2, <5>3 DEF Ahead, HasTicket
        <4>5. CASE HasTicket(k)
          <5>1. pc'[k] \in Ticketed => number'[k] = number[k]
            BY <1>2, <4>5, StepFrame DEF HasTicket, TakeTicket, Unlock, TypeOK,
               Types
          <5>2. pc'[k] \notin Doorway
            BY <1>2, <4>5, StepFrame DEF HasTicket, Lock, Step, MaxCompare,
               MaxTake, MaxReturn, TakeTicket, DoneChoosing, AwaitChoosing,
               ReadZero, ReadLess, ReadEqual, NextPeer, SpinTo, Enter, Unlock,
               TypeOK, Types
          <5> QED
            BY <4>1, <4>5, <5>1, <5>2 DEF SpinInv, HasTicket
        <4> QED
          BY <4>3, <4>4, <4>5 DEF HasTicket, TypeOK, Types
      <3> QED  BY <3>2, <3>3
    <2>4. BeforeInv'
      <3> SUFFICES ASSUME NEW i \in Thread, NEW k \in Thread,
                          pc'[i] # "idle", k \in before'[i]
                   PROVE  i # k /\ HasTicket(k)' /\ Ahead(k, i)'
        BY DEF BeforeInv
      <3>1. CASE pc[i] = "idle"
        <4>1. m = i /\ Lock(i)
          BY <1>2, <3>1, StepFrame DEF Step, MaxCompare, MaxTake, MaxReturn,
             TakeTicket, DoneChoosing, AwaitChoosing, ReadZero, ReadLess,
             ReadEqual, Enter, Unlock
        <4>2. HasTicket(k) /\ i # k
          BY <3>1, <4>1 DEF Lock, HasTicket, TypeOK, Types
        <4>3. pc'[k] = pc[k] /\ pc'[i] = "compare" /\ j'[i] = 0
          BY <4>1, <4>2 DEF Lock, TypeOK, Types
        <4> QED  BY <4>2, <4>3 DEF HasTicket, Ahead
      <3>2. CASE pc[i] # "idle"
        <4>1. k \in before[i] /\ ~Unlock(k)
          BY <1>2, <3>2 DEF Lock, Step, MaxCompare, MaxTake, MaxReturn,
             TakeTicket, DoneChoosing, AwaitChoosing, ReadZero, ReadLess,
             ReadEqual, Enter, Unlock, TypeOK, Types
        <4>2. i # k /\ HasTicket(k) /\ Ahead(k, i)
          BY <3>2, <4>1 DEF BeforeInv
        <4>3. HasTicket(k)'
          BY <1>2, <4>1, <4>2, StepFrame DEF HasTicket, Lock, Step, MaxCompare,
             MaxTake, MaxReturn, TakeTicket, DoneChoosing, AwaitChoosing,
             ReadZero, ReadLess, ReadEqual, NextPeer, SpinTo, Enter, TypeOK,
             Types
        <4> QED  BY <1>2, <4>2, <4>3, AheadStable
      <3> QED  BY <3>1, <3>2
    <2> QED  BY <2>1, <2>2, <2>3, <2>4
  <1> QED  BY <1>1, <1>2 DEF Next

\* IInv holds in every state of the lock.
THEOREM Inductive == Spec => []IInv
  BY InductiveInit, InductiveStep, PTL DEF Spec

----------------------------------------------------------------------------
\* Two threads between bakery_lock and bakery_unlock would each be ahead of
\* the other.
LEMMA InvMutualExclusion == IInv => MutualExclusion
  BY DEF IInv, MutualExclusion, PassedInv, Passed, Ahead, Precedes, HasTicket,
     TypeOK, Types

\* bakery_lock admits one thread at a time, for any number of threads.
THEOREM Safety == Spec => []MutualExclusion
  BY Inductive, InvMutualExclusion, PTL

\* A thread in the critical section is ahead of every ticket, the earlier
\* ones included, which are ahead of it.
LEMMA InvFirstCome == IInv => FirstComeFirstServed
  <1> SUFFICES ASSUME IInv, NEW i \in Thread, pc[i] = "cs", NEW k \in before[i]
               PROVE  FALSE
    BY DEF FirstComeFirstServed, IInv, TypeOK, Types
  <1>1. k \in Thread
    BY DEF IInv, TypeOK, Types
  <1>2. i # k /\ HasTicket(k) /\ HasTicket(i) /\ Ahead(k, i)
    BY <1>1 DEF IInv, BeforeInv, HasTicket
  <1>3. Ahead(i, k)
    BY <1>1, <1>2 DEF IInv, PassedInv, Passed
  <1> QED
    BY <1>1, <1>2, <1>3 DEF IInv, Ahead, Precedes, TypeOK, Types

\* No thread overtakes one that had its ticket before the call of bakery_lock.
THEOREM FirstCome == Spec => []FirstComeFirstServed
  BY Inductive, InvFirstCome, PTL

----------------------------------------------------------------------------
(* The refinement: Lock is Request, Enter is Acquire, Unlock is Release,   *)
(* every other step leaves the abstract state alone.                       *)

\* The abstract state as it appears in the mapping.
Asking == {i \in Thread : pc[i] \in Doorway \cup Waiting}
Inside == {i \in Thread : pc[i] = "cs"}

\* At the start nobody is in the critical section.
LEMMA RefinesInit == Init => Abstract!Init
  BY DEF Init, Abstract!Init

\* A step of the lock is an entry, an exit, or invisible to Mutex.
LEMMA RefinesStep ==
  IInv /\ IInv' /\ [Next]_vars => [Abstract!Next]_(Abstract!vars)
  <1> SUFFICES ASSUME IInv, IInv', [Next]_vars
               PROVE  \/ Abstract!Next
                      \/ Asking' = Asking /\ Inside' = Inside
    BY DEF Abstract!vars, Asking, Inside
  <1>0. MutualExclusion'
    BY InvMutualExclusion, PTL
  <1> USE DEF IInv, TypeOK, Types, Asking, Inside
  <1>1. CASE UNCHANGED vars
    BY <1>1 DEF vars
  <1>2. ASSUME NEW i \in Thread, Lock(i) PROVE Abstract!Request(i)
    <2>1. /\ pc[i] = "idle" /\ pc'[i] = "compare"
          /\ \A x \in Thread : x # i => pc'[x] = pc[x]
      BY <1>2 DEF Lock
    <2>2. i \notin Asking \cup Inside
      BY <2>1
    <2>3. Asking' = Asking \cup {i} /\ Inside' = Inside
      BY <2>1
    <2> QED  BY <2>2, <2>3 DEF Abstract!Request
  <1>3. ASSUME NEW i \in Thread, Enter(i) PROVE Abstract!Acquire(i)
    <2>1. /\ pc[i] = "await" /\ pc'[i] = "cs"
          /\ \A x \in Thread : x # i => pc'[x] = pc[x]
      BY <1>3 DEF Enter
    <2>2. Inside = {}
      BY <1>0, <2>1 DEF MutualExclusion
    <2>3. i \in Asking /\ Asking' = Asking \ {i} /\ Inside' = {i}
      BY <2>1, <2>2
    <2> QED  BY <2>2, <2>3 DEF Abstract!Acquire
  <1>4. ASSUME NEW i \in Thread, Unlock(i) PROVE Abstract!Release(i)
    <2>1. /\ pc[i] = "cs" /\ pc'[i] = "idle"
          /\ \A x \in Thread : x # i => pc'[x] = pc[x]
      BY <1>4 DEF Unlock
    <2>2. i \in Inside /\ Inside' = Inside \ {i} /\ Asking' = Asking
      BY <2>1
    <2> QED  BY <2>2 DEF Abstract!Release
  <1>5. ASSUME NEW i \in Thread, Step(i), ~Enter(i), ~Unlock(i)
        PROVE  Asking' = Asking /\ Inside' = Inside
    <2>1. /\ pc[i] \in Doorway \cup Waiting /\ pc'[i] \in Doorway \cup Waiting
          /\ \A x \in Thread : x # i => pc'[x] = pc[x]
      BY <1>5 DEF Step, MaxCompare, MaxTake, MaxReturn, TakeTicket,
         DoneChoosing, AwaitChoosing, ReadZero, ReadLess, ReadEqual, NextPeer,
         SpinTo
    <2> QED  BY <2>1
  <1> QED
    BY <1>1, <1>2, <1>3, <1>4, <1>5 DEF Next, Step, Abstract!Next

\* The bakery lock implements the lock that ThreadFunc needs.
THEOREM Refinement == Spec => ImplementsMutex
  <1>1. Init => Abstract!Init
    BY RefinesInit
  <1>2. IInv /\ IInv' /\ [Next]_vars => [Abstract!Next]_(Abstract!vars)
    BY RefinesStep
  <1> QED
    BY <1>1, <1>2, Inductive, PTL DEF Spec, ImplementsMutex, Abstract!Spec
=============================================================================
