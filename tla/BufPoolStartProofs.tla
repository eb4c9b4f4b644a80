------------------------- MODULE BufPoolStartProofs -------------------------
(***************************************************************************)
(* Proofs about MutexList and BufPoolStart for every number of instances   *)
(* and of mutexes in each, and every choice of the instances that may      *)
(* fail: first what the calls of MutexList keep of the list if nothing is  *)
(* freed before all mutexes are created, then that the parallel start      *)
(* calls them so.                                                          *)
(***************************************************************************)
EXTENDS BufPoolStart, FiniteSetTheorems, TLAPS

\* Where a call of mutex_create_func, of mutex_free_func can be.
Creating == {"set_next", "set_prev", "test_end", "set_end", "add"}
Freeing == {"unlink_next", "test_prev", "set_start", "load_count", "store_count"}

\* Every mutex is created, and no call is under way.
Settled == \A m \in Mutexes : pc[m] \in {"created", "freed"}

\* A mutex is not freed before all are created.
FreeWhenSettled == \A m \in Mutexes : FreeBegin(m) => Settled

\* The mutexes in the chain of next from the start on.
InChain == {m \in Mutexes : pc[m] \in {"set_next", "set_prev", "test_end", "set_end", "add",
                                       "created", "unlink_next", "test_prev", "set_start"}}

\* Those in the chain of prev, once all of its links are written.
InBack == {m \in InChain : pc[m] \notin {"test_prev", "set_start"}}

\* Those that list.count counts.
InCount == {m \in Mutexes : pc[m] \in {"created"} \cup Freeing}

\* n is the member of S exchanged in just before m, or NULL.
IsBefore(S, m, n) ==
    \/ n = NULL /\ \A k \in S : ticket[m] =< ticket[k]
    \/ n \in S /\ ticket[n] < ticket[m] /\ \A k \in S : ticket[k] < ticket[m] => ticket[k] =< ticket[n]

\* n is the member of S exchanged in just after m.
IsAfter(S, m, n) ==
    n \in S /\ ticket[m] < ticket[n] /\ \A k \in S : ticket[m] < ticket[k] => ticket[n] =< ticket[k]

\* n is the youngest member of S, or NULL.
IsYoungest(S, n) ==
    \/ n = NULL /\ S = {}
    \/ n \in S /\ \A k \in S : ticket[k] =< ticket[n]

\* Types: a mutex is created or freed, only the walker walks.
TypeInv ==
    /\ TypeOK
    /\ pc \in [Mutexes \cup {Walker} -> {"new", "created", "freed", "walking", "walked"}
                                            \cup Creating \cup Freeing]
    /\ \A m \in Mutexes : pc[m] \notin {"walking", "walked"}
    /\ pc[Walker] \in {"new", "walking", "walked"}

\* Who has the latch.
LatchInv ==
    /\ pc[Walker] = "walking" <=> latch = Walker
    /\ \A m \in Mutexes : pc[m] \in Freeing => latch = m

\* Nothing is freed before all is created.
PhaseInv ==
    (\E m \in Mutexes : pc[m] \in Freeing \cup {"freed"}) =>
        \A m \in Mutexes : pc[m] \in {"created", "freed"} \cup Freeing

\* Tickets tell who was exchanged in, and in which order.
TicketInv ==
    /\ \A m \in Mutexes : /\ ticket[m] = 0 <=> pc[m] = "new"
                          /\ ticket[m] =< Exchanged
    /\ \A m, n \in Mutexes : ticket[m] = ticket[n] /\ ticket[m] > 0 => m = n

\* The start is the youngest mutex and next, or the local that is stored there
\* later, leads to the next older one.
ChainInv ==
    /\ IsYoungest(InChain, start)
    /\ \A m \in InChain :
          /\ pc[m] \in {"set_next", "set_prev"} => IsBefore(InChain, m, old[m])
          /\ pc[m] # "set_next" => IsBefore(InChain, m, next[m])
    /\ \A m \in Mutexes : pc[m] \in {"new", "set_next"} => next[m] = NULL

\* prev leads back, once it is written: a mutex without one is the start, or the
\* one that is put in front of it has still to write it, or the one in front of
\* it is about to be taken out.
BackInv ==
    /\ \A m \in InBack :
          /\ prev[m] = NULL \/ IsAfter(InBack, m, prev[m])
          /\ prev[m] = NULL =>
                \/ start = m
                \/ \E n \in InBack : old[n] = m /\ pc[n] \in {"set_next", "set_prev"}
                \/ \E n \in Mutexes :
                      start = n /\ next[n] = m /\ pc[n] \in {"test_prev", "set_start"}
    /\ \A m \in Mutexes : pc[m] \in {"test_prev", "set_start"} =>
          \/ prev[m] = NULL /\ start = m
          \/ pc[m] = "test_prev" /\ IsAfter(InBack, m, prev[m])

\* The first mutex is the oldest, and the end: who comes after it finds the end set.
EndInv ==
    /\ pc[First] \notin Freeing \cup {"freed"}
    /\ end = IF pc[First] \in {"add", "created"} THEN First ELSE NULL
    /\ \A m \in Mutexes \ {First} :
          /\ pc[m] # "new" => Initialized
          /\ pc[m] # "new" => ticket[First] < ticket[m]
          /\ pc[m] # "set_end"

\* list.count counts the calls that have ended, and a removal under way has loaded
\* what is there.
CountInv ==
    /\ count = Cardinality(InCount)
    /\ \A m \in Mutexes : pc[m] = "store_count" => tmp[m] = count

\* What the walk has counted when it is at cur.
Passed == {m \in listed : ticket[cur] < ticket[m]}

\* While it walks, what is in the list up to cur was there when it began, and so
\* was the state of what is not linked yet.  When it has come to a NULL, it has
\* counted what was in sight.
WalkInv ==
    /\ pc[Walker] = "new" => cur = NULL /\ seen = 0
    /\ pc[Walker] = "walked" => cur = NULL
    /\ \A m \in listed \cup half : ticket[m] > 0
    /\ cur \in Mutexes =>
          /\ pc[Walker] = "walking" /\ cur \in InChain
          /\ listed \subseteq InChain /\ seen = Cardinality(Passed)
          /\ \A m \in InChain : ticket[m] =< ticket[cur] =>
                m \in listed /\ (pc[m] = "set_next" => m \in half)
    /\ cur = NULL /\ pc[Walker] # "new" =>
          Cardinality(InSight) =< seen /\ seen =< Cardinality(listed)

\* The inductive invariant.
ListInv ==
    /\ TypeInv /\ LatchInv /\ PhaseInv /\ TicketInv /\ ChainInv
    /\ BackInv /\ EndInv /\ CountInv /\ WalkInv

----------------------------------------------------------------------------
(* Types, latch and phases.                                                *)

LEMMA TypeInit == ListInit => TypeInv
  BY MutexesAssumption DEF ListInit, TypeInv, TypeOK, Creating, Freeing

LEMMA SetsFinite ==
  /\ IsFiniteSet({m \in Mutexes : ticket[m] > 0}) /\ Exchanged \in Nat
  /\ IsFiniteSet(InChain) /\ Cardinality(InChain) \in Nat
  /\ IsFiniteSet(InCount) /\ Cardinality(InCount) \in Nat
  BY MutexesAssumption, FS_Subset, FS_CardinalityType DEF Exchanged, InChain, InCount

\* Who is counted is counted.
LEMMA CountPositive ==
  ASSUME CountInv, NEW m \in InCount
  PROVE  count \in Nat \ {0}
  BY SetsFinite, FS_EmptySet DEF CountInv

\* A mutex in the chain has a ticket.
LEMMA TicketOf ==
  ASSUME TypeInv, TicketInv, NEW m \in InChain
  PROVE  m \in Mutexes /\ ticket[m] \in Nat /\ ticket[m] > 0
  BY DEF TypeInv, TypeOK, TicketInv, InChain

LEMMA TypeStep ==
  ASSUME TypeInv, CountInv, ListNext
  PROVE  TypeInv'
<1> USE MutexesAssumption DEF TypeInv, TypeOK, Creating, Freeing,
        Goto, list, links, walk
<1>1. ASSUME NEW m \in Mutexes, Exchange(m) PROVE TypeInv'
  <2>1. Exchanged + 1 \in Nat
    BY SetsFinite
  <2> QED
    BY <1>1, <2>1 DEF Exchange, PrevOfNew
<1>2. ASSUME NEW m \in Mutexes, SetNext(m) PROVE TypeInv'
  BY <1>2 DEF SetNext, Behind
<1>3. ASSUME NEW m \in Mutexes, SetPrev(m) PROVE TypeInv'
  BY <1>3 DEF SetPrev
<1>4. ASSUME NEW m \in Mutexes, TestEnd(m) PROVE TypeInv'
  BY <1>4 DEF TestEnd
<1>5. ASSUME NEW m \in Mutexes, SetEnd(m) PROVE TypeInv'
  BY <1>5 DEF SetEnd
<1>6. ASSUME NEW m \in Mutexes, Add(m) PROVE TypeInv'
  BY <1>6 DEF Add, CountWithNew
<1>7. ASSUME NEW m \in Mutexes, FreeBegin(m) PROVE TypeInv'
  <2>1. count > 0
    BY <1>7, CountPositive DEF FreeBegin, InCount
  <2> QED
    BY <1>7, <2>1 DEF FreeBegin, EnterFree
<1>8. ASSUME NEW m \in Mutexes, UnlinkNext(m) PROVE TypeInv'
  BY <1>8 DEF UnlinkNext
<1>9. ASSUME NEW m \in Mutexes, UnlinkPrev(m) PROVE TypeInv'
  BY <1>9 DEF UnlinkPrev
<1>10. ASSUME NEW m \in Mutexes, SetStart(m) PROVE TypeInv'
  BY <1>10 DEF SetStart
<1>11. ASSUME NEW m \in Mutexes, LoadCount(m) PROVE TypeInv'
  BY <1>11 DEF LoadCount
<1>12. ASSUME NEW m \in Mutexes, StoreCount(m) PROVE TypeInv'
  <2>1. tmp[m] > 0
    BY <1>12, CountPositive DEF StoreCount, InCount, CountInv
  <2> QED
    BY <1>12, <2>1 DEF StoreCount
<1>13. ASSUME WalkBegin PROVE TypeInv'
  BY <1>13 DEF WalkBegin
<1>14. ASSUME WalkNext PROVE TypeInv'
  BY <1>14 DEF WalkNext
<1>15. ASSUME WalkEnd PROVE TypeInv'
  BY <1>15 DEF WalkEnd
<1> QED
  BY <1>1, <1>2, <1>3, <1>4, <1>5, <1>6, <1>7, <1>8,
     <1>9, <1>10, <1>11, <1>12, <1>13, <1>14, <1>15 DEF ListNext, Create, Free

LEMMA LatchStep ==
  ASSUME TypeInv, LatchInv, CountInv, ListNext
  PROVE  LatchInv'
<1> USE MutexesAssumption DEF LatchInv, TypeInv, TypeOK, Creating, Freeing,
        Goto, list, links, walk
<1>1. ASSUME NEW m \in Mutexes, Exchange(m) PROVE LatchInv'
  BY <1>1 DEF Exchange, PrevOfNew
<1>2. ASSUME NEW m \in Mutexes, SetNext(m) PROVE LatchInv'
  BY <1>2 DEF SetNext, Behind
<1>3. ASSUME NEW m \in Mutexes, SetPrev(m) PROVE LatchInv'
  BY <1>3 DEF SetPrev
<1>4. ASSUME NEW m \in Mutexes, TestEnd(m) PROVE LatchInv'
  BY <1>4 DEF TestEnd
<1>5. ASSUME NEW m \in Mutexes, SetEnd(m) PROVE LatchInv'
  BY <1>5 DEF SetEnd
<1>6. ASSUME NEW m \in Mutexes, Add(m) PROVE LatchInv'
  BY <1>6 DEF Add, CountWithNew
<1>7. ASSUME NEW m \in Mutexes, FreeBegin(m) PROVE LatchInv'
  BY <1>7 DEF FreeBegin, EnterFree
<1>8. ASSUME NEW m \in Mutexes, UnlinkNext(m) PROVE LatchInv'
  BY <1>8 DEF UnlinkNext
<1>9. ASSUME NEW m \in Mutexes, UnlinkPrev(m) PROVE LatchInv'
  BY <1>9 DEF UnlinkPrev
<1>10. ASSUME NEW m \in Mutexes, SetStart(m) PROVE LatchInv'
  BY <1>10 DEF SetStart
<1>11. ASSUME NEW m \in Mutexes, LoadCount(m) PROVE LatchInv'
  BY <1>11 DEF LoadCount
<1>12. ASSUME NEW m \in Mutexes, StoreCount(m) PROVE LatchInv'
  BY <1>12 DEF StoreCount
<1>13. ASSUME WalkBegin PROVE LatchInv'
  BY <1>13 DEF WalkBegin
<1>14. ASSUME WalkNext PROVE LatchInv'
  BY <1>14 DEF WalkNext
<1>15. ASSUME WalkEnd PROVE LatchInv'
  BY <1>15 DEF WalkEnd
<1> QED
  BY <1>1, <1>2, <1>3, <1>4, <1>5, <1>6, <1>7, <1>8,
     <1>9, <1>10, <1>11, <1>12, <1>13, <1>14, <1>15 DEF ListNext, Create, Free

LEMMA PhaseStep ==
  ASSUME TypeInv, LatchInv, PhaseInv, CountInv, FreeWhenSettled, ListNext
  PROVE  PhaseInv'
<1> USE MutexesAssumption DEF PhaseInv, LatchInv, FreeWhenSettled, Settled, TypeInv, TypeOK, Creating, Freeing,
        Goto, list, links, walk
<1>1. ASSUME NEW m \in Mutexes, Exchange(m) PROVE PhaseInv'
  BY <1>1 DEF Exchange, PrevOfNew
<1>2. ASSUME NEW m \in Mutexes, SetNext(m) PROVE PhaseInv'
  BY <1>2 DEF SetNext, Behind
<1>3. ASSUME NEW m \in Mutexes, SetPrev(m) PROVE PhaseInv'
  BY <1>3 DEF SetPrev
<1>4. ASSUME NEW m \in Mutexes, TestEnd(m) PROVE PhaseInv'
  BY <1>4 DEF TestEnd
<1>5. ASSUME NEW m \in Mutexes, SetEnd(m) PROVE PhaseInv'
  BY <1>5 DEF SetEnd
<1>6. ASSUME NEW m \in Mutexes, Add(m) PROVE PhaseInv'
  BY <1>6 DEF Add, CountWithNew
<1>7. ASSUME NEW m \in Mutexes, FreeBegin(m) PROVE PhaseInv'
  <2>1. count > 0
    BY <1>7, CountPositive DEF FreeBegin, InCount
  <2> QED
    BY <1>7, <2>1 DEF FreeBegin, EnterFree
<1>8. ASSUME NEW m \in Mutexes, UnlinkNext(m) PROVE PhaseInv'
  BY <1>8 DEF UnlinkNext
<1>9. ASSUME NEW m \in Mutexes, UnlinkPrev(m) PROVE PhaseInv'
  BY <1>9 DEF UnlinkPrev
<1>10. ASSUME NEW m \in Mutexes, SetStart(m) PROVE PhaseInv'
  BY <1>10 DEF SetStart
<1>11. ASSUME NEW m \in Mutexes, LoadCount(m) PROVE PhaseInv'
  BY <1>11 DEF LoadCount
<1>12. ASSUME NEW m \in Mutexes, StoreCount(m) PROVE PhaseInv'
  BY <1>12 DEF StoreCount
<1>13. ASSUME WalkBegin PROVE PhaseInv'
  BY <1>13 DEF WalkBegin
<1>14. ASSUME WalkNext PROVE PhaseInv'
  BY <1>14 DEF WalkNext
<1>15. ASSUME WalkEnd PROVE PhaseInv'
  BY <1>15 DEF WalkEnd
<1> QED
  BY <1>1, <1>2, <1>3, <1>4, <1>5, <1>6, <1>7, <1>8,
     <1>9, <1>10, <1>11, <1>12, <1>13, <1>14, <1>15 DEF ListNext, Create, Free

----------------------------------------------------------------------------
(* Tickets.                                                                *)

LEMMA TicketInit == ListInit => TicketInv
  BY SetsFinite DEF ListInit, TicketInv

LEMMA TicketStep ==
  ASSUME TypeInv, PhaseInv, TicketInv, CountInv, ListNext
  PROVE  TicketInv'
<1> USE MutexesAssumption DEF TicketInv, TypeInv, TypeOK, Creating, Freeing,
        Goto, list, links, walk
<1>1. ASSUME NEW m \in Mutexes, Exchange(m) PROVE TicketInv'
  <2> DEFINE S == {n \in Mutexes : ticket[n] > 0}
  <2>1. m \notin S /\ ticket'[m] = Exchanged + 1 /\ Exchanged \in Nat
    BY <1>1, SetsFinite DEF Exchange
  <2>2. {n \in Mutexes : ticket'[n] > 0} = S \cup {m}
    BY <1>1, <2>1 DEF Exchange
  <2> HIDE DEF S
  <2>3. Exchanged' = Exchanged + 1
    <3>1. IsFiniteSet(S) /\ Exchanged = Cardinality(S)
      BY SetsFinite DEF Exchanged, S
    <3>2. Exchanged' = Cardinality(S \cup {m})
      BY <2>2 DEF Exchanged
    <3> QED
      BY <2>1, <3>1, <3>2, FS_AddElement
  <2> HIDE DEF TicketInv
  <2>4. \A n \in Mutexes : n # m => ticket'[n] = ticket[n] /\ ticket[n] =< Exchanged
                                     /\ ticket[n] \in Nat /\ pc'[n] = pc[n]
    BY <1>1 DEF Exchange, TicketInv
  <2>5. pc'[m] = "set_next"
    BY <1>1 DEF Exchange
  <2> QED
    BY <2>1, <2>3, <2>4, <2>5 DEF TicketInv
<1>2. ASSUME NEW m \in Mutexes, SetNext(m) PROVE TicketInv'
  <2>1. ticket' = ticket
    BY <1>2 DEF SetNext, Behind
  <2>2. Exchanged' = Exchanged
    BY <2>1 DEF Exchanged
  <2> QED
    BY <1>2, <2>1, <2>2 DEF SetNext, Behind
<1>3. ASSUME NEW m \in Mutexes, SetPrev(m) PROVE TicketInv'
  <2>1. ticket' = ticket
    BY <1>3 DEF SetPrev
  <2>2. Exchanged' = Exchanged
    BY <2>1 DEF Exchanged
  <2> QED
    BY <1>3, <2>1, <2>2 DEF SetPrev
<1>4. ASSUME NEW m \in Mutexes, TestEnd(m) PROVE TicketInv'
  <2>1. ticket' = ticket
    BY <1>4 DEF TestEnd
  <2>2. Exchanged' = Exchanged
    BY <2>1 DEF Exchanged
  <2> QED
    BY <1>4, <2>1, <2>2 DEF TestEnd
<1>5. ASSUME NEW m \in Mutexes, SetEnd(m) PROVE TicketInv'
  <2>1. ticket' = ticket
    BY <1>5 DEF SetEnd
  <2>2. Exchanged' = Exchanged
    BY <2>1 DEF Exchanged
  <2> QED
    BY <1>5, <2>1, <2>2 DEF SetEnd
<1>6. ASSUME NEW m \in Mutexes, Add(m) PROVE TicketInv'
  <2>1. ticket' = ticket
    BY <1>6 DEF Add, CountWithNew
  <2>2. Exchanged' = Exchanged
    BY <2>1 DEF Exchanged
  <2> QED
    BY <1>6, <2>1, <2>2 DEF Add, CountWithNew
<1>7. ASSUME NEW m \in Mutexes, FreeBegin(m) PROVE TicketInv'
  <2>1. ticket' = ticket
    BY <1>7 DEF FreeBegin, EnterFree
  <2>2. Exchanged' = Exchanged
    BY <2>1 DEF Exchanged
  <2>3. count > 0
    BY <1>7, CountPositive DEF FreeBegin, InCount
  <2> QED
    BY <1>7, <2>3, <2>1, <2>2 DEF FreeBegin, EnterFree
<1>8. ASSUME NEW m \in Mutexes, UnlinkNext(m) PROVE TicketInv'
  <2>1. ticket' = ticket
    BY <1>8 DEF UnlinkNext
  <2>2. Exchanged' = Exchanged
    BY <2>1 DEF Exchanged
  <2> QED
    BY <1>8, <2>1, <2>2 DEF UnlinkNext
<1>9. ASSUME NEW m \in Mutexes, UnlinkPrev(m) PROVE TicketInv'
  <2>1. ticket' = ticket
    BY <1>9 DEF UnlinkPrev
  <2>2. Exchanged' = Exchanged
    BY <2>1 DEF Exchanged
  <2> QED
    BY <1>9, <2>1, <2>2 DEF UnlinkPrev
<1>10. ASSUME NEW m \in Mutexes, SetStart(m) PROVE TicketInv'
  <2>1. ticket' = ticket
    BY <1>10 DEF SetStart
  <2>2. Exchanged' = Exchanged
    BY <2>1 DEF Exchanged
  <2> QED
    BY <1>10, <2>1, <2>2 DEF SetStart
<1>11. ASSUME NEW m \in Mutexes, LoadCount(m) PROVE TicketInv'
  <2>1. ticket' = ticket
    BY <1>11 DEF LoadCount
  <2>2. Exchanged' = Exchanged
    BY <2>1 DEF Exchanged
  <2> QED
    BY <1>11, <2>1, <2>2 DEF LoadCount
<1>12. ASSUME NEW m \in Mutexes, StoreCount(m) PROVE TicketInv'
  <2>1. ticket' = ticket
    BY <1>12 DEF StoreCount
  <2>2. Exchanged' = Exchanged
    BY <2>1 DEF Exchanged
  <2> QED
    BY <1>12, <2>1, <2>2 DEF StoreCount
<1>13. ASSUME WalkBegin PROVE TicketInv'
  <2>1. ticket' = ticket
    BY <1>13 DEF WalkBegin
  <2>2. Exchanged' = Exchanged
    BY <2>1 DEF Exchanged
  <2> QED
    BY <1>13, <2>1, <2>2 DEF WalkBegin
<1>14. ASSUME WalkNext PROVE TicketInv'
  <2>1. ticket' = ticket
    BY <1>14 DEF WalkNext
  <2>2. Exchanged' = Exchanged
    BY <2>1 DEF Exchanged
  <2> QED
    BY <1>14, <2>1, <2>2 DEF WalkNext
<1>15. ASSUME WalkEnd PROVE TicketInv'
  <2>1. ticket' = ticket
    BY <1>15 DEF WalkEnd
  <2>2. Exchanged' = Exchanged
    BY <2>1 DEF Exchanged
  <2> QED
    BY <1>15, <2>1, <2>2 DEF WalkEnd
<1> QED
  BY <1>1, <1>2, <1>3, <1>4, <1>5, <1>6, <1>7, <1>8,
     <1>9, <1>10, <1>11, <1>12, <1>13, <1>14, <1>15 DEF ListNext, Create, Free

----------------------------------------------------------------------------
(* The chain.                                                              *)

LEMMA ChainInit == ListInit => ChainInv
  BY MutexesAssumption DEF ListInit, ChainInv, InChain, IsYoungest

\* While a mutex is being created nothing is freed.
LEMMA Early ==
  ASSUME TypeInv, PhaseInv, NEW m \in Mutexes, pc[m] \in Creating \cup {"new"}
  PROVE  (\A n \in Mutexes : pc[n] \notin Freeing \cup {"freed"}) /\ InBack = InChain
  BY DEF PhaseInv, Creating, Freeing, InBack, InChain

\* While a mutex is being freed no other call is under way.
LEMMA Late ==
  ASSUME TypeInv, LatchInv, PhaseInv, NEW m \in Mutexes, pc[m] \in Freeing
  PROVE  \A n \in Mutexes : n = m \/ pc[n] \in {"created", "freed"}
  BY DEF LatchInv, PhaseInv

\* A mutex that is exchanged in is the youngest.
LEMMA ExchangeEffect ==
  ASSUME TypeInv, PhaseInv, TicketInv, NEW m \in Mutexes, Exchange(m)
  PROVE  /\ InChain' = InChain \cup {m} /\ m \notin InChain
         /\ InBack = InChain /\ InBack' = InBack \cup {m}
         /\ \A n \in InChain :
               /\ n \in Mutexes /\ ticket'[n] = ticket[n] /\ pc'[n] = pc[n]
               /\ ticket[n] < ticket'[m] /\ old'[n] = old[n] /\ prev'[n] = prev[n]
         /\ ticket'[m] \in Nat /\ old'[m] = start /\ start' = m /\ prev'[m] = NULL
         /\ pc'[m] = "set_next" /\ next' = next
<1>1. \A n \in Mutexes : pc[n] \notin Freeing \cup {"freed"}
  BY Early DEF Exchange, Creating
<1>2. pc[m] = "new" /\ pc' = [pc EXCEPT ![m] = "set_next"]
  BY DEF Exchange, Goto
<1>3. InChain' = InChain \cup {m} /\ m \notin InChain
  BY <1>2 DEF InChain, TypeInv
<1>4. InBack = InChain /\ InBack' = InBack \cup {m}
  BY <1>1, <1>2, <1>3 DEF InBack, InChain, TypeInv, Freeing
<1>5. \A n \in Mutexes : ticket[n] =< Exchanged /\ ticket[n] \in Nat
  BY DEF TypeInv, TypeOK, TicketInv
<1>6. ticket'[m] = Exchanged + 1 /\ Exchanged \in Nat
  BY SetsFinite DEF Exchange, TypeInv, TypeOK
<1>7. /\ old'[m] = start /\ start' = m /\ prev'[m] = NULL /\ next' = next
      /\ \A n \in Mutexes : n # m => ticket'[n] = ticket[n] /\ pc'[n] = pc[n]
                                        /\ old'[n] = old[n] /\ prev'[n] = prev[n]
  BY DEF Exchange, PrevOfNew, Goto, TypeInv, TypeOK
<1>8. \A n \in InChain : n \in Mutexes /\ n # m
  BY <1>3 DEF InChain
<1>9. pc'[m] = "set_next"
  BY <1>2 DEF TypeInv
<1> QED
  BY <1>3, <1>4, <1>5, <1>6, <1>7, <1>8, <1>9

LEMMA ChainStep ==
  ASSUME TypeInv, LatchInv, PhaseInv, TicketInv, ChainInv, BackInv, CountInv, ListNext
  PROVE  ChainInv'
<1> USE MutexesAssumption DEF ChainInv, TypeInv, TypeOK, Creating, Freeing,
        Goto, list, links, walk
<1>1. ASSUME NEW m \in Mutexes, Exchange(m) PROVE ChainInv'
  <2>0. \A n \in InChain : n \in Mutexes /\ ticket[n] \in Nat
    BY DEF InChain
  <2>1. IsYoungest(InChain, start)'
    BY <1>1, <2>0, ExchangeEffect DEF IsYoungest
  <2>2. IsBefore(InChain, m, old[m])'
    BY <1>1, <2>0, ExchangeEffect DEF IsYoungest, IsBefore
  <2>3. ASSUME NEW n \in InChain, NEW p, IsBefore(InChain, n, p) PROVE IsBefore(InChain, n, p)'
    BY <1>1, <2>0, <2>3, ExchangeEffect DEF IsBefore
  <2>4. \A n \in Mutexes : pc'[n] \in {"new", "set_next"} => next'[n] = NULL
    BY <1>1 DEF Exchange
  <2>5. \A n \in InChain : pc'[n] = pc[n] /\ next'[n] = next[n] /\ old'[n] = old[n]
    BY <1>1, ExchangeEffect
  <2>6. InChain' = InChain \cup {m} /\ pc'[m] = "set_next"
    BY <1>1, ExchangeEffect
  <2> QED
    BY <2>1, <2>2, <2>3, <2>4, <2>5, <2>6
<1>2. ASSUME NEW m \in Mutexes, SetNext(m) PROVE ChainInv'
  <2>0. \A n \in InChain : n \in Mutexes /\ ticket[n] \in Nat
    BY DEF InChain
  <2>1. InChain' = InChain /\ UNCHANGED <<ticket, start, old>>
    BY <1>2 DEF SetNext, InChain
  <2>2. next'[m] = old[m] /\ \A n \in Mutexes : n # m => next'[n] = next[n] /\ pc'[n] = pc[n]
    BY <1>2 DEF SetNext, Behind
  <2>3. IsBefore(InChain, m, old[m]) /\ pc'[m] = "set_prev"
    BY <1>2 DEF SetNext, InChain
  <2> QED
    BY <2>0, <2>1, <2>2, <2>3 DEF IsYoungest, IsBefore
<1>3. ASSUME NEW m \in Mutexes, SetPrev(m) PROVE ChainInv'
  <2>1. InChain' = InChain
    BY <1>3 DEF SetPrev, InChain
  <2>2. UNCHANGED <<ticket, start, next, old>>
    BY <1>3 DEF SetPrev
  <2>3. \A n \in InChain : n \in Mutexes
    BY DEF InChain
  <2> QED
    BY <1>3, <2>1, <2>2, <2>3 DEF SetPrev, IsYoungest, IsBefore
<1>4. ASSUME NEW m \in Mutexes, TestEnd(m) PROVE ChainInv'
  <2>1. InChain' = InChain
    BY <1>4 DEF TestEnd, InChain
  <2>2. UNCHANGED <<ticket, start, next, old>>
    BY <1>4 DEF TestEnd
  <2>3. \A n \in InChain : n \in Mutexes
    BY DEF InChain
  <2> QED
    BY <1>4, <2>1, <2>2, <2>3 DEF TestEnd, IsYoungest, IsBefore
<1>5. ASSUME NEW m \in Mutexes, SetEnd(m) PROVE ChainInv'
  <2>1. InChain' = InChain
    BY <1>5 DEF SetEnd, InChain
  <2>2. UNCHANGED <<ticket, start, next, old>>
    BY <1>5 DEF SetEnd
  <2>3. \A n \in InChain : n \in Mutexes
    BY DEF InChain
  <2> QED
    BY <1>5, <2>1, <2>2, <2>3 DEF SetEnd, IsYoungest, IsBefore
<1>6. ASSUME NEW m \in Mutexes, Add(m) PROVE ChainInv'
  <2>1. InChain' = InChain
    BY <1>6 DEF Add, CountWithNew, InChain
  <2>2. UNCHANGED <<ticket, start, next, old>>
    BY <1>6 DEF Add, CountWithNew
  <2>3. \A n \in InChain : n \in Mutexes
    BY DEF InChain
  <2> QED
    BY <1>6, <2>1, <2>2, <2>3 DEF Add, CountWithNew, IsYoungest, IsBefore
<1>7. ASSUME NEW m \in Mutexes, FreeBegin(m) PROVE ChainInv'
  <2>0. count > 0
    BY <1>7, CountPositive DEF FreeBegin, InCount
  <2>1. InChain' = InChain
    BY <1>7, <2>0 DEF FreeBegin, EnterFree, InChain
  <2>2. UNCHANGED <<ticket, start, next, old>>
    BY <1>7, <2>0 DEF FreeBegin, EnterFree
  <2>3. \A n \in InChain : n \in Mutexes
    BY DEF InChain
  <2> QED
    BY <1>7, <2>0, <2>1, <2>2, <2>3 DEF FreeBegin, EnterFree, IsYoungest, IsBefore
<1>8. ASSUME NEW m \in Mutexes, UnlinkNext(m) PROVE ChainInv'
  <2>1. InChain' = InChain
    BY <1>8 DEF UnlinkNext, InChain
  <2>2. UNCHANGED <<ticket, start, next, old>>
    BY <1>8 DEF UnlinkNext
  <2>3. \A n \in InChain : n \in Mutexes
    BY DEF InChain
  <2> QED
    BY <1>8, <2>1, <2>2, <2>3 DEF UnlinkNext, IsYoungest, IsBefore
<1>9. ASSUME NEW m \in Mutexes, UnlinkPrev(m) PROVE ChainInv'
  <2>0. \A n \in InChain : n \in Mutexes /\ ticket[n] \in Nat
    BY DEF InChain
  <2>1. \A n \in Mutexes : n = m \/ pc[n] \in {"created", "freed"}
    BY <1>9, Late DEF UnlinkPrev
  <2>2. m \in InChain /\ IsBefore(InChain, m, next[m]) /\ UNCHANGED <<ticket, start>>
    BY <1>9 DEF UnlinkPrev, InChain
  <2>3. \A n \in Mutexes : n # m => pc'[n] = pc[n]
    BY <1>9 DEF UnlinkPrev
  <2>4. CASE prev[m] = NULL
    <3>1. InChain' = InChain /\ UNCHANGED <<next, old>> /\ pc'[m] = "set_start"
      BY <1>9, <2>4 DEF UnlinkPrev, InChain
    <3> QED
      BY <2>0, <2>1, <2>2, <2>3, <3>1 DEF IsYoungest, IsBefore
  <2>5. CASE prev[m] # NULL
    <3>0. PICK s \in Mutexes : s = prev[m]
      BY <1>9, <2>2, <2>5, TicketOf
    <3>1. IsAfter(InBack, m, s)
      BY <1>9, <2>5, <3>0 DEF UnlinkPrev, BackInv
    <3>2. InBack = InChain \ {m}
      BY <1>9, <2>1 DEF UnlinkPrev, InBack, InChain
    <3>3. InChain' = InChain \ {m} /\ pc'[m] = "load_count"
      BY <1>9, <2>5 DEF UnlinkPrev, InChain
    <3>4. s \in InChain /\ s # m /\ s \in Mutexes
      BY <2>0, <3>1, <3>2 DEF IsAfter
    <3>5. next'[s] = next[m] /\ \A n \in Mutexes : n # s => next'[n] = next[n]
      BY <1>9, <2>5, <3>0, <3>4 DEF UnlinkPrev
    <3>6. IsYoungest(InChain, start)'
      BY <2>0, <2>2, <3>1, <3>2, <3>3, <3>4 DEF IsYoungest, IsAfter
    <3>7. IsBefore(InChain, s, next[s])'
      <4>1. \A n \in InChain : n # m => ticket[n] # ticket[m]
        BY <2>0, <2>2 DEF TicketInv, InChain
      <4>2. \A n \in InChain : n # m /\ ticket[m] < ticket[n] => ticket[s] =< ticket[n]
        BY <3>1, <3>2 DEF IsAfter
      <4>3. ticket[m] < ticket[s]
        BY <3>1 DEF IsAfter
      <4>4. ticket' = ticket /\ next'[s] = next[m] /\ InChain' = InChain \ {m}
        BY <2>2, <3>3, <3>5
      <4>5. CASE next[m] = NULL /\ \A n \in InChain : ticket[m] =< ticket[n]
        BY <2>0, <2>2, <3>4, <4>1, <4>2, <4>4, <4>5 DEF IsBefore
      <4>6. CASE /\ next[m] \in InChain /\ ticket[next[m]] < ticket[m]
                 /\ \A n \in InChain : ticket[n] < ticket[m] => ticket[n] =< ticket[next[m]]
        <5>1. next[m] # m /\ next[m] \in InChain' /\ ticket[next[m]] < ticket[s]
          BY <2>0, <2>2, <3>4, <4>3, <4>4, <4>6
        <5>2. \A n \in InChain \ {m} : ticket[n] < ticket[s] => ticket[n] =< ticket[next[m]]
          BY <2>0, <2>2, <3>4, <4>1, <4>2, <4>6
        <5> QED
          BY <4>4, <5>1, <5>2 DEF IsBefore
      <4> QED
        BY <2>2, <4>5, <4>6 DEF IsBefore
    <3>8. ASSUME NEW n \in InChain', n # s PROVE IsBefore(InChain, n, next[n])'
      <4>1. IsBefore(InChain, n, next[n]) /\ n \in InChain /\ n # m
        BY <2>0, <2>1, <3>3
      <4>2. next[n] # m
        <5> SUFFICES ASSUME next[n] = m PROVE FALSE
          OBVIOUS
        <5>1. ticket[m] < ticket[n] /\ \A k \in InChain : ticket[k] < ticket[n] => ticket[k] =< ticket[m]
          BY <4>1 DEF IsBefore
        <5>2. ticket[m] < ticket[s] /\ ticket[s] =< ticket[n]
          BY <3>1, <3>2, <4>1, <5>1 DEF IsAfter
        <5>3. ticket[s] = ticket[n]
          BY <2>0, <2>2, <3>4, <4>1, <5>1, <5>2
        <5> QED
          BY <2>0, <2>2, <3>4, <3>8, <4>1, <5>2, <5>3 DEF TicketInv
      <4> QED
        BY <2>0, <2>2, <3>3, <3>5, <3>8, <4>1, <4>2 DEF IsBefore
    <3>9. \A n \in Mutexes : pc'[n] \notin {"new", "set_next", "set_prev"}
      BY <2>1, <2>3, <3>3
    <3> QED
      BY <3>3, <3>6, <3>7, <3>8, <3>9 DEF InChain
  <2> QED
    BY <2>4, <2>5
<1>10. ASSUME NEW m \in Mutexes, SetStart(m) PROVE ChainInv'
  <2>0. \A n \in InChain : n \in Mutexes /\ ticket[n] \in Nat
    BY DEF InChain
  <2>1. \A n \in Mutexes : n = m \/ pc[n] \in {"created", "freed"}
    BY <1>10, Late DEF SetStart
  <2>2. m \in InChain /\ IsBefore(InChain, m, next[m]) /\ UNCHANGED <<ticket, next>>
    BY <1>10 DEF SetStart, InChain
  <2>3. start = m /\ start' = next[m] /\ pc'[m] = "load_count"
    BY <1>10 DEF SetStart, BackInv
  <2>4. InChain' = InChain \ {m} /\ \A n \in Mutexes : n # m => pc'[n] = pc[n]
    BY <1>10 DEF SetStart, InChain
  <2>5. ASSUME NEW n \in InChain, n # m PROVE ticket[n] < ticket[m]
    BY <2>0, <2>2, <2>3, <2>5 DEF IsYoungest, TicketInv, InChain
  <2>6. IsYoungest(InChain, start)'
    BY <2>0, <2>2, <2>3, <2>4, <2>5 DEF IsYoungest, IsBefore
  <2>7. ASSUME NEW n \in InChain' PROVE IsBefore(InChain, n, next[n])'
    <3>1. IsBefore(InChain, n, next[n]) /\ n \in InChain /\ n # m
      BY <2>0, <2>1, <2>4
    <3>2. next[n] # m
      BY <2>0, <2>2, <2>5, <3>1 DEF IsBefore
    <3> QED
      BY <2>0, <2>2, <2>4, <3>1, <3>2 DEF IsBefore
  <2>8. \A n \in Mutexes : pc'[n] \notin {"new", "set_next", "set_prev"}
    BY <2>1, <2>3, <2>4
  <2> QED
    BY <2>6, <2>7, <2>8 DEF InChain
<1>11. ASSUME NEW m \in Mutexes, LoadCount(m) PROVE ChainInv'
  <2>1. InChain' = InChain
    BY <1>11 DEF LoadCount, InChain
  <2>2. UNCHANGED <<ticket, start, next, old>>
    BY <1>11 DEF LoadCount
  <2>3. \A n \in InChain : n \in Mutexes
    BY DEF InChain
  <2> QED
    BY <1>11, <2>1, <2>2, <2>3 DEF LoadCount, IsYoungest, IsBefore
<1>12. ASSUME NEW m \in Mutexes, StoreCount(m) PROVE ChainInv'
  <2>1. InChain' = InChain
    BY <1>12 DEF StoreCount, InChain
  <2>2. UNCHANGED <<ticket, start, next, old>>
    BY <1>12 DEF StoreCount
  <2>3. \A n \in InChain : n \in Mutexes
    BY DEF InChain
  <2> QED
    BY <1>12, <2>1, <2>2, <2>3 DEF StoreCount, IsYoungest, IsBefore
<1>13. ASSUME WalkBegin PROVE ChainInv'
  <2>1. InChain' = InChain
    BY <1>13 DEF WalkBegin, InChain
  <2>2. UNCHANGED <<ticket, start, next, old>>
    BY <1>13 DEF WalkBegin
  <2>3. \A n \in InChain : n \in Mutexes
    BY DEF InChain
  <2> QED
    BY <1>13, <2>1, <2>2, <2>3 DEF WalkBegin, IsYoungest, IsBefore
<1>14. ASSUME WalkNext PROVE ChainInv'
  <2>1. InChain' = InChain
    BY <1>14 DEF WalkNext, InChain
  <2>2. UNCHANGED <<ticket, start, next, old>>
    BY <1>14 DEF WalkNext
  <2>3. \A n \in InChain : n \in Mutexes
    BY DEF InChain
  <2> QED
    BY <1>14, <2>1, <2>2, <2>3 DEF WalkNext, IsYoungest, IsBefore
<1>15. ASSUME WalkEnd PROVE ChainInv'
  <2>1. InChain' = InChain
    BY <1>15 DEF WalkEnd, InChain
  <2>2. UNCHANGED <<ticket, start, next, old>>
    BY <1>15 DEF WalkEnd
  <2>3. \A n \in InChain : n \in Mutexes
    BY DEF InChain
  <2> QED
    BY <1>15, <2>1, <2>2, <2>3 DEF WalkEnd, IsYoungest, IsBefore
<1> QED
  BY <1>1, <1>2, <1>3, <1>4, <1>5, <1>6, <1>7, <1>8,
     <1>9, <1>10, <1>11, <1>12, <1>13, <1>14, <1>15 DEF ListNext, Create, Free

----------------------------------------------------------------------------
(* The way back.                                                           *)

LEMMA BackInit == ListInit => BackInv
  BY MutexesAssumption DEF ListInit, BackInv, InBack, InChain

LEMMA BackStep ==
  ASSUME TypeInv, LatchInv, PhaseInv, TicketInv, ChainInv, BackInv, CountInv, ListNext
  PROVE  BackInv'
<1> USE MutexesAssumption DEF BackInv, TypeInv, TypeOK, Creating, Freeing,
        Goto, list, links, walk
<1>1. ASSUME NEW m \in Mutexes, Exchange(m) PROVE BackInv'
  <2>0. \A n \in InBack : n \in InChain /\ n \in Mutexes /\ ticket[n] \in Nat
    BY DEF InBack, InChain
  <2>1. \A n \in Mutexes : pc'[n] \notin {"test_prev", "set_start"}
    BY <1>1, Early DEF Exchange
  <2>2. ASSUME NEW n \in InBack, NEW p, IsAfter(InBack, n, p) PROVE IsAfter(InBack, n, p)'
    BY <1>1, <2>0, <2>2, ExchangeEffect DEF IsAfter
  <2>3. ASSUME NEW n \in InBack, prev[n] = NULL
        PROVE  \E k \in InBack' : old'[k] = n /\ pc'[k] \in {"set_next", "set_prev"}
    <3>1. CASE start = n
      BY <1>1, <3>1, ExchangeEffect
    <3>2. CASE \E k \in InBack : old[k] = n /\ pc[k] \in {"set_next", "set_prev"}
      BY <1>1, <3>2, ExchangeEffect
    <3>3. \A k \in Mutexes : pc[k] \notin {"test_prev", "set_start"}
      BY <1>1, Early DEF Exchange
    <3> QED
      BY <2>3, <3>1, <3>2, <3>3
  <2>4. \A n \in InBack : prev'[n] = prev[n]
    BY <1>1, <2>0, ExchangeEffect
  <2>5. InBack' = InBack \cup {m} /\ start' = m /\ prev'[m] = NULL
    BY <1>1, ExchangeEffect
  <2>6. ASSUME NEW n \in InBack PROVE prev'[n] = NULL \/ IsAfter(InBack, n, prev[n])'
    BY <2>2, <2>4
  <2>7. ASSUME NEW n \in InBack'
        PROVE  /\ prev'[n] = NULL \/ IsAfter(InBack, n, prev[n])'
               /\ prev'[n] = NULL =>
                    \/ start' = n
                    \/ \E k \in InBack' : old'[k] = n /\ pc'[k] \in {"set_next", "set_prev"}
    <3>1. CASE n = m
      BY <2>5, <3>1
    <3>2. CASE n \in InBack
      BY <2>3, <2>4, <2>6, <3>2
    <3> QED
      BY <2>5, <3>1, <3>2
  <2> QED
    BY <2>1, <2>7
<1>2. ASSUME NEW m \in Mutexes, SetNext(m) PROVE BackInv'
  <2>0. \A n \in InBack : n \in InChain /\ n \in Mutexes /\ ticket[n] \in Nat
    BY DEF InBack, InChain
  <2>1. InBack' = InBack /\ UNCHANGED <<ticket, start, prev, old>>
    BY <1>2 DEF SetNext, InBack, InChain
  <2>2. /\ pc[m] = "set_next" /\ pc'[m] = "set_prev"
        /\ \A n \in Mutexes : n # m => next'[n] = next[n] /\ pc'[n] = pc[n]
    BY <1>2 DEF SetNext
  <2>3. \A n, p : IsAfter(InBack, n, p)' = IsAfter(InBack, n, p)
    BY <2>1 DEF IsAfter
  <2> QED
    BY <2>0, <2>1, <2>2, <2>3
<1>3. ASSUME NEW m \in Mutexes, SetPrev(m) PROVE BackInv'
  <2>0. \A n \in InBack : n \in InChain /\ n \in Mutexes /\ ticket[n] \in Nat
    BY DEF InBack, InChain
  <2>1. InBack' = InBack /\ UNCHANGED <<ticket, start, next, old>>
    BY <1>3 DEF SetPrev, InBack, InChain
  <2>2. /\ pc[m] = "set_prev" /\ pc'[m] = "test_end"
        /\ \A n \in Mutexes : n # m => pc'[n] = pc[n]
    BY <1>3 DEF SetPrev
  <2>3. \A n, p : IsAfter(InBack, n, p)' = IsAfter(InBack, n, p)
    BY <2>1 DEF IsAfter
  <2>4. \A n \in Mutexes : pc[n] \notin {"test_prev", "set_start"}
    BY <1>3, <2>2, Early
  <2>5. ASSUME NEW n \in Mutexes, old[m] = n
        PROVE  IsAfter(InBack, n, m) /\ prev'[n] = m /\ m # NULL
    <3>1. InBack = InChain /\ m \in InChain /\ IsBefore(InChain, m, n)
      BY <1>3, <2>2, <2>5, Early DEF InChain, ChainInv
    <3>2. n \in InChain /\ ticket[n] < ticket[m]
      BY <3>1 DEF IsBefore
    <3>3. IsAfter(InBack, n, m)
      BY <2>0, <3>1, <3>2 DEF IsBefore, IsAfter
    <3> QED
      BY <1>3, <2>5, <3>3 DEF SetPrev
  <2>6. \A n \in Mutexes : n # old[m] => prev'[n] = prev[n]
    BY <1>3 DEF SetPrev
  <2>7. ASSUME NEW n \in InBack PROVE prev'[n] = NULL \/ IsAfter(InBack, n, prev[n])'
    BY <2>0, <2>1, <2>3, <2>5, <2>6
  <2>8. ASSUME NEW n \in InBack, prev'[n] = NULL
        PROVE  start = n \/ \E k \in InBack : old[k] = n /\ pc'[k] \in {"set_next", "set_prev"}
    <3>1. n # old[m] /\ prev[n] = NULL
      BY <2>0, <2>5, <2>6, <2>8
    <3> QED
      BY <2>0, <2>2, <2>4, <3>1
  <2> QED
    BY <2>1, <2>2, <2>4, <2>7, <2>8
<1>4. ASSUME NEW m \in Mutexes, TestEnd(m) PROVE BackInv'
  <2>0. \A n \in InBack : n \in Mutexes
    BY DEF InBack, InChain
  <2>1. InBack' = InBack
    BY <1>4 DEF TestEnd, InBack, InChain
  <2>2. UNCHANGED <<ticket, start, next, old, prev>>
    BY <1>4 DEF TestEnd
  <2>3. \A n \in Mutexes : /\ pc'[n] \in {"test_prev", "set_start"} <=> pc[n] \in {"test_prev", "set_start"}
                           /\ pc'[n] = "test_prev" <=> pc[n] = "test_prev"
                           /\ pc'[n] \in {"set_next", "set_prev"} <=> pc[n] \in {"set_next", "set_prev"}
    BY <1>4 DEF TestEnd
  <2>4. \A n, p : IsAfter(InBack, n, p)' = IsAfter(InBack, n, p)
    BY <2>1, <2>2 DEF IsAfter
  <2> QED
    BY <2>0, <2>1, <2>2, <2>3, <2>4
<1>5. ASSUME NEW m \in Mutexes, SetEnd(m) PROVE BackInv'
  <2>0. \A n \in InBack : n \in Mutexes
    BY DEF InBack, InChain
  <2>1. InBack' = InBack
    BY <1>5 DEF SetEnd, InBack, InChain
  <2>2. UNCHANGED <<ticket, start, next, old, prev>>
    BY <1>5 DEF SetEnd
  <2>3. \A n \in Mutexes : /\ pc'[n] \in {"test_prev", "set_start"} <=> pc[n] \in {"test_prev", "set_start"}
                           /\ pc'[n] = "test_prev" <=> pc[n] = "test_prev"
                           /\ pc'[n] \in {"set_next", "set_prev"} <=> pc[n] \in {"set_next", "set_prev"}
    BY <1>5 DEF SetEnd
  <2>4. \A n, p : IsAfter(InBack, n, p)' = IsAfter(InBack, n, p)
    BY <2>1, <2>2 DEF IsAfter
  <2> QED
    BY <2>0, <2>1, <2>2, <2>3, <2>4
<1>6. ASSUME NEW m \in Mutexes, Add(m) PROVE BackInv'
  <2>0. \A n \in InBack : n \in Mutexes
    BY DEF InBack, InChain
  <2>1. InBack' = InBack
    BY <1>6 DEF Add, CountWithNew, InBack, InChain
  <2>2. UNCHANGED <<ticket, start, next, old, prev>>
    BY <1>6 DEF Add, CountWithNew
  <2>3. \A n \in Mutexes : /\ pc'[n] \in {"test_prev", "set_start"} <=> pc[n] \in {"test_prev", "set_start"}
                           /\ pc'[n] = "test_prev" <=> pc[n] = "test_prev"
                           /\ pc'[n] \in {"set_next", "set_prev"} <=> pc[n] \in {"set_next", "set_prev"}
    BY <1>6 DEF Add, CountWithNew
  <2>4. \A n, p : IsAfter(InBack, n, p)' = IsAfter(InBack, n, p)
    BY <2>1, <2>2 DEF IsAfter
  <2> QED
    BY <2>0, <2>1, <2>2, <2>3, <2>4
<1>7. ASSUME NEW m \in Mutexes, FreeBegin(m) PROVE BackInv'
  <2>0. \A n \in InBack : n \in Mutexes
    BY DEF InBack, InChain
  <2>9. count > 0
    BY <1>7, CountPositive DEF FreeBegin, InCount
  <2>1. InBack' = InBack
    BY <1>7, <2>9 DEF FreeBegin, EnterFree, InBack, InChain
  <2>2. UNCHANGED <<ticket, start, next, old, prev>>
    BY <1>7, <2>9 DEF FreeBegin, EnterFree
  <2>3. \A n \in Mutexes : /\ pc'[n] \in {"test_prev", "set_start"} <=> pc[n] \in {"test_prev", "set_start"}
                           /\ pc'[n] = "test_prev" <=> pc[n] = "test_prev"
                           /\ pc'[n] \in {"set_next", "set_prev"} <=> pc[n] \in {"set_next", "set_prev"}
    BY <1>7, <2>9 DEF FreeBegin, EnterFree
  <2>4. \A n, p : IsAfter(InBack, n, p)' = IsAfter(InBack, n, p)
    BY <2>1, <2>2 DEF IsAfter
  <2> QED
    BY <2>0, <2>1, <2>2, <2>3, <2>4
<1>8. ASSUME NEW m \in Mutexes, UnlinkNext(m) PROVE BackInv'
  <2>0. \A n \in InBack : n \in InChain /\ n \in Mutexes /\ ticket[n] \in Nat
    BY DEF InBack, InChain
  <2>1. \A n \in Mutexes : n = m \/ pc[n] \in {"created", "freed"}
    BY <1>8, Late DEF UnlinkNext
  <2>2. /\ m \in InChain /\ m \in InBack /\ InBack = InChain /\ IsBefore(InChain, m, next[m])
        /\ pc[m] = "unlink_next"
    BY <1>8, <2>1 DEF UnlinkNext, InBack, InChain, ChainInv
  <2>3. /\ InBack' = InBack \ {m} /\ UNCHANGED <<ticket, start, next, old>>
        /\ pc'[m] = "test_prev" /\ \A n \in Mutexes : n # m => pc'[n] = pc[n]
    BY <1>8 DEF UnlinkNext, InBack, InChain
  <2>4. next[m] # m /\ prev'[m] = prev[m] /\ \A n \in Mutexes : n # next[m] => prev'[n] = prev[n]
    BY <1>8, <2>2 DEF UnlinkNext, IsBefore
  <2>5. prev[m] = NULL \/ IsAfter(InBack', m, prev[m])
    BY <2>0, <2>2, <2>3 DEF IsAfter
  <2>6. prev[m] = NULL => start = m
    BY <2>0, <2>1, <2>2
  <2>7. ASSUME NEW n \in InBack', n # next[m]
        PROVE  /\ prev'[n] = prev[n]
               /\ prev[n] = NULL \/ IsAfter(InBack', n, prev[n])
               /\ prev[n] = NULL => start = n
    <3>1. n \in InBack /\ n \in Mutexes /\ n # m /\ prev'[n] = prev[n]
      BY <2>0, <2>3, <2>4, <2>7
    <3>2. ASSUME IsAfter(InBack, n, prev[n]) PROVE prev[n] # m
      <4> SUFFICES ASSUME prev[n] = m PROVE FALSE
        OBVIOUS
      <4>1. ticket[n] < ticket[m] /\ \A k \in InBack : ticket[n] < ticket[k] => ticket[m] =< ticket[k]
        BY <3>2 DEF IsAfter
      <4>2. /\ next[m] \in InChain /\ ticket[next[m]] < ticket[m]
            /\ ticket[n] =< ticket[next[m]]
        BY <2>0, <2>2, <3>1, <4>1 DEF IsBefore
      <4>3. ticket[n] = ticket[next[m]]
        BY <2>0, <2>2, <3>1, <4>1, <4>2
      <4>4. ticket[n] > 0
        BY <3>1, <2>0, TicketOf
      <4> QED
        BY <2>0, <2>2, <2>7, <3>1, <4>2, <4>3, <4>4 DEF TicketInv
    <3>3. IsAfter(InBack, n, prev[n]) => IsAfter(InBack', n, prev[n])
      BY <2>3, <3>2 DEF IsAfter
    <3>4. prev[n] = NULL => start = n
      BY <2>0, <2>1, <2>2, <3>1 DEF Freeing
    <3> QED
      BY <3>1, <3>3, <3>4
  <2>8. ASSUME next[m] \in InBack'
        PROVE  /\ prev'[next[m]] = prev[m] /\ next[m] \in Mutexes
               /\ prev[m] = NULL \/ IsAfter(InBack', next[m], prev[m])
    <3>1. next[m] \in Mutexes /\ prev'[next[m]] = prev[m]
      BY <1>8, <2>0, <2>3, <2>8 DEF UnlinkNext
    <3>2. ticket[next[m]] < ticket[m] /\ \A k \in InBack : ticket[k] < ticket[m] => ticket[k] =< ticket[next[m]]
      BY <2>2, <3>1 DEF IsBefore
    <3>3. \A k \in InBack' : ticket[k] # ticket[m]
      BY <2>0, <2>2, <2>3, TicketOf DEF TicketInv
    <3> QED
      BY <2>0, <2>2, <2>3, <2>5, <2>8, <3>1, <3>2, <3>3, SMTT(40) DEF IsAfter
  <2>9. \A n, p : IsAfter(InBack, n, p)' = IsAfter(InBack', n, p)
    BY <2>3 DEF IsAfter
  <2>10. ASSUME NEW n \in InBack'
         PROVE  /\ prev'[n] = NULL \/ IsAfter(InBack, n, prev[n])'
                /\ prev'[n] = NULL => \/ start = n
                                      \/ start = m /\ next[m] = n
    <3>1. CASE n = next[m]
      <4>1. prev'[n] = prev[m] /\ (prev[m] = NULL \/ IsAfter(InBack', n, prev'[n]))
        BY <2>8, <3>1
      <4> QED
        BY <2>6, <2>9, <3>1, <4>1
    <3>2. CASE n # next[m]
      <4>1. prev'[n] = prev[n] /\ (prev[n] = NULL \/ IsAfter(InBack', n, prev'[n]))
        BY <2>7, <3>2
      <4> QED
        BY <2>7, <2>9, <3>2, <4>1
    <3> QED
      BY <3>1, <3>2
  <2>11. \A n \in Mutexes : pc'[n] \in {"test_prev", "set_start"} => n = m
    BY <2>1, <2>3
  <2>12. \/ prev'[m] = NULL /\ start = m
         \/ IsAfter(InBack, m, prev[m])'
    BY <2>4, <2>5, <2>6, <2>9
  <2> HIDE DEF BackInv, TypeInv, TypeOK, Creating, Freeing, list, links, walk
  <2>13. ASSUME NEW n \in InBack', prev'[n] = NULL
         PROVE  start' = n \/ \E k \in Mutexes : /\ start' = k /\ next'[k] = n
                                                 /\ pc'[k] \in {"test_prev", "set_start"}
    BY <2>3, <2>10, <2>13
  <2>14. ASSUME NEW n \in Mutexes, pc'[n] \in {"test_prev", "set_start"}
         PROVE  \/ prev'[n] = NULL /\ start' = n
                \/ pc'[n] = "test_prev" /\ IsAfter(InBack, n, prev[n])'
    <3>1. n = m /\ pc'[n] = "test_prev" /\ start' = start
      BY <2>3, <2>11, <2>14
    <3> QED
      BY <2>12, <3>1
  <2> QED
    BY <2>10, <2>13, <2>14 DEF BackInv
<1>9. ASSUME NEW m \in Mutexes, UnlinkPrev(m) PROVE BackInv'
  <2>0. \A n \in InBack : n \in InChain /\ n \in Mutexes /\ ticket[n] \in Nat
    BY DEF InBack, InChain
  <2>1. \A n \in Mutexes : n = m \/ pc[n] \in {"created", "freed"}
    BY <1>9, Late DEF UnlinkPrev
  <2>2. /\ InBack' = InBack /\ UNCHANGED <<ticket, start, old, prev>> /\ m \notin InBack
        /\ pc'[m] \in {"load_count", "set_start"}
        /\ \A n \in Mutexes : n # m => pc'[n] = pc[n]
    BY <1>9 DEF UnlinkPrev, InBack, InChain
  <2>3. \A n, p : IsAfter(InBack, n, p)' = IsAfter(InBack, n, p)
    BY <2>2 DEF IsAfter
  <2>4. CASE prev[m] = NULL
    <3>1. pc'[m] = "set_start" /\ next' = next /\ start = m
      BY <1>9, <2>4, MutexesAssumption DEF UnlinkPrev, IsAfter, InBack, InChain
    <3> QED
      BY <2>0, <2>1, <2>2, <2>3, <2>4, <3>1
  <2>5. CASE prev[m] # NULL
    <3>1. pc'[m] = "load_count" /\ IsAfter(InBack, m, prev[m])
      BY <1>9, <2>5 DEF UnlinkPrev
    <3>2. start # m
      <4>1. m \in InChain /\ IsYoungest(InChain, start) /\ m \in Mutexes
        BY <1>9 DEF UnlinkPrev, InChain, ChainInv
      <4> QED
        BY <2>0, <3>1, <4>1 DEF IsAfter, IsYoungest
    <3>3. \A n \in Mutexes : pc'[n] \notin {"test_prev", "set_start"}
      BY <2>1, <2>2, <3>1
    <3> QED
      BY <2>0, <2>1, <2>2, <2>3, <3>2, <3>3
  <2> QED
    BY <2>4, <2>5
<1>10. ASSUME NEW m \in Mutexes, SetStart(m) PROVE BackInv'
  <2>0. \A n \in InBack : n \in InChain /\ n \in Mutexes /\ ticket[n] \in Nat
    BY DEF InBack, InChain
  <2>1. \A n \in Mutexes : n = m \/ pc[n] \in {"created", "freed"}
    BY <1>10, Late DEF SetStart
  <2>2. /\ InBack' = InBack /\ UNCHANGED <<ticket, old, prev, next>> /\ m \notin InBack
        /\ pc'[m] = "load_count" /\ start = m /\ start' = next[m]
        /\ \A n \in Mutexes : n # m => pc'[n] = pc[n]
    BY <1>10 DEF SetStart, InBack, InChain
  <2>3. \A n, p : IsAfter(InBack, n, p)' = IsAfter(InBack, n, p)
    BY <2>2 DEF IsAfter
  <2> QED
    BY <2>0, <2>1, <2>2, <2>3
<1>11. ASSUME NEW m \in Mutexes, LoadCount(m) PROVE BackInv'
  <2>0. \A n \in InBack : n \in Mutexes
    BY DEF InBack, InChain
  <2>1. InBack' = InBack
    BY <1>11 DEF LoadCount, InBack, InChain
  <2>2. UNCHANGED <<ticket, start, next, old, prev>>
    BY <1>11 DEF LoadCount
  <2>3. \A n \in Mutexes : /\ pc'[n] \in {"test_prev", "set_start"} <=> pc[n] \in {"test_prev", "set_start"}
                           /\ pc'[n] = "test_prev" <=> pc[n] = "test_prev"
                           /\ pc'[n] \in {"set_next", "set_prev"} <=> pc[n] \in {"set_next", "set_prev"}
    BY <1>11 DEF LoadCount
  <2>4. \A n, p : IsAfter(InBack, n, p)' = IsAfter(InBack, n, p)
    BY <2>1, <2>2 DEF IsAfter
  <2> QED
    BY <2>0, <2>1, <2>2, <2>3, <2>4
<1>12. ASSUME NEW m \in Mutexes, StoreCount(m) PROVE BackInv'
  <2>0. \A n \in InBack : n \in Mutexes
    BY DEF InBack, InChain
  <2>1. InBack' = InBack
    BY <1>12 DEF StoreCount, InBack, InChain
  <2>2. UNCHANGED <<ticket, start, next, old, prev>>
    BY <1>12 DEF StoreCount
  <2>3. \A n \in Mutexes : /\ pc'[n] \in {"test_prev", "set_start"} <=> pc[n] \in {"test_prev", "set_start"}
                           /\ pc'[n] = "test_prev" <=> pc[n] = "test_prev"
                           /\ pc'[n] \in {"set_next", "set_prev"} <=> pc[n] \in {"set_next", "set_prev"}
    BY <1>12 DEF StoreCount
  <2>4. \A n, p : IsAfter(InBack, n, p)' = IsAfter(InBack, n, p)
    BY <2>1, <2>2 DEF IsAfter
  <2> QED
    BY <2>0, <2>1, <2>2, <2>3, <2>4
<1>13. ASSUME WalkBegin PROVE BackInv'
  <2>0. \A n \in InBack : n \in Mutexes
    BY DEF InBack, InChain
  <2>1. InBack' = InBack
    BY <1>13 DEF WalkBegin, InBack, InChain
  <2>2. UNCHANGED <<ticket, start, next, old, prev>>
    BY <1>13 DEF WalkBegin
  <2>3. \A n \in Mutexes : /\ pc'[n] \in {"test_prev", "set_start"} <=> pc[n] \in {"test_prev", "set_start"}
                           /\ pc'[n] = "test_prev" <=> pc[n] = "test_prev"
                           /\ pc'[n] \in {"set_next", "set_prev"} <=> pc[n] \in {"set_next", "set_prev"}
    BY <1>13 DEF WalkBegin
  <2>4. \A n, p : IsAfter(InBack, n, p)' = IsAfter(InBack, n, p)
    BY <2>1, <2>2 DEF IsAfter
  <2> QED
    BY <2>0, <2>1, <2>2, <2>3, <2>4
<1>14. ASSUME WalkNext PROVE BackInv'
  <2>0. \A n \in InBack : n \in Mutexes
    BY DEF InBack, InChain
  <2>1. InBack' = InBack
    BY <1>14 DEF WalkNext, InBack, InChain
  <2>2. UNCHANGED <<ticket, start, next, old, prev>>
    BY <1>14 DEF WalkNext
  <2>3. \A n \in Mutexes : /\ pc'[n] \in {"test_prev", "set_start"} <=> pc[n] \in {"test_prev", "set_start"}
                           /\ pc'[n] = "test_prev" <=> pc[n] = "test_prev"
                           /\ pc'[n] \in {"set_next", "set_prev"} <=> pc[n] \in {"set_next", "set_prev"}
    BY <1>14 DEF WalkNext
  <2>4. \A n, p : IsAfter(InBack, n, p)' = IsAfter(InBack, n, p)
    BY <2>1, <2>2 DEF IsAfter
  <2> QED
    BY <2>0, <2>1, <2>2, <2>3, <2>4
<1>15. ASSUME WalkEnd PROVE BackInv'
  <2>0. \A n \in InBack : n \in Mutexes
    BY DEF InBack, InChain
  <2>1. InBack' = InBack
    BY <1>15 DEF WalkEnd, InBack, InChain
  <2>2. UNCHANGED <<ticket, start, next, old, prev>>
    BY <1>15 DEF WalkEnd
  <2>3. \A n \in Mutexes : /\ pc'[n] \in {"test_prev", "set_start"} <=> pc[n] \in {"test_prev", "set_start"}
                           /\ pc'[n] = "test_prev" <=> pc[n] = "test_prev"
                           /\ pc'[n] \in {"set_next", "set_prev"} <=> pc[n] \in {"set_next", "set_prev"}
    BY <1>15 DEF WalkEnd
  <2>4. \A n, p : IsAfter(InBack, n, p)' = IsAfter(InBack, n, p)
    BY <2>1, <2>2 DEF IsAfter
  <2> QED
    BY <2>0, <2>1, <2>2, <2>3, <2>4
<1> QED
  BY <1>1, <1>2, <1>3, <1>4, <1>5, <1>6, <1>7, <1>8,
     <1>9, <1>10, <1>11, <1>12, <1>13, <1>14, <1>15 DEF ListNext, Create, Free

----------------------------------------------------------------------------
(* The end.                                                                *)

LEMMA EndInit == ListInit => EndInv
  BY MutexesAssumption DEF ListInit, EndInv, Freeing

\* A step of a creation, of the first mutex or after it.
LEMMA EndStepCreate ==
  ASSUME TypeInv, PhaseInv, TicketInv, EndInv, NEW m \in Mutexes, m = First \/ Initialized, Create(m)
  PROVE  EndInv'
<1> USE MutexesAssumption DEF TypeInv, TypeOK, Creating, Freeing, Goto, list, links, walk, Initialized
<1>1. CASE Exchange(m)
  <2>1. /\ pc[m] = "new" /\ pc' = [pc EXCEPT ![m] = "set_next"] /\ end' = end
        /\ ticket' = [ticket EXCEPT ![m] = Exchanged + 1] /\ Exchanged \in Nat
    BY <1>1, SetsFinite DEF Exchange
  <2>2. \A n \in Mutexes : ticket[n] \in Nat /\ ticket[n] =< Exchanged
    BY DEF TicketInv
  <2> QED
    BY <2>1, <2>2 DEF EndInv
<1>2. CASE SetNext(m)
  BY <1>2 DEF SetNext, EndInv
<1>3. CASE SetPrev(m)
  BY <1>3 DEF SetPrev, EndInv
<1>4. CASE TestEnd(m)
  BY <1>4 DEF TestEnd, NoEnd, EndInv
<1>5. CASE SetEnd(m)
  BY <1>5 DEF SetEnd, EndInv
<1>6. CASE Add(m)
  BY <1>6 DEF Add, EndInv
<1> QED
  BY <1>1, <1>2, <1>3, <1>4, <1>5, <1>6 DEF Create

\* A step of a removal of another mutex, which has an older one behind it.
LEMMA EndStepFree ==
  ASSUME TypeInv, TicketInv, ChainInv, EndInv, CountInv,
         NEW m \in Mutexes \ {First}, Initialized, Free(m)
  PROVE  EndInv'
<1> USE MutexesAssumption DEF TypeInv, TypeOK, Freeing, Goto, list, links, walk, Initialized
<1>1. CASE FreeBegin(m)
  BY <1>1 DEF FreeBegin, EndInv
<1>2. CASE UnlinkNext(m)
  <2>1. m \in InChain /\ First \in InChain /\ ticket[First] < ticket[m]
        /\ ticket[m] \in Nat /\ ticket[First] \in Nat
    BY <1>2 DEF UnlinkNext, InChain, EndInv
  <2>2. IsBefore(InChain, m, next[m])
    BY <1>2, <2>1 DEF UnlinkNext, ChainInv
  <2>3. next[m] # NULL
    BY <2>1, <2>2 DEF IsBefore, InChain
  <2> QED
    BY <1>2, <2>3 DEF UnlinkNext, EndInv
<1>3. CASE UnlinkPrev(m)
  BY <1>3 DEF UnlinkPrev, EndInv
<1>4. CASE SetStart(m)
  BY <1>4 DEF SetStart, EndInv
<1>5. CASE LoadCount(m)
  BY <1>5 DEF LoadCount, EndInv
<1>6. CASE StoreCount(m)
  BY <1>6 DEF StoreCount, EndInv
<1> QED
  BY <1>1, <1>2, <1>3, <1>4, <1>5, <1>6 DEF Free

LEMMA EndStep ==
  ASSUME TypeInv, PhaseInv, TicketInv, ChainInv, EndInv, CountInv, ListNext
  PROVE  EndInv'
<1>1. CASE WalkBegin \/ WalkNext \/ WalkEnd
  BY <1>1, MutexesAssumption DEF WalkBegin, WalkNext, WalkEnd, Goto, list, TypeInv, EndInv, Initialized
<1> QED
  BY <1>1, EndStepCreate, EndStepFree, MutexesAssumption DEF ListNext

----------------------------------------------------------------------------
(* The count.                                                              *)

LEMMA CountInit == ListInit => CountInv
<1> SUFFICES ASSUME ListInit PROVE CountInv
  OBVIOUS
<1>1. InCount = {} /\ count = 0
  BY DEF ListInit, InCount, Freeing
<1> QED
  BY <1>1, FS_EmptySet DEF ListInit, CountInv

LEMMA CountStep ==
  ASSUME TypeInv, LatchInv, PhaseInv, CountInv, ListNext
  PROVE  CountInv'
<1> USE MutexesAssumption DEF CountInv, TypeInv, TypeOK, Creating, Freeing,
        Goto, list, links, walk
<1>1. ASSUME NEW m \in Mutexes, Exchange(m) PROVE CountInv'
  <2>1. InCount' = InCount
    BY <1>1 DEF Exchange, PrevOfNew, InCount
  <2>2. count' = count
    BY <1>1 DEF Exchange, PrevOfNew
  <2>3. \A n \in Mutexes : pc'[n] = "store_count" => tmp'[n] = count
    BY <1>1 DEF Exchange, PrevOfNew
  <2> QED
    BY <2>1, <2>2, <2>3
<1>2. ASSUME NEW m \in Mutexes, SetNext(m) PROVE CountInv'
  <2>1. InCount' = InCount
    BY <1>2 DEF SetNext, Behind, InCount
  <2>2. count' = count
    BY <1>2 DEF SetNext, Behind
  <2>3. \A n \in Mutexes : pc'[n] = "store_count" => tmp'[n] = count
    BY <1>2 DEF SetNext, Behind
  <2> QED
    BY <2>1, <2>2, <2>3
<1>3. ASSUME NEW m \in Mutexes, SetPrev(m) PROVE CountInv'
  <2>1. InCount' = InCount
    BY <1>3 DEF SetPrev, InCount
  <2>2. count' = count
    BY <1>3 DEF SetPrev
  <2>3. \A n \in Mutexes : pc'[n] = "store_count" => tmp'[n] = count
    BY <1>3 DEF SetPrev
  <2> QED
    BY <2>1, <2>2, <2>3
<1>4. ASSUME NEW m \in Mutexes, TestEnd(m) PROVE CountInv'
  <2>1. InCount' = InCount
    BY <1>4 DEF TestEnd, InCount
  <2>2. count' = count
    BY <1>4 DEF TestEnd
  <2>3. \A n \in Mutexes : pc'[n] = "store_count" => tmp'[n] = count
    BY <1>4 DEF TestEnd
  <2> QED
    BY <2>1, <2>2, <2>3
<1>5. ASSUME NEW m \in Mutexes, SetEnd(m) PROVE CountInv'
  <2>1. InCount' = InCount
    BY <1>5 DEF SetEnd, InCount
  <2>2. count' = count
    BY <1>5 DEF SetEnd
  <2>3. \A n \in Mutexes : pc'[n] = "store_count" => tmp'[n] = count
    BY <1>5 DEF SetEnd
  <2> QED
    BY <2>1, <2>2, <2>3
<1>6. ASSUME NEW m \in Mutexes, Add(m) PROVE CountInv'
  <2>1. m \notin InCount /\ InCount' = InCount \cup {m} /\ count' = count + 1
    BY <1>6 DEF Add, CountWithNew, InCount
  <2>2. \A n \in Mutexes : pc'[n] # "store_count"
    BY <1>6, Early DEF Add
  <2> QED
    BY <2>1, <2>2, SetsFinite, FS_AddElement
<1>7. ASSUME NEW m \in Mutexes, FreeBegin(m) PROVE CountInv'
  <2>9. count > 0
    BY <1>7, CountPositive DEF FreeBegin, InCount
  <2>1. InCount' = InCount
    BY <1>7, <2>9 DEF FreeBegin, EnterFree, InCount
  <2>2. count' = count
    BY <1>7, <2>9 DEF FreeBegin, EnterFree
  <2>3. \A n \in Mutexes : pc'[n] = "store_count" => tmp'[n] = count
    BY <1>7, <2>9 DEF FreeBegin, EnterFree
  <2> QED
    BY <2>1, <2>2, <2>3
<1>8. ASSUME NEW m \in Mutexes, UnlinkNext(m) PROVE CountInv'
  <2>1. InCount' = InCount
    BY <1>8 DEF UnlinkNext, InCount
  <2>2. count' = count
    BY <1>8 DEF UnlinkNext
  <2>3. \A n \in Mutexes : pc'[n] = "store_count" => tmp'[n] = count
    BY <1>8 DEF UnlinkNext
  <2> QED
    BY <2>1, <2>2, <2>3
<1>9. ASSUME NEW m \in Mutexes, UnlinkPrev(m) PROVE CountInv'
  <2>1. InCount' = InCount
    BY <1>9 DEF UnlinkPrev, InCount
  <2>2. count' = count
    BY <1>9 DEF UnlinkPrev
  <2>3. \A n \in Mutexes : pc'[n] = "store_count" => tmp'[n] = count
    BY <1>9 DEF UnlinkPrev
  <2> QED
    BY <2>1, <2>2, <2>3
<1>10. ASSUME NEW m \in Mutexes, SetStart(m) PROVE CountInv'
  <2>1. InCount' = InCount
    BY <1>10 DEF SetStart, InCount
  <2>2. count' = count
    BY <1>10 DEF SetStart
  <2>3. \A n \in Mutexes : pc'[n] = "store_count" => tmp'[n] = count
    BY <1>10 DEF SetStart
  <2> QED
    BY <2>1, <2>2, <2>3
<1>11. ASSUME NEW m \in Mutexes, LoadCount(m) PROVE CountInv'
  <2>1. InCount' = InCount
    BY <1>11 DEF LoadCount, InCount
  <2>2. count' = count
    BY <1>11 DEF LoadCount
  <2>3. \A n \in Mutexes : pc'[n] = "store_count" => tmp'[n] = count
    BY <1>11 DEF LoadCount
  <2> QED
    BY <2>1, <2>2, <2>3
<1>12. ASSUME NEW m \in Mutexes, StoreCount(m) PROVE CountInv'
  <2>1. m \in InCount /\ InCount' = InCount \ {m} /\ count' = count - 1
    BY <1>12 DEF StoreCount, InCount
  <2>2. \A n \in Mutexes : pc'[n] # "store_count"
    BY <1>12, Late DEF StoreCount
  <2> QED
    BY <2>1, <2>2, SetsFinite, FS_RemoveElement
<1>13. ASSUME WalkBegin PROVE CountInv'
  <2>1. InCount' = InCount
    BY <1>13 DEF WalkBegin, InCount
  <2>2. count' = count
    BY <1>13 DEF WalkBegin
  <2>3. \A n \in Mutexes : pc'[n] = "store_count" => tmp'[n] = count
    BY <1>13 DEF WalkBegin
  <2> QED
    BY <2>1, <2>2, <2>3
<1>14. ASSUME WalkNext PROVE CountInv'
  <2>1. InCount' = InCount
    BY <1>14 DEF WalkNext, InCount
  <2>2. count' = count
    BY <1>14 DEF WalkNext
  <2>3. \A n \in Mutexes : pc'[n] = "store_count" => tmp'[n] = count
    BY <1>14 DEF WalkNext
  <2> QED
    BY <2>1, <2>2, <2>3
<1>15. ASSUME WalkEnd PROVE CountInv'
  <2>1. InCount' = InCount
    BY <1>15 DEF WalkEnd, InCount
  <2>2. count' = count
    BY <1>15 DEF WalkEnd
  <2>3. \A n \in Mutexes : pc'[n] = "store_count" => tmp'[n] = count
    BY <1>15 DEF WalkEnd
  <2> QED
    BY <2>1, <2>2, <2>3
<1> QED
  BY <1>1, <1>2, <1>3, <1>4, <1>5, <1>6, <1>7, <1>8,
     <1>9, <1>10, <1>11, <1>12, <1>13, <1>14, <1>15 DEF ListNext, Create, Free

----------------------------------------------------------------------------
(* The walk.                                                               *)

LEMMA WalkInit == ListInit => WalkInv
  BY MutexesAssumption DEF ListInit, WalkInv

LEMMA WalkSetsFinite ==
  ASSUME TypeInv
  PROVE  /\ IsFiniteSet(listed) /\ Cardinality(listed) \in Nat
         /\ IsFiniteSet(Passed) /\ Cardinality(Passed) \in Nat
         /\ IsFiniteSet(InSight) /\ Cardinality(InSight) \in Nat
<1>1. listed \subseteq Mutexes /\ Passed \subseteq Mutexes /\ InSight \subseteq Mutexes
  BY DEF TypeInv, TypeOK, Passed, InSight
<1> QED
  BY <1>1, MutexesAssumption, FS_Subset, FS_CardinalityType

\* A step of a creation after the exchange leaves what the walk relies on.
LEMMA WalkKeptByCreation ==
  ASSUME TypeInv, WalkInv, UNCHANGED <<ticket, walk>>, InChain' = InChain,
         pc'[Walker] = pc[Walker],
         \A m \in Mutexes : pc'[m] = "set_next" => pc[m] = "set_next"
  PROVE  WalkInv'
<1>1. UNCHANGED <<cur, seen, listed, half, ticket>>
  BY DEF walk
<1>2. Passed' = Passed /\ InSight' = InSight
  BY <1>1 DEF Passed, InSight
<1>3. InChain \subseteq Mutexes
  BY DEF InChain
<1> QED
  BY <1>1, <1>2, <1>3 DEF WalkInv

\* A step of a removal is taken when the walk holds no latch.
LEMMA WalkKeptByRemoval ==
  ASSUME TypeInv, WalkInv, UNCHANGED <<ticket, walk>>, pc'[Walker] = pc[Walker],
         pc[Walker] # "walking"
  PROVE  WalkInv'
<1>1. UNCHANGED <<cur, seen, listed, half, ticket>> /\ cur \notin Mutexes
  BY DEF walk, WalkInv
<1>2. InSight' = InSight
  BY <1>1 DEF InSight
<1> QED
  BY <1>1, <1>2 DEF WalkInv

LEMMA WalkStep ==
  ASSUME TypeInv, LatchInv, PhaseInv, TicketInv, ChainInv, CountInv, WalkInv, ListNext
  PROVE  WalkInv'
<1> USE MutexesAssumption DEF TypeInv, TypeOK, Goto
<1>1. ASSUME NEW m \in Mutexes, Exchange(m) PROVE WalkInv'
  <2>1. UNCHANGED <<cur, seen, listed, half>> /\ pc'[Walker] = pc[Walker] /\ ticket[m] = 0
    BY <1>1 DEF Exchange, walk, TicketInv
  <2>2. \A n \in Mutexes : n # m => ticket'[n] = ticket[n]
    BY <1>1 DEF Exchange
  <2>3. m \notin listed \cup half /\ \A n \in listed \cup half : n \in Mutexes /\ ticket'[n] = ticket[n]
    BY <2>1, <2>2 DEF WalkInv
  <2>4. InSight' = InSight
    BY <2>1, <2>3 DEF InSight
  <2>5. ASSUME cur \in Mutexes
        PROVE  /\ pc'[Walker] = "walking" /\ cur \in InChain' /\ listed \subseteq InChain'
               /\ Passed' = Passed /\ seen = Cardinality(Passed)
               /\ \A n \in InChain' : ticket'[n] =< ticket'[cur] =>
                     n \in listed /\ (pc'[n] = "set_next" => n \in half)
    <3>1. /\ InChain' = InChain \cup {m} /\ m \notin InChain /\ ticket'[m] \in Nat
          /\ \A n \in InChain : /\ ticket'[n] = ticket[n] /\ ticket[n] < ticket'[m]
                                 /\ pc'[n] = pc[n] /\ ticket[n] \in Nat
      BY <1>1, ExchangeEffect
    <3>2. /\ pc[Walker] = "walking" /\ cur \in InChain
          /\ listed \subseteq InChain /\ seen = Cardinality(Passed)
          /\ \A n \in InChain : ticket[n] =< ticket[cur] =>
                n \in listed /\ (pc[n] = "set_next" => n \in half)
      BY <2>5 DEF WalkInv
    <3>3. Passed' = Passed
      BY <2>1, <2>3, <3>1, <3>2 DEF Passed
    <3> QED
      BY <2>1, <3>1, <3>2, <3>3
  <2> QED
    BY <2>1, <2>3, <2>4, <2>5 DEF WalkInv
<1>2. ASSUME NEW m \in Mutexes, SetNext(m) PROVE WalkInv'
  <2>1. InChain' = InChain
    BY <1>2 DEF SetNext, InChain
  <2> QED
    BY <1>2, <2>1, WalkKeptByCreation DEF SetNext
<1>3. ASSUME NEW m \in Mutexes, SetPrev(m) PROVE WalkInv'
  <2>1. InChain' = InChain
    BY <1>3 DEF SetPrev, InChain
  <2> QED
    BY <1>3, <2>1, WalkKeptByCreation DEF SetPrev
<1>4. ASSUME NEW m \in Mutexes, TestEnd(m) PROVE WalkInv'
  <2>1. InChain' = InChain
    BY <1>4 DEF TestEnd, InChain
  <2> QED
    BY <1>4, <2>1, WalkKeptByCreation DEF TestEnd
<1>5. ASSUME NEW m \in Mutexes, SetEnd(m) PROVE WalkInv'
  <2>1. InChain' = InChain
    BY <1>5 DEF SetEnd, InChain
  <2> QED
    BY <1>5, <2>1, WalkKeptByCreation DEF SetEnd
<1>6. ASSUME NEW m \in Mutexes, Add(m) PROVE WalkInv'
  <2>1. InChain' = InChain
    BY <1>6 DEF Add, InChain
  <2> QED
    BY <1>6, <2>1, WalkKeptByCreation DEF Add
<1>7. ASSUME NEW m \in Mutexes, FreeBegin(m) PROVE WalkInv'
  <2>1. pc[Walker] # "walking"
    BY <1>7 DEF FreeBegin, EnterFree, LatchInv, Freeing
  <2> QED
    BY <1>7, <2>1, WalkKeptByRemoval DEF FreeBegin
<1>8. ASSUME NEW m \in Mutexes, UnlinkNext(m) PROVE WalkInv'
  <2>1. pc[Walker] # "walking"
    BY <1>8 DEF UnlinkNext, LatchInv, Freeing
  <2> QED
    BY <1>8, <2>1, WalkKeptByRemoval DEF UnlinkNext
<1>9. ASSUME NEW m \in Mutexes, UnlinkPrev(m) PROVE WalkInv'
  <2>1. pc[Walker] # "walking"
    BY <1>9 DEF UnlinkPrev, LatchInv, Freeing
  <2> QED
    BY <1>9, <2>1, WalkKeptByRemoval DEF UnlinkPrev
<1>10. ASSUME NEW m \in Mutexes, SetStart(m) PROVE WalkInv'
  <2>1. pc[Walker] # "walking"
    BY <1>10 DEF SetStart, LatchInv, Freeing
  <2> QED
    BY <1>10, <2>1, WalkKeptByRemoval DEF SetStart
<1>11. ASSUME NEW m \in Mutexes, LoadCount(m) PROVE WalkInv'
  <2>1. pc[Walker] # "walking"
    BY <1>11 DEF LoadCount, LatchInv, Freeing
  <2> QED
    BY <1>11, <2>1, WalkKeptByRemoval DEF LoadCount
<1>12. ASSUME NEW m \in Mutexes, StoreCount(m) PROVE WalkInv'
  <2>1. pc[Walker] # "walking"
    BY <1>12 DEF StoreCount, LatchInv, Freeing
  <2> QED
    BY <1>12, <2>1, WalkKeptByRemoval DEF StoreCount
<1>13. ASSUME WalkBegin PROVE WalkInv'
  <2>1. /\ pc[Walker] = "new" /\ pc'[Walker] = "walking" /\ ticket' = ticket /\ cur' = start
        /\ seen' = 0 /\ half' = {m \in Mutexes : pc[m] = "set_next"}
        /\ \A m \in Mutexes : pc'[m] = pc[m]
    BY <1>13 DEF WalkBegin, WalkInv
  <2>2. listed' = InChain /\ InChain' = InChain /\ half' \subseteq InChain
    BY <1>13, <2>1 DEF WalkBegin, LatchInv, TicketInv, InChain, Creating, Freeing
  <2>3. IsYoungest(InChain, start) /\ \A m \in InChain : m \in Mutexes /\ ticket[m] \in Nat /\ ticket[m] > 0
    BY TicketOf DEF ChainInv
  <2>4. \A m \in listed' \cup half' : ticket'[m] > 0
    BY <2>1, <2>2, <2>3
  <2>5. CASE start = NULL
    <3>1. listed' = {} /\ InSight' = {}
      BY <2>2, <2>3, <2>5 DEF IsYoungest, InSight, InChain
    <3> QED
      BY <2>1, <2>4, <2>5, <3>1, FS_EmptySet DEF WalkInv
  <2>6. CASE start \in Mutexes
    <3>1. start \in InChain /\ \A m \in InChain : ticket[m] =< ticket[start]
      BY <2>3, <2>6 DEF IsYoungest
    <3>2. Passed' = {}
      BY <2>1, <2>2, <2>3, <3>1 DEF Passed
    <3>3. \A m \in InChain : pc'[m] = "set_next" => m \in half'
      BY <2>1, <2>3
    <3> QED
      BY <2>1, <2>2, <2>4, <2>6, <3>1, <3>2, <3>3, FS_EmptySet DEF WalkInv
  <2> QED
    BY <2>5, <2>6
<1>14. ASSUME WalkNext PROVE WalkInv'
  <2> DEFINE Q == Passed \cup {cur}
  <2>1. /\ pc[Walker] = "walking" /\ cur \in Mutexes /\ cur \in InChain
        /\ seen' = seen + 1 /\ cur' = next[cur] /\ UNCHANGED <<pc, ticket, listed, half>>
        /\ InChain' = InChain
    BY <1>14 DEF WalkNext, WalkInv, InChain
  <2>2. /\ listed \subseteq InChain /\ seen = Cardinality(Passed)
        /\ \A m \in InChain : ticket[m] =< ticket[cur] =>
              m \in listed /\ (pc[m] = "set_next" => m \in half)
    BY <2>1 DEF WalkInv
  <2>3. \A m \in InChain : m \in Mutexes /\ ticket[m] \in Nat /\ (m # cur => ticket[m] # ticket[cur])
    BY <2>1, TicketOf DEF TicketInv
  <2>4. Q \subseteq listed /\ cur \notin Passed
    BY <2>1, <2>2, <2>3 DEF Passed
  <2>5. IsFiniteSet(Q) /\ Cardinality(Q) = seen'
    BY <2>1, <2>2, <2>4, WalkSetsFinite, FS_AddElement
  <2>6. Cardinality(Q) =< Cardinality(listed)
    BY <2>4, WalkSetsFinite, FS_Subset
  <2>7. ASSUME InSight \subseteq Q
        PROVE  Cardinality(InSight) =< seen' /\ seen' =< Cardinality(listed)
    BY <2>5, <2>6, <2>7, FS_Subset
  <2>8. InSight' = InSight
    BY <2>1 DEF InSight
  <2>9. CASE pc[cur] = "set_next"
    <3>1. next[cur] = NULL /\ cur \in half
      BY <2>1, <2>2, <2>3, <2>9 DEF ChainInv
    <3>2. InSight \subseteq Q
      BY <2>1, <2>2, <2>3, <3>1 DEF InSight, Passed
    <3> QED
      BY <2>1, <2>7, <2>8, <3>1, <3>2 DEF WalkInv
  <2>10. CASE pc[cur] # "set_next"
    <3>1. IsBefore(InChain, cur, next[cur])
      BY <2>1, <2>10 DEF ChainInv
    <3>2. CASE next[cur] = NULL
      <4>1. InSight \subseteq Q
        BY <2>1, <2>2, <2>3, <3>1, <3>2 DEF InSight, Passed, IsBefore, InChain
      <4> QED
        BY <2>1, <2>7, <2>8, <3>2, <4>1 DEF WalkInv
    <3>3. CASE next[cur] # NULL
      <4>1. next[cur] \in InChain /\ ticket[next[cur]] < ticket[cur] /\ next[cur] \in Mutexes
            /\ \A k \in InChain : ticket[k] < ticket[cur] => ticket[k] =< ticket[next[cur]]
        BY <2>3, <3>1, <3>3 DEF IsBefore
      <4>2. Passed' = Q
        BY <2>1, <2>2, <2>3, <4>1 DEF Passed
      <4>3. \A m \in InChain : ticket[m] =< ticket[next[cur]] => ticket[m] =< ticket[cur]
        BY <2>1, <2>3, <4>1
      <4> QED
        BY <2>1, <2>2, <2>5, <3>3, <4>1, <4>2, <4>3 DEF WalkInv
    <3> QED
      BY <3>2, <3>3
  <2> QED
    BY <2>9, <2>10
<1>15. ASSUME WalkEnd PROVE WalkInv'
  <2>1. /\ cur = NULL /\ pc[Walker] = "walking" /\ pc'[Walker] = "walked"
        /\ UNCHANGED <<cur, seen, listed, half, ticket>>
    BY <1>15 DEF WalkEnd, walk
  <2>2. InSight' = InSight
    BY <2>1 DEF InSight
  <2> QED
    BY <2>1, <2>2 DEF WalkInv
<1> QED
  BY <1>1, <1>2, <1>3, <1>4, <1>5, <1>6, <1>7, <1>8,
     <1>9, <1>10, <1>11, <1>12, <1>13, <1>14, <1>15 DEF ListNext, Create, Free

----------------------------------------------------------------------------
(* All together.                                                           *)

LEMMA ListInvInit == ListInit => ListInv
  BY TypeInit, TicketInit, ChainInit, BackInit, EndInit, CountInit, WalkInit, MutexesAssumption
     DEF ListInv, ListInit, LatchInv, PhaseInv, Creating, Freeing

LEMMA ListInvStep ==
  ASSUME ListInv, ListNext, FreeWhenSettled
  PROVE  ListInv'
  BY TypeStep, LatchStep, PhaseStep, TicketStep, ChainStep, BackStep, EndStep, CountStep, WalkStep
     DEF ListInv

LEMMA ListInvStutter ==
  ASSUME ListInv, UNCHANGED listVars
  PROVE  ListInv'
<1> USE DEF ListInv, listVars, list, links, walk
<1>1. InChain' = InChain /\ InBack' = InBack /\ InCount' = InCount
  BY DEF InChain, InBack, InCount
<1>2. TypeInv' /\ LatchInv' /\ PhaseInv'
  BY DEF TypeInv, TypeOK, LatchInv, PhaseInv
<1>3. TicketInv'
  BY DEF TicketInv, Exchanged
<1>4. ChainInv' /\ BackInv'
  BY <1>1 DEF ChainInv, IsYoungest, IsBefore, BackInv, IsAfter
<1>5. EndInv' /\ CountInv' /\ WalkInv'
  BY <1>1 DEF EndInv, Initialized, CountInv, WalkInv, Passed, InSight
<1> QED
  BY <1>2, <1>3, <1>4, <1>5

\* The calls of MutexList if nothing is freed before all is created.
PhasedSpec == ListInit /\ [][ListNext /\ FreeWhenSettled]_listVars

LEMMA PhasedInductive == PhasedSpec => []ListInv
<1>1. ListInit => ListInv
  BY ListInvInit
<1>2. ListInv /\ [ListNext /\ FreeWhenSettled]_listVars => ListInv'
  BY ListInvStep, ListInvStutter
<1> QED
  BY <1>1, <1>2, PTL DEF PhasedSpec

----------------------------------------------------------------------------
(* What the invariant says of the list.                                    *)

\* When no call is under way the sets of mutexes are the same.
LEMMA QuietSets ==
  ASSUME TypeInv, Quiet
  PROVE  InChain = Live /\ InBack = Live /\ InCount = Live
  BY DEF Quiet, InChain, InBack, InCount, Live, Freeing

\* The nearest older mutex is the one the chain leads to.
LEMMA PredecessorOf ==
  ASSUME TypeInv, TicketInv, Quiet, NEW m \in Live, NEW n, IsBefore(Live, m, n)
  PROVE  n = Predecessor(m)
<1> DEFINE older == {k \in Live : ticket[k] < ticket[m]}
<1>1. \A k \in Live : k \in Mutexes /\ ticket[k] \in Nat /\ ticket[k] > 0
  BY DEF Live, TypeInv, TypeOK, TicketInv
<1>2. CASE older = {}
  <2>1. n = NULL
    BY <1>2 DEF IsBefore
  <2> QED
    BY <1>2, <2>1 DEF Predecessor
<1>3. CASE older # {}
  <2>1. n \in older /\ \A k \in older : ticket[k] =< ticket[n]
    BY <1>1, <1>3 DEF IsBefore
  <2> DEFINE p == CHOOSE k \in older : \A l \in older : ticket[l] =< ticket[k]
  <2>2. p \in older /\ \A l \in older : ticket[l] =< ticket[p]
    BY <2>1
  <2>3. Predecessor(m) = p
    BY <1>3 DEF Predecessor
  <2> HIDE DEF p
  <2>4. ticket[n] = ticket[p]
    BY <1>1, <2>1, <2>2
  <2> QED
    BY <1>1, <2>1, <2>2, <2>3, <2>4 DEF TicketInv
<1> QED
  BY <1>2, <1>3

LEMMA ChainedFollows == ListInv => AllChained
<1> SUFFICES ASSUME ListInv, Quiet
             PROVE  /\ start = NULL <=> Live = {}
                    /\ \A m \in Live :
                         /\ (\A n \in Live : ticket[n] =< ticket[m]) => start = m /\ prev[m] = NULL
                         /\ next[m] = Predecessor(m)
                         /\ Predecessor(m) # NULL => prev[Predecessor(m)] = m
  BY DEF AllChained
<1> USE DEF ListInv
<1>1. InChain = Live /\ InBack = Live
  BY QuietSets
<1>2. \A k \in Live : k \in Mutexes /\ ticket[k] \in Nat /\ ticket[k] > 0 /\ pc[k] = "created"
  BY DEF Live, TypeInv, TypeOK, TicketInv
<1>3. IsYoungest(Live, start) /\ \A m \in Live : IsBefore(Live, m, next[m])
  BY <1>1, <1>2 DEF ChainInv
<1>4. start = NULL <=> Live = {}
  BY <1>2, <1>3, MutexesAssumption DEF IsYoungest
<1>5. ASSUME NEW m \in Live, \A n \in Live : ticket[n] =< ticket[m] PROVE start = m /\ prev[m] = NULL
  <2>1. start \in Live /\ ticket[start] = ticket[m]
    BY <1>2, <1>3, <1>5 DEF IsYoungest
  <2>2. start = m
    BY <1>2, <2>1 DEF TicketInv
  <2>3. ~IsAfter(Live, m, prev[m])
    BY <1>2, <1>5 DEF IsAfter
  <2> QED
    BY <1>1, <2>2, <2>3 DEF BackInv
<1>6. ASSUME NEW m \in Live PROVE next[m] = Predecessor(m)
  BY <1>3, PredecessorOf
<1>7. ASSUME NEW m \in Live, NEW p \in Live, IsBefore(Live, m, p) PROVE prev[p] = m
  <2>1. ticket[p] < ticket[m] /\ \A k \in Live : ticket[k] < ticket[m] => ticket[k] =< ticket[p]
    BY <1>2, <1>7, MutexesAssumption DEF IsBefore
  <2>2. CASE prev[p] = NULL
    <3>1. start = p
      BY <1>1, <1>2, <2>2 DEF BackInv, Quiet
    <3> QED
      BY <1>2, <1>3, <2>1, <3>1 DEF IsYoungest
  <2>3. CASE IsAfter(Live, p, prev[p])
    <3>1. prev[p] \in Live /\ ticket[p] < ticket[prev[p]] /\ ticket[prev[p]] =< ticket[m]
      BY <2>1, <2>3 DEF IsAfter
    <3>2. ticket[prev[p]] = ticket[m]
      BY <1>2, <2>1, <3>1
    <3> QED
      BY <1>2, <3>1, <3>2 DEF TicketInv
  <2> QED
    BY <1>1, <2>2, <2>3 DEF BackInv
<1>8. ASSUME NEW m \in Live, Predecessor(m) # NULL PROVE prev[Predecessor(m)] = m
  <2>1. IsBefore(Live, m, Predecessor(m))
    BY <1>3, <1>6
  <2>2. Predecessor(m) \in Live
    BY <1>8, <2>1 DEF IsBefore
  <2> QED
    BY <1>7, <2>1, <2>2
<1> QED
  BY <1>4, <1>5, <1>6, <1>8

LEMMA CountFollows == ListInv => CountExact
  BY QuietSets DEF ListInv, CountInv, CountExact

LEMMA EndFollows == ListInv => EndIsOldest
<1> SUFFICES ASSUME ListInv, Quiet
             PROVE  (Live = {} /\ end = NULL) \/ (end \in Live /\ Predecessor(end) = NULL)
  BY DEF EndIsOldest
<1>1. /\ end = IF pc[First] = "created" THEN First ELSE NULL
      /\ \A m \in Mutexes \ {First} : pc[m] # "new" => pc[First] = "created" /\ ticket[First] < ticket[m]
      /\ First \in Mutexes /\ \A m \in Mutexes : ticket[m] \in Nat
  BY MutexesAssumption DEF ListInv, EndInv, Initialized, TypeInv, TypeOK, Quiet
<1>2. CASE pc[First] = "created"
  <2>1. First \in Live /\ {m \in Live : ticket[m] < ticket[First]} = {}
    BY <1>1, <1>2 DEF Live
  <2> QED
    BY <1>1, <1>2, <2>1 DEF Predecessor
<1>3. CASE pc[First] # "created"
  BY <1>1, <1>3 DEF Live
<1> QED
  BY <1>2, <1>3

LEMMA WalkFollows == ListInv => WalkCounts
  BY MutexesAssumption DEF ListInv, WalkInv, WalkCounts

----------------------------------------------------------------------------
(* The parallel start.                                                     *)

\* Types of the start's own variables.
PoolTypeInv ==
    /\ array \in {"none", "live", "freed"}
    /\ inst \in [Instance -> {"zero", "ready", "freed"}]
    /\ thread \in [Instance -> {"none", "fill", "failed", "done"}]
    /\ main \in {"init", "create", "join", "up", "free", "down"}
    /\ i \in 0 .. N /\ size \in Nat

\* The mutexes of instance t.
Of(t) == {<<t, k>> : k \in 1 .. PerInst[t]}

\* What each place of main says of the threads, and a thread of its mutexes:
\* a thread is done when all its mutexes are created, an instance is freed
\* when all its mutexes are.
PoolInv ==
    /\ IF main = "init" THEN i = 0 ELSE Initialized
    /\ main \in {"init", "create"} => \A t \in Instance : i =< t => thread[t] = "none"
    /\ main \in {"up", "free", "down"} => \A t \in Instance : thread[t] = "done"
    /\ main \notin {"free", "down"} =>
          /\ \A t \in Instance : thread[t] = "done" => inst[t] = "ready"
          /\ \A m \in Mutexes : pc[m] \notin Freeing \cup {"freed"}
    /\ \A t \in Instance : thread[t] = "done" =>
          \A m \in Of(t) : pc[m] \in {"created", "freed"} \cup Freeing
    /\ main = "up" => size = N
    /\ main \in {"free", "down"} => \A t \in Instance : t < i =>
          inst[t] = "freed" /\ \A m \in Of(t) : pc[m] = "freed"
    /\ main = "down" => i = N

----------------------------------------------------------------------------
(* Mutexes and their instances.                                            *)

LEMMA MutexOf ==
  /\ First \in Mutexes
  /\ \A t \in Instance : Of(t) \subseteq Mutexes \ {First}
  /\ \A m \in Mutexes \ {First} : \E t \in Instance : m \in Of(t)
  BY PoolAssumption, MutexesAssumption DEF Instance, Of

\* What a step of mutex_create_func does to the place of the call.
LEMMA CreateEffect ==
  ASSUME ListInv, NEW m \in Mutexes, Create(m)
  PROVE  \E q \in Creating \cup {"created"} :
            pc' = [pc EXCEPT ![m] = q] /\ pc[m] \in Creating \cup {"new"}
  BY DEF ListInv, TypeInv, Create, Exchange, SetNext, SetPrev, TestEnd, SetEnd, Add,
         Goto, Creating

\* What a step of mutex_free_func does to it: ut_a(list.count > 0) holds.
LEMMA FreeEffect ==
  ASSUME ListInv, NEW m \in Mutexes, Free(m)
  PROVE  \E q \in Freeing \cup {"freed"} :
            pc' = [pc EXCEPT ![m] = q] /\ pc[m] \in Freeing \cup {"created"}
<1>1. CASE FreeBegin(m)
  <2>1. count > 0
    BY <1>1, CountPositive DEF FreeBegin, InCount, ListInv
  <2> QED
    BY <1>1, <2>1 DEF FreeBegin, Goto, Freeing
<1>2. CASE UnlinkPrev(m)
  BY <1>2 DEF UnlinkPrev, Goto, Freeing
<1>3. CASE UnlinkNext(m) \/ SetStart(m) \/ LoadCount(m) \/ StoreCount(m)
  BY <1>3 DEF UnlinkNext, SetStart, LoadCount, StoreCount, Goto, Freeing
<1> QED
  BY <1>1, <1>2, <1>3 DEF Free

\* What a step of the walk does to the mutexes.
LEMMA WalkEffect ==
  ASSUME ListInv, WalkBegin \/ WalkNext \/ WalkEnd
  PROVE  \A m \in Mutexes : pc'[m] = pc[m]
  BY MutexesAssumption DEF ListInv, TypeInv, WalkBegin, WalkNext, WalkEnd, Goto

----------------------------------------------------------------------------
(* The invariant of the pool.                                              *)

\* The inductive invariant: the list and the pool.
IInv == ListInv /\ PoolTypeInv /\ PoolInv

LEMMA PoolInit == Init => PoolTypeInv /\ PoolInv
<1> SUFFICES ASSUME Init PROVE PoolTypeInv /\ PoolInv
  OBVIOUS
<1>1. PoolTypeInv
  BY PoolAssumption DEF Init, PoolTypeInv, Instance
<1>2. \A m \in Mutexes : pc[m] = "new"
  BY DEF Init, ListInit
<1> QED
  BY <1>1, <1>2 DEF Init, PoolInv, Freeing

\* main's own steps, and those of RunThread that leave the list alone.
LEMMA PoolStepOutsideList ==
  ASSUME PoolTypeInv, PoolInv, UNCHANGED pc,
         \/ AllocateArray \/ CreateThread \/ CreatedThreads \/ SetSizes
         \/ \E t \in Instance : ChunkFails(t) \/ FreeAgain(t) \/ FillFreed(t) \/ FinishInstance(t)
         \/ Shutdown \/ FreedInstance \/ FreeArray
  PROVE  PoolTypeInv' /\ PoolInv'
<1> USE PoolAssumption DEF PoolTypeInv, PoolInv, Instance, Initialized
<1>1. CASE AllocateArray
  BY <1>1 DEF AllocateArray
<1>2. CASE CreateThread
  BY <1>2 DEF CreateThread
<1>3. CASE CreatedThreads
  BY <1>3 DEF CreatedThreads
<1>4. CASE SetSizes
  <2>1. \A t \in Instance : thread[t] = "done"
    BY <1>4 DEF SetSizes, Joined
  <2>2. {t \in Instance : inst[t] = "ready"} = 0 .. N - 1
    BY <1>4, <2>1 DEF SetSizes
  <2>3. Cardinality(0 .. N - 1) = N
    BY FS_Interval
  <2>4. size' = N
    BY <1>4, <2>2, <2>3 DEF SetSizes
  <2> QED
    BY <1>4, <2>1, <2>4 DEF SetSizes
<1>5. ASSUME NEW t \in Instance, ChunkFails(t) PROVE PoolTypeInv' /\ PoolInv'
  BY <1>5 DEF ChunkFails
<1>6. ASSUME NEW t \in Instance, FreeAgain(t) \/ FillFreed(t) PROVE PoolTypeInv' /\ PoolInv'
  BY <1>6, SMTT(40) DEF FreeAgain, FillFreed
<1>7. ASSUME NEW t \in Instance, FinishInstance(t) PROVE PoolTypeInv' /\ PoolInv'
  <2>1. \A m \in Of(t) : pc[m] = "created"
    BY <1>7 DEF FinishInstance, Of
  <2> QED
    BY <1>7, <2>1 DEF FinishInstance
<1>8. CASE Shutdown
  BY <1>8 DEF Shutdown
<1>9. CASE FreedInstance
  <2>1. i \in Instance /\ \A m \in Of(i) : pc[m] = "freed"
    BY <1>9 DEF FreedInstance, InstancesToFree, Of
  <2> QED
    BY <1>9, <2>1 DEF FreedInstance, InstancesToFree
<1>10. CASE FreeArray
  BY <1>10 DEF FreeArray, InstancesToFree
<1> QED
  BY <1>1, <1>2, <1>3, <1>4, <1>5, <1>6, <1>7, <1>8, <1>9, <1>10

\* sync_init creates the first mutex before there are threads.
LEMMA PoolStepSyncInit ==
  ASSUME IInv, SyncInit
  PROVE  PoolTypeInv' /\ PoolInv' /\ ListNext
<1>1. PICK q \in Creating \cup {"created"} : pc' = [pc EXCEPT ![First] = q]
  BY CreateEffect, MutexOf DEF IInv, SyncInit
<1>2. \A n \in Mutexes : /\ n # First => pc'[n] = pc[n]
                         /\ pc'[n] \in Freeing \cup {"freed"} => pc'[n] = pc[n]
  BY <1>1, MutexOf DEF IInv, ListInv, TypeInv, Creating, Freeing
<1>3. \A u \in Instance : \A n \in Of(u) : n \in Mutexes /\ n # First
  BY MutexOf
<1>4. UNCHANGED poolVars /\ main = "init" /\ ListNext
  BY DEF SyncInit, ListNext
<1> QED
  BY <1>2, <1>3, <1>4 DEF IInv, PoolTypeInv, PoolInv, poolVars

\* A mutex is created by the thread of its instance, before it is done.
LEMMA PoolStepCreate ==
  ASSUME IInv, NEW t \in Instance, CreateMutex(t)
  PROVE  PoolTypeInv' /\ PoolInv' /\ ListNext
<1>1. PICK k \in 1 .. PerInst[t] : Create(<<t, k>>)
  BY DEF CreateMutex
<1>2. <<t, k>> \in Mutexes \ {First}
  BY MutexOf DEF Of
<1>3. PICK m \in Mutexes \ {First}, q \in Creating \cup {"created"} :
         Create(m) /\ pc' = [pc EXCEPT ![m] = q] /\ pc[m] \in Creating \cup {"new"}
  BY <1>1, <1>2, CreateEffect DEF IInv
<1>4. \A n \in Mutexes : /\ pc[n] \in {"created", "freed"} \cup Freeing => pc'[n] = pc[n]
                         /\ pc'[n] \in Freeing \cup {"freed"} => pc'[n] = pc[n]
  BY <1>3 DEF IInv, ListInv, TypeInv, Creating, Freeing
<1>5. \A u \in Instance : \A n \in Of(u) : n \in Mutexes
  BY MutexOf
<1>6. UNCHANGED poolVars /\ Initialized
  BY PoolAssumption DEF CreateMutex, IInv, PoolInv, Instance
<1>7. PoolTypeInv' /\ PoolInv'
  BY <1>4, <1>5, <1>6, MutexOf DEF IInv, PoolTypeInv, PoolInv, poolVars, Initialized
<1> QED
  BY <1>3, <1>6, <1>7 DEF ListNext

\* main frees the mutexes when all threads are done.
LEMMA PoolStepFree ==
  ASSUME IInv, FreeMutex
  PROVE  /\ PoolTypeInv' /\ PoolInv' /\ ListNext
         /\ \A m \in Mutexes : pc[m] \in {"created", "freed"} \cup Freeing
<1>1. i \in Instance /\ main = "free" /\ UNCHANGED poolVars /\ Initialized
  BY PoolAssumption DEF FreeMutex, IInv, PoolTypeInv, PoolInv, Instance
<1>2. PICK k \in 1 .. PerInst[i] : Free(<<i, k>>)
  BY DEF FreeMutex
<1>3. <<i, k>> \in Mutexes \ {First}
  BY <1>1, MutexOf DEF Of
<1>4. PICK m \in Mutexes \ {First}, q \in Freeing \cup {"freed"} :
         Free(m) /\ pc' = [pc EXCEPT ![m] = q] /\ pc[m] \in Freeing \cup {"created"}
  BY <1>2, <1>3, FreeEffect DEF IInv
<1>5. \A n \in Mutexes : /\ pc[n] = "freed" => pc'[n] = "freed"
                         /\ pc[n] \in {"created", "freed"} \cup Freeing =>
                               pc'[n] \in {"created", "freed"} \cup Freeing
  BY <1>4 DEF IInv, ListInv, TypeInv, Freeing
<1>6. \A u \in Instance : \A n \in Of(u) : n \in Mutexes
  BY MutexOf
<1>7. pc'[First] = pc[First]
  BY <1>4, MutexOf DEF IInv, ListInv, TypeInv
<1>8. PoolTypeInv' /\ PoolInv'
  BY <1>1, <1>5, <1>6, <1>7 DEF IInv, PoolTypeInv, PoolInv, poolVars, Initialized
<1>9. \A n \in Mutexes : pc[n] \in {"created", "freed"} \cup Freeing
  BY <1>1, MutexOf DEF IInv, PoolInv, Initialized
<1> QED
  BY <1>1, <1>4, <1>8, <1>9 DEF ListNext

LEMMA PoolStepWalk ==
  ASSUME IInv, Initialized, WalkBegin \/ WalkNext \/ WalkEnd, UNCHANGED poolVars
  PROVE  PoolTypeInv' /\ PoolInv' /\ ListNext
<1>1. \A m \in Mutexes : pc'[m] = pc[m]
  BY WalkEffect DEF IInv
<1>2. \A u \in Instance : \A n \in Of(u) : n \in Mutexes
  BY MutexOf
<1> QED
  BY <1>1, <1>2, MutexOf DEF IInv, PoolTypeInv, PoolInv, poolVars, ListNext, Initialized

\* Who frees a mutex changes the place of a call that was done.
LEMMA FreeBeginChanges ==
  ASSUME ListInv, NEW m \in Mutexes, FreeBegin(m)
  PROVE  pc[m] = "created" /\ pc'[m] # "created" /\ \A n \in Mutexes : pc[n] \notin Freeing
<1>1. pc[m] = "created" /\ pc'[m] # "created" /\ latch = NULL
  BY DEF FreeBegin, EnterFree, Goto, ListInv, TypeInv
<1> QED
  BY <1>1, MutexesAssumption DEF ListInv, LatchInv

\* A step of the program keeps the invariant of the pool, and is one of the list
\* that frees nothing before all is created.
LEMMA PoolStep ==
  ASSUME IInv, Next
  PROVE  /\ PoolTypeInv' /\ PoolInv'
         /\ (ListNext /\ FreeWhenSettled) \/ UNCHANGED listVars
<1>1. CASE \/ AllocateArray \/ CreateThread \/ CreatedThreads \/ SetSizes
           \/ \E t \in Instance : ChunkFails(t) \/ FreeAgain(t) \/ FillFreed(t) \/ FinishInstance(t)
           \/ Shutdown \/ FreedInstance \/ FreeArray
  <2>1. UNCHANGED listVars
    BY <1>1 DEF AllocateArray, CreateThread, CreatedThreads, SetSizes, ChunkFails, FreeAgain,
                FillFreed, FinishInstance, Shutdown, FreedInstance, FreeArray
  <2>2. UNCHANGED pc
    BY <2>1 DEF listVars
  <2> QED
    BY <1>1, <2>1, <2>2, PoolStepOutsideList DEF IInv
<1>2. ASSUME NEW t \in Instance, CreateMutex(t)
      PROVE  PoolTypeInv' /\ PoolInv' /\ ListNext /\ FreeWhenSettled
  <2>1. PICK k \in 1 .. PerInst[t] : Create(<<t, k>>)
    BY <1>2 DEF CreateMutex
  <2>2. <<t, k>> \in Mutexes
    BY MutexOf DEF Of
  <2>3. \A n \in Mutexes : pc[n] = "created" => pc'[n] = "created"
    BY <2>1, <2>2, CreateEffect DEF IInv, ListInv, TypeInv, Creating
  <2>4. FreeWhenSettled
    BY <2>3, FreeBeginChanges DEF FreeWhenSettled, IInv
  <2> QED
    BY <1>2, <2>4, PoolStepCreate
<1>3. ASSUME FreeMutex PROVE PoolTypeInv' /\ PoolInv' /\ ListNext /\ FreeWhenSettled
  <2>1. \A m \in Mutexes : pc[m] \in {"created", "freed"} \cup Freeing
    BY <1>3, PoolStepFree
  <2>2. FreeWhenSettled
    BY <2>1, FreeBeginChanges DEF FreeWhenSettled, Settled, IInv
  <2> QED
    BY <1>3, <2>2, PoolStepFree
<1>4. ASSUME Initialized, WalkBegin \/ WalkNext \/ WalkEnd, UNCHANGED poolVars
      PROVE  PoolTypeInv' /\ PoolInv' /\ ListNext /\ FreeWhenSettled
  <2>1. FreeWhenSettled
    BY <1>4, WalkEffect, FreeBeginChanges DEF FreeWhenSettled, IInv
  <2> QED
    BY <1>4, <2>1, PoolStepWalk
<1>5. ASSUME SyncInit PROVE PoolTypeInv' /\ PoolInv' /\ ListNext /\ FreeWhenSettled
  <2>1. \A n \in Mutexes : pc[n] = "created" => pc'[n] = "created"
    BY <1>5, CreateEffect, MutexOf DEF SyncInit, IInv, ListInv, TypeInv, Creating
  <2>2. FreeWhenSettled
    BY <2>1, FreeBeginChanges DEF FreeWhenSettled, IInv
  <2> QED
    BY <1>5, <2>2, PoolStepSyncInit
<1> QED
  BY <1>1, <1>2, <1>3, <1>4, <1>5 DEF Next, RunThread

LEMMA Inductive == Spec => []IInv
<1>1. Init => IInv
  BY ListInvInit, PoolInit DEF Init, IInv
<1>2. IInv /\ [Next]_vars => IInv'
  <2> SUFFICES ASSUME IInv, [Next]_vars PROVE IInv'
    OBVIOUS
  <2>1. CASE Next
    BY <2>1, PoolStep, ListInvStep, ListInvStutter DEF IInv
  <2>2. CASE UNCHANGED vars
    <3>1. UNCHANGED <<listVars, poolVars, pc>>
      BY <2>2 DEF vars, listVars
    <3> QED
      BY <2>2, <3>1, ListInvStutter DEF IInv, PoolTypeInv, PoolInv, poolVars, Initialized
  <2> QED
    BY <2>1, <2>2
<1> QED
  BY <1>1, <1>2, PTL DEF Spec

----------------------------------------------------------------------------
(* The theorems.                                                           *)

\* buf_pool_init joins its threads before it returns, and only buf_pool_free
\* frees: so whatever the threads do at the same time, no mutex_free_func runs
\* before every mutex_create_func has ended.
THEOREM CallsArePhased == Spec => PhasedSpec
<1>1. Init => ListInit
  BY DEF Init
<1>2. IInv /\ [Next]_vars => [ListNext /\ FreeWhenSettled]_listVars
  BY PoolStep DEF vars
<1> QED
  BY <1>1, <1>2, Inductive, PTL DEF Spec, PhasedSpec

\* ut_list_free_prepend without the latch, called by every RunThread at once, and
\* ut_list_remove at shutdown keep the global list whole in both directions.
THEOREM ListStaysWhole == Spec => []AllChained
  BY Inductive, ChainedFollows, PTL DEF IInv

\* The atomic increments of ut_list_free_prepend and the plain decrement of
\* ut_list_remove leave list.count exact, so ut_a(list.count > 0) never fails.
THEOREM CountStaysExact == Spec => []CountExact
  BY Inductive, CountFollows, PTL DEF IInv

\* ut_list_free_prepend tests list.end and sets it in two steps without the latch,
\* but the end that sync_init set stays what it was, the oldest mutex.
THEOREM EndStaysOldest == Spec => []EndIsOldest
  BY Inductive, EndFollows, PTL DEF IInv

\* mutex_list_print_info counts what was in the list when it began, at least down
\* to the youngest mutex that was exchanged in and not linked yet, although threads
\* prepend to the list meanwhile.
THEOREM WalkStaysRight == Spec => []WalkCounts
  BY Inductive, WalkFollows, PTL DEF IInv

\* buf_pool_init returns only with every instance ready, all of the mutexes in
\* the list, and a size that counts every instance.
THEOREM StartsComplete == Spec => []StartComplete
<1>1. IInv => StartComplete
  BY MutexOf DEF IInv, PoolInv, StartComplete, Live, Initialized
<1> QED
  BY <1>1, Inductive, PTL

\* buf_pool_free leaves no instance, and in the list nothing but the mutex that
\* sync_init put there, with no link to another.
THEOREM ShutdownComplete == Spec => []NothingLeft
<1>1. IInv => NothingLeft
  <2> SUFFICES ASSUME IInv, main = "down"
               PROVE  /\ \A t \in Instance : inst[t] = "freed"
                      /\ start = First /\ end = First /\ count = 1
                      /\ prev[First] = NULL /\ next[First] = NULL
    BY DEF NothingLeft
  <2>1. \A t \in Instance : t < i
    BY PoolAssumption DEF IInv, PoolInv, Instance
  <2>2. pc[First] = "created" /\ \A m \in Mutexes \ {First} : pc[m] = "freed"
    BY <2>1, MutexOf DEF IInv, PoolInv, Initialized
  <2>3. Quiet /\ Live = {First}
    BY <2>2, MutexOf DEF Quiet, Live
  <2>4. AllChained /\ CountExact /\ EndIsOldest
    BY ChainedFollows, CountFollows, EndFollows DEF IInv
  <2>5. ticket[First] \in Nat
    BY MutexOf DEF IInv, ListInv, TypeInv, TypeOK
  <2>6. Predecessor(First) = NULL
    BY <2>3, <2>5 DEF Predecessor
  <2>7. start = First /\ prev[First] = NULL /\ next[First] = NULL
    BY <2>3, <2>4, <2>5, <2>6 DEF AllChained
  <2>8. count = 1 /\ end = First
    BY <2>3, <2>4, FS_Singleton DEF CountExact, EndIsOldest
  <2> QED
    BY <2>1, <2>7, <2>8 DEF IInv, PoolInv
<1> QED
  BY <1>1, Inductive, PTL
=============================================================================
