--------------------------- MODULE Project1Proofs ---------------------------
(***************************************************************************)
(* Proofs about the parallel search of Project1.cpp for every number of    *)
(* houses and threads: how far the counter is drawn, that what the threads *)
(* tell each other is true, and that the answer is right.  They rest on    *)
(* what the program presupposes of its input (OwnAssumption), from which   *)
(* follows that the walk over the graph, which no other thread disturbs,   *)
(* meets the houses as a breadth first search does (WalksRight).           *)
(***************************************************************************)
EXTENDS Project1, SequenceTheorems, FiniteSetTheorems, WellFoundedInduction, TLAPS

\* The operators with parameters are about constants: hs is the sequence of the
\* houses, D the distance of any two, M[s] what the walk from house s meets.

\* The numbers of the houses.
Index(hs) == 0 .. Len(hs) - 1

\* The houses behind house s in the order of the input.
Behind(hs, s) == s + 1 .. Len(hs) - 1

\* The walk m from house s meets every other house once, the near ones first and
\* each with its distance less one.  Its own house it may meet in the first step.
WalkRight(hs, D, m, s) ==
    /\ m \in Seq([house : Nat, distance : Nat]) /\ Len(m) > 0
    /\ \A k \in 1 .. Len(m) : \A j \in Index(hs) \ {s} :
          m[k].house = hs[j + 1] => m[k].distance + 1 = D[<<s, j>>]
    /\ \A k \in 1 .. Len(m) :
          m[k].distance > 1 => \E j \in Index(hs) \ {s} : m[k].house = hs[j + 1]
    /\ \A j \in Index(hs) \ {s} : \E k \in 1 .. Len(m) : m[k].house = hs[j + 1]
    /\ \A k, l \in 1 .. Len(m) : m[k].house = m[l].house => k = l
    /\ \A k, l \in 1 .. Len(m) : k =< l => m[k].distance =< m[l].distance

\* So does every walk, and distances are distances; there are three houses or
\* more, at least three edges apart, as the program presupposes.
AllRight(hs, D, M) ==
    /\ Len(hs) \in Nat /\ Len(hs) >= 3
    /\ \A i, j \in Index(hs) : hs[i + 1] = hs[j + 1] => i = j
    /\ D \in [Index(hs) \X Index(hs) -> Nat]
    /\ \A i, j \in Index(hs) : D[<<i, j>>] = D[<<j, i>>]
    /\ \A i, j \in Index(hs) : i # j => D[<<i, j>>] >= 3
    /\ \A i, j, k \in Index(hs) : D[<<i, k>>] =< D[<<i, j>>] + D[<<j, k>>]
    /\ \A s \in Index(hs) : WalkRight(hs, D, M[s], s)

\* What the walks of the input have met is right.
WalksRight == AllRight(input.house, apart, met)

----------------------------------------------------------------------------
(* The inductive invariant.                                                *)

\* Where a thread can be.
Place == {"loop", "draw", "search", "prune", "report", "raise", "i_max", "outside", "end"}

\* The places in a search, and those before its results are noted.
Searching == {"search", "prune", "report", "raise", "i_max"}
Unnoted == {"search", "prune", "report"}

\* Types of what drawing an index changes.
TypeInv ==
    /\ input \in Inputs
    /\ g_cnt_global \in Nat
    /\ pc \in [Thread -> Place]
    /\ start_num \in [Thread -> Nat]

\* Types of the rest.
ValueInv ==
    /\ g_total_max \in Nat
    /\ g_i_max \in [HouseIndex -> Nat]
    /\ g_house_distance_i_to_all \in [HouseIndex \X HouseIndex -> Nat]
    /\ house_distance_least \in [HouseIndex -> Nat]
    /\ house_distance_most \in [HouseIndex -> Nat]
    /\ my \in [Thread -> [found : Nat, count_end : Nat, least : Nat, most : Nat,
                          least_flag : BOOLEAN, q : Nat]]

\* A thread that is about to draw has seen the counter below its limit.
DrawInv ==
    /\ Thread # {} => g_cnt_global + Cardinality({t \in Thread : pc[t] = "draw"})
                         =< house_num - 2 + Cardinality(Thread)
    /\ DrawBound
    /\ \A t \in Thread : pc[t] \in Searching => start_num[t] \in HouseIndex
    /\ \A t \in Thread : pc[t] = "end" => g_cnt_global >= house_num - 1

\* The houses behind s among the first k that the walk m from s meets.
Seen(hs, m, s, k) == {j \in Behind(hs, s) : \E i \in 1 .. k : m[i].house = hs[j + 1]}

\* The f-th house that the walk m meets is the first far one.
FirstFar(m, f) ==
    /\ f \in 1 .. Len(m) /\ m[f].distance > 1
    /\ \A k \in 1 .. f - 1 : m[k].distance =< 1

\* What the locals l of a search from house s, which is at the given place, say
\* about the part of the walk m that is done.
Knows(hs, m, s, l, place) ==
    /\ l.found \in 0 .. Len(m)
    /\ l.count_end = 1 + s + Cardinality(Seen(hs, m, s, l.found))
    /\ l.least_flag =>
          /\ l.most = 0
          /\ \A k \in 1 .. l.found : m[k].distance =< 1
    /\ ~l.least_flag => \E f \in 1 .. l.found :
          /\ FirstFar(m, f) /\ l.least = m[f].distance
          /\ l.most = IF l.found = f THEN 0 ELSE m[l.found].distance
    /\ place = "search" => l.found = 0 \/ Seen(hs, m, s, l.found) # Behind(hs, s)
    /\ place = "prune" => ~l.least_flag
    /\ place \in {"report", "raise", "i_max"} => Seen(hs, m, s, l.found) = Behind(hs, s)

\* Every search knows what it has met.
SearchInv ==
    \A t \in Thread : pc[t] \in Searching =>
        Knows(input.house, met[start_num[t]], start_num[t], my[t], pc[t])

\* d is the distance from house s to the house next to it.
IsNearest(hs, D, s, d) ==
    /\ \E j \in Index(hs) \ {s} : d = D[<<s, j>>]
    /\ \A j \in Index(hs) \ {s} : d =< D[<<s, j>>]

\* The numbers least and most, noted for house s, are right if max is the
\* greatest distance of all: the distance to the nearest house, and the greatest
\* to a house behind it unless that is less than max, or the last house is the
\* nearest one of the last but one.
NotedRight(hs, D, max, s, least, most) ==
    /\ IsNearest(hs, D, s, least)
    /\ most =< max
    /\ \/ \A j \in Behind(hs, s) : D[<<s, j>>] =< most
       \/ \A j \in Behind(hs, s) : D[<<s, j>>] < max
       \/ s = Len(hs) - 2 /\ least = D[<<s, s + 1>>]

\* Every house that was drawn is searched or noted.
NotedInv ==
    \A s \in 0 .. house_num - 2 :
        /\ house_distance_least[s] # 0 =>
              NotedRight(input.house, apart, MostDistance, s, house_distance_least[s],
                         house_distance_most[s])
        /\ s < g_cnt_global =>
              \/ house_distance_least[s] # 0
              \/ \E t \in Thread : pc[t] \in Unnoted /\ start_num[t] = s

\* The distances that are passed on lead from a house to one behind it.
HintInv ==
    /\ HintsAreTrue
    /\ \A p \in HouseIndex \X HouseIndex :
           g_house_distance_i_to_all[p] # 0 => p[1] < p[2]

\* The inductive invariant: the first part holds by itself, the rest if the
\* walks are right.
DrawIInv == TypeInv /\ DrawInv
OwnIInv ==
    DrawIInv /\ WalksRight /\ ValueInv /\ SearchInv /\ HintInv /\ NotedInv /\ AnswerRight

----------------------------------------------------------------------------
(* Houses and threads.                                                     *)

LEMMA HouseNumber ==
  ASSUME input \in Inputs
  PROVE  house_num \in Nat
  BY InputAssumption DEF house_num

LEMMA ThreadsFinite ==
  ASSUME input \in Inputs
  PROVE  /\ IsFiniteSet(Thread) /\ Cardinality(Thread) \in Nat
         /\ Thread # {} => house_num >= 2 /\ Cardinality(Thread) >= 1
<1> DEFINE m == Min({NUM_THREAD, house_num - 1})
<1>1. house_num \in Nat
  BY HouseNumber
<1>2. m \in {NUM_THREAD, house_num - 1} /\ m =< house_num - 1
  <2>1. \E x \in {NUM_THREAD, house_num - 1} : \A y \in {NUM_THREAD, house_num - 1} : x =< y
    BY <1>1, ThreadAssumption
  <2> QED
    BY <2>1 DEF Min
<1>3. m \in Int /\ Thread = 1 .. m
  BY <1>1, <1>2, ThreadAssumption DEF Thread
<1> HIDE DEF m
<1>4. IsFiniteSet(Thread) /\ Cardinality(Thread) = IF 1 > m THEN 0 ELSE m - 1 + 1
  BY <1>3, FS_Interval
<1> QED
  BY <1>1, <1>2, <1>3, <1>4

\* What the input and the walks determine does not change.
LEMMA Frame ==
  ASSUME UNCHANGED given
  PROVE  /\ input' = input /\ apart' = apart /\ met' = met
         /\ Own' = Own /\ house_num' = house_num /\ HouseIndex' = HouseIndex /\ Thread' = Thread
         /\ WalksRight' = WalksRight /\ MostDistance' = MostDistance
         /\ LeastDistance' = LeastDistance
  BY DEF given, Own, house_num, HouseIndex, Thread, WalksRight, MostDistance,
         LeastDistance, Distances, house

----------------------------------------------------------------------------
(* The counter.                                                            *)

LEMMA DrawInit ==
  ASSUME Init
  PROVE  DrawIInv
<1>1. input \in Inputs /\ house_num \in Nat
  BY HouseNumber DEF Init, InputInit
<1>2. TypeInv
  BY <1>1 DEF Init, TypeInv, Place
<1>3. DrawInv
  <2>1. {t \in Thread : pc[t] = "draw"} = {}
    BY DEF Init
  <2>2. Cardinality({t \in Thread : pc[t] = "draw"}) = 0
    BY <2>1, FS_EmptySet
  <2>3. Thread # {} => house_num >= 2 /\ Cardinality(Thread) >= 1
    BY <1>1, ThreadsFinite
  <2>4. Cardinality(Thread) \in Nat
    BY <1>1, ThreadsFinite
  <2>5. g_cnt_global = 0 /\ \A t \in Thread : start_num[t] = 0 /\ pc[t] = "loop"
    BY DEF Init
  <2>6. DrawBound
    BY <1>1, <2>3, <2>4, <2>5 DEF DrawBound
  <2> QED
    BY <1>1, <2>2, <2>3, <2>4, <2>5, <2>6 DEF DrawInv, Searching
<1> QED
  BY <1>2, <1>3 DEF DrawIInv

\* A step that draws no index and lets no thread begin to.
LEMMA NoDraw ==
  ASSUME DrawIInv, UNCHANGED given, UNCHANGED <<g_cnt_global, start_num>>, pc' \in [Thread -> Place],
         \A t \in Thread : pc'[t] = "draw" => pc[t] = "draw",
         \A t \in Thread : pc'[t] \in Searching => pc[t] \in Searching,
         \A t \in Thread : pc'[t] = "end" => pc[t] = "end" \/ g_cnt_global >= house_num - 1
  PROVE  DrawInv'
<1> DEFINE D == {t \in Thread : pc[t] = "draw"}
           E == {t \in Thread : pc'[t] = "draw"}
<1>1. input \in Inputs /\ IsFiniteSet(Thread) /\ Cardinality(Thread) \in Nat /\ house_num \in Nat
      /\ g_cnt_global \in Nat
  BY ThreadsFinite, HouseNumber DEF DrawIInv, TypeInv
<1>2. E \subseteq D /\ D \subseteq Thread
  OBVIOUS
<1>3. IsFiniteSet(D) /\ Cardinality(D) \in Nat /\ Cardinality(E) =< Cardinality(D)
      /\ Cardinality(E) \in Nat
  <2> HIDE DEF D, E
  <2>1. IsFiniteSet(D)
    BY <1>1, <1>2, FS_Subset
  <2>2. IsFiniteSet(E) /\ Cardinality(E) =< Cardinality(D)
    BY <1>2, <2>1, FS_Subset
  <2> QED
    BY <2>1, <2>2, FS_CardinalityType
<1>4. input' = input /\ house_num' = house_num /\ HouseIndex' = HouseIndex /\ Thread' = Thread
  BY Frame
<1>5. E = {t \in Thread : pc[t] = "draw"}'
  BY <1>4
<1>6. Thread # {} => g_cnt_global + Cardinality(D) =< house_num - 2 + Cardinality(Thread)
  BY DEF DrawIInv, DrawInv
<1>7. Thread # {} => g_cnt_global + Cardinality(E) =< house_num - 2 + Cardinality(Thread)
  <2> HIDE DEF D, E
  <2> QED
    BY <1>1, <1>3, <1>6
<1>8. DrawBound'
  BY <1>4 DEF DrawIInv, DrawInv, DrawBound
<1>9. \A t \in Thread : pc'[t] \in Searching => start_num'[t] \in HouseIndex
  BY DEF DrawIInv, DrawInv
<1>10. \A t \in Thread : pc'[t] = "end" => g_cnt_global' >= house_num - 1
  BY DEF DrawIInv, DrawInv
<1> QED
  BY <1>4, <1>5, <1>7, <1>8, <1>9, <1>10 DEF DrawInv, Searching

LEMMA TestDraws ==
  ASSUME DrawIInv, NEW t \in Thread, Test(t)
  PROVE  DrawInv'
<1>1. /\ UNCHANGED given /\ UNCHANGED <<g_cnt_global, start_num>>
      /\ pc' = [pc EXCEPT ![t] = DrawOrEnd] /\ pc[t] = "loop" /\ pc \in [Thread -> Place]
  BY DEF Test, Goto, shared, DrawIInv, TypeInv
<1>2. CASE ~MoreHouses
  <2>1. g_cnt_global \in Nat /\ house_num \in Nat
    BY HouseNumber DEF DrawIInv, TypeInv
  <2>2. pc' = [pc EXCEPT ![t] = "end"] /\ g_cnt_global >= house_num - 1
    BY <1>1, <1>2, <2>1 DEF DrawOrEnd, MoreHouses
  <2> QED
    BY <1>1, <2>2, NoDraw DEF Place, Searching
<1>3. CASE MoreHouses
  <2> DEFINE E == {u \in Thread : pc'[u] = "draw"}
  <2>1. input \in Inputs /\ IsFiniteSet(Thread) /\ Cardinality(Thread) \in Nat
        /\ house_num \in Nat /\ g_cnt_global \in Nat /\ g_cnt_global < house_num - 1
    BY <1>3, ThreadsFinite, HouseNumber DEF DrawIInv, TypeInv, MoreHouses
  <2>2. pc' = [pc EXCEPT ![t] = "draw"]
    BY <1>1, <1>3 DEF DrawOrEnd
  <2>3. Cardinality(E) \in Nat /\ Cardinality(E) =< Cardinality(Thread)
    <3>1. E \subseteq Thread
      OBVIOUS
    <3> HIDE DEF E
    <3> QED
      BY <2>1, <3>1, FS_Subset, FS_CardinalityType
  <2>4. input' = input /\ house_num' = house_num /\ HouseIndex' = HouseIndex /\ Thread' = Thread
    BY <1>1, Frame
  <2>5. E = {u \in Thread : pc[u] = "draw"}'
    BY <2>4
  <2>6. g_cnt_global' + Cardinality(E) =< house_num - 2 + Cardinality(Thread)
    <3> HIDE DEF E
    <3> QED
      BY <1>1, <2>1, <2>3
  <2>7. DrawBound'
    BY <1>1, <2>4 DEF DrawIInv, DrawInv, DrawBound
  <2>8. \A u \in Thread : pc'[u] \in Searching \cup {"end"} => pc'[u] = pc[u]
    BY <1>1, <2>2 DEF Searching
  <2>9. \A u \in Thread : /\ pc'[u] \in Searching => start_num'[u] \in HouseIndex
                          /\ pc'[u] = "end" => g_cnt_global' >= house_num - 1
    BY <1>1, <2>8 DEF DrawIInv, DrawInv
  <2> QED
    BY <2>4, <2>5, <2>6, <2>7, <2>9 DEF DrawInv, Searching
<1> QED
  BY <1>2, <1>3

LEMMA DrawDraws ==
  ASSUME DrawIInv, NEW t \in Thread, Draw(t)
  PROVE  DrawInv'
<1> DEFINE D == {u \in Thread : pc[u] = "draw"}
           E == {u \in Thread : pc'[u] = "draw"}
<1>1. /\ UNCHANGED given /\ g_cnt_global' = g_cnt_global + 1
      /\ start_num' = [start_num EXCEPT ![t] = g_cnt_global]
      /\ pc' = [pc EXCEPT ![t] = IF g_cnt_global < house_num THEN "search" ELSE "outside"]
      /\ pc[t] = "draw" /\ pc \in [Thread -> Place] /\ start_num \in [Thread -> Nat]
  BY DEF Draw, Goto, DrawIInv, TypeInv
<1>2. input \in Inputs /\ IsFiniteSet(Thread) /\ Cardinality(Thread) \in Nat
      /\ house_num \in Nat /\ g_cnt_global \in Nat
  BY ThreadsFinite, HouseNumber DEF DrawIInv, TypeInv
<1>3. E = D \ {t} /\ t \in D /\ D \subseteq Thread
  BY <1>1
<1>4. Cardinality(D) \in Nat /\ Cardinality(E) = Cardinality(D) - 1 /\ Cardinality(D) >= 1
  <2> HIDE DEF D, E
  <2>1. IsFiniteSet(D) /\ Cardinality(D) \in Nat
    BY <1>2, <1>3, FS_Subset, FS_CardinalityType
  <2>2. IsFiniteSet(E) /\ Cardinality(E) = Cardinality(D) - 1
    BY <1>3, <2>1, FS_RemoveElement
  <2>3. Cardinality(E) \in Nat
    BY <2>2, FS_CardinalityType
  <2> QED
    BY <2>1, <2>2, <2>3
<1>5. input' = input /\ house_num' = house_num /\ HouseIndex' = HouseIndex /\ Thread' = Thread
  BY <1>1, Frame
<1>6. E = {u \in Thread : pc[u] = "draw"}'
  BY <1>5
<1>7. g_cnt_global + Cardinality(D) =< house_num - 2 + Cardinality(Thread)
  BY DEF DrawIInv, DrawInv
<1>8. /\ g_cnt_global' + Cardinality(E) =< house_num - 2 + Cardinality(Thread)
      /\ g_cnt_global =< house_num - 2 + Cardinality(Thread) - 1
  <2> HIDE DEF D, E
  <2> QED
    BY <1>1, <1>2, <1>4, <1>7
<1>9. DrawBound'
  <2>1. \A u \in Thread : start_num'[u] =< house_num - 2 + Cardinality(Thread) - 1
    BY <1>1, <1>8 DEF DrawIInv, DrawInv, DrawBound
  <2> QED
    BY <1>5, <2>1 DEF DrawBound
<1>10. ASSUME NEW u \in Thread
       PROVE  /\ pc'[u] \in Searching => start_num'[u] \in HouseIndex
              /\ pc'[u] = "end" => g_cnt_global' >= house_num - 1
  <2>1. CASE u = t
    BY <1>1, <1>2, <2>1 DEF Searching, HouseIndex
  <2>2. CASE u # t
    <3>1. pc'[u] = pc[u] /\ start_num'[u] = start_num[u]
      BY <1>1, <2>2
    <3> QED
      BY <1>1, <1>2, <3>1 DEF DrawIInv, DrawInv
  <2> QED
    BY <2>1, <2>2
<1> QED
  BY <1>5, <1>6, <1>8, <1>9, <1>10 DEF DrawInv, Searching

\* The steps of a search, and the answer, draw no index.
LEMMA SearchPlaces ==
  ASSUME DrawIInv, NEW t \in Thread,
         Meet(t) \/ Prune(t) \/ PruneEnds(t) \/ Report(t) \/ Raise(t) \/ SetIMax(t)
  PROVE  /\ UNCHANGED given /\ UNCHANGED <<g_cnt_global, start_num, printed>>
         /\ pc[t] \in Searching /\ \E q \in Searching \cup {"loop"} : pc' = [pc EXCEPT ![t] = q]
<1>1. \A c : AfterHouse(c) \in Searching
  BY DEF AfterHouse, Searching
<1>2. pc = [pc EXCEPT ![t] = pc[t]]
  BY SMTT(40) DEF DrawIInv, TypeInv
<1>3. CASE Meet(t)
  BY <1>1, <1>3 DEF Meet, Goto, Searching
<1>4. CASE Prune(t)
  BY <1>2, <1>4 DEF Prune, Return, Goto, Searching, shared
<1>5. CASE PruneEnds(t)
  BY <1>1, <1>5 DEF PruneEnds, Goto, Searching, shared
<1>6. CASE Report(t) \/ Raise(t) \/ SetIMax(t)
  BY <1>6 DEF Report, Raise, SetIMax, Return, Goto, Searching, shared
<1> QED
  BY <1>3, <1>4, <1>5, <1>6

LEMMA DrawNext ==
  ASSUME DrawIInv, [Next]_vars
  PROVE  DrawIInv' /\ UNCHANGED given
<1>0. DrawIInv /\ input \in Inputs /\ g_cnt_global \in Nat /\ house_num \in Nat
      /\ pc \in [Thread -> Place] /\ start_num \in [Thread -> Nat]
  BY HouseNumber DEF DrawIInv, TypeInv
<1>1. ASSUME NEW t \in Thread, Test(t)
      PROVE  DrawIInv' /\ UNCHANGED given
  <2>1. UNCHANGED given /\ UNCHANGED <<g_cnt_global, start_num>> /\ pc' \in [Thread -> Place]
    BY <1>0, <1>1 DEF Test, Goto, shared, DrawOrEnd, Place
  <2>2. input' = input /\ Thread' = Thread
    BY <2>1, Frame
  <2> QED
    BY <1>0, <1>1, <2>1, <2>2, TestDraws DEF DrawIInv, TypeInv
<1>2. ASSUME NEW t \in Thread, Draw(t)
      PROVE  DrawIInv' /\ UNCHANGED given
  <2>1. /\ UNCHANGED given /\ g_cnt_global' \in Nat /\ start_num' \in [Thread -> Nat]
        /\ pc' \in [Thread -> Place]
    BY <1>0, <1>2 DEF Draw, Goto, Place
  <2>2. input' = input /\ Thread' = Thread
    BY <2>1, Frame
  <2> QED
    BY <1>0, <1>2, <2>1, <2>2, DrawDraws DEF DrawIInv, TypeInv
<1>3. ASSUME NEW t \in Thread,
             Meet(t) \/ Prune(t) \/ PruneEnds(t) \/ Report(t) \/ Raise(t) \/ SetIMax(t)
      PROVE  DrawIInv' /\ UNCHANGED given
  <2>1. /\ UNCHANGED given /\ UNCHANGED <<g_cnt_global, start_num>>
        /\ pc[t] \in Searching /\ \E q \in Searching \cup {"loop"} : pc' = [pc EXCEPT ![t] = q]
    BY <1>3, SearchPlaces
  <2>2. /\ pc' \in [Thread -> Place]
        /\ \A u \in Thread : pc'[u] = "draw" => pc[u] = "draw"
        /\ \A u \in Thread : pc'[u] \in Searching => pc[u] \in Searching
        /\ \A u \in Thread : pc'[u] = "end" => pc[u] = "end"
    BY <1>0, <2>1 DEF Place, Searching
  <2>3. input' = input /\ Thread' = Thread
    BY <2>1, Frame
  <2>4. DrawInv'
    BY <2>1, <2>2, NoDraw
  <2> QED
    BY <1>0, <2>1, <2>2, <2>3, <2>4 DEF DrawIInv, TypeInv
<1>4. CASE Answer \/ UNCHANGED vars
  <2>1. UNCHANGED given /\ UNCHANGED <<g_cnt_global, start_num, pc>>
    BY <1>4 DEF Answer, vars, shared
  <2>2. input' = input /\ Thread' = Thread
    BY <2>1, Frame
  <2>3. DrawInv'
    BY <1>0, <2>1, NoDraw, SMTT(40)
  <2> QED
    BY <1>0, <2>1, <2>2, <2>3 DEF DrawIInv, TypeInv
<1> QED
  BY <1>1, <1>2, <1>3, <1>4 DEF Next

----------------------------------------------------------------------------
(* The two solutions side by side.                                         *)

LEMMA MeetingKeepsInput ==
  ASSUME Meeting!Next
  PROVE  UNCHANGED input
  BY ZenonT(60) DEF Meeting!Next, Meeting!Mark, Meeting!Dequeue, Meeting!NextLevel, Meeting!MakeResult,
         Meeting!given

\* The threads of Project1.cpp test the counter outside of the mutex: they draw
\* indices beyond the houses to search, at most one less than there are threads.
THEOREM DrawsBounded == EitherSpec => []OwnDrawBound
<1> DEFINE I == Own => DrawIInv
<1>1. EitherInit => I
  BY DrawInit DEF EitherInit
<1>2. I /\ [EitherNext]_allVars => I'
  <2> SUFFICES ASSUME I, [EitherNext]_allVars, Own' PROVE DrawIInv'
    OBVIOUS
  <2>1. CASE Own /\ [Next]_vars
    BY <2>1, DrawNext
  <2>2. CASE ~Own /\ (Meeting!Next \/ UNCHANGED vars)
    <3>1. input' = input
      BY <2>2, MeetingKeepsInput DEF vars, given
    <3> QED
      BY <2>2, <3>1 DEF Own
  <2> QED
    BY <2>1, <2>2 DEF EitherNext, allVars
<1>3. I => OwnDrawBound
  BY DEF DrawIInv, DrawInv, OwnDrawBound
<1> QED
  BY <1>1, <1>2, <1>3, PTL DEF EitherSpec

----------------------------------------------------------------------------
(* Least and greatest numbers.                                             *)

LEMMA Least ==
  ASSUME NEW T, T \subseteq Nat, T # {}
  PROVE  \E x \in T : \A y \in T : x =< y
<1> DEFINE R == OpToRel(<, Nat)
<1>1. IsWellFoundedOn(R, Nat)
  BY NatLessThanWellFounded
<1>2. \A x, y \in Nat : y < x => <<y, x>> \in R
  BY DEF OpToRel
<1> HIDE DEF R
<1>3. \E x \in T : \A y \in T : ~ (<<y, x>> \in R)
  BY <1>1, WFMin
<1>4. \A x, y \in Nat : ~ (<<y, x>> \in R) => x =< y
  BY <1>2
<1> QED
  BY <1>3, <1>4

\* No finite set of numbers is without a bound: take the smallest that is, and
\* one of its elements away.
LEMMA Bounded ==
  ASSUME NEW T, T \subseteq Nat, IsFiniteSet(T)
  PROVE  \E b \in Nat : \A x \in T : x =< b
<1> DEFINE Bad(n) == \E X \in SUBSET Nat : /\ IsFiniteSet(X) /\ Cardinality(X) = n
                                           /\ ~ \E b \in Nat : \A x \in X : x =< b
           B == {n \in Nat : Bad(n)}
<1>1. B = {}
  <2> SUFFICES ASSUME B # {} PROVE FALSE
    OBVIOUS
  <2>1. B \subseteq Nat
    OBVIOUS
  <2>2. PICK n \in B : \A k \in B : n =< k
    <3> HIDE DEF B
    <3> QED
      BY <2>1, Least
  <2>3. PICK X \in SUBSET Nat : /\ IsFiniteSet(X) /\ Cardinality(X) = n
                                /\ ~ \E b \in Nat : \A x \in X : x =< b
    BY <2>2
  <2>4. PICK a : a \in X
    BY <2>3
  <2>5. IsFiniteSet(X \ {a}) /\ Cardinality(X \ {a}) = n - 1 /\ Cardinality(X \ {a}) \in Nat
    BY <2>3, <2>4, FS_RemoveElement, FS_CardinalityType
  <2>6. n - 1 \notin B
    BY <2>1, <2>2, <2>5
  <2>7. PICK b \in Nat : \A x \in X \ {a} : x =< b
    BY <2>3, <2>5, <2>6
  <2>8. \A x \in X : x =< a + b
    BY <2>3, <2>4, <2>7
  <2>9. a + b \in Nat
    BY <2>3, <2>4, <2>7
  <2> QED
    BY <2>3, <2>8, <2>9
<1>2. ~ Bad(Cardinality(T))
  <2>1. Cardinality(T) \in Nat
    BY FS_CardinalityType
  <2> QED
    BY <1>1, <2>1
<1> QED
  BY <1>2

LEMMA MinMax ==
  ASSUME NEW T, T \subseteq Nat, T # {}, IsFiniteSet(T)
  PROVE  /\ Min(T) \in T /\ \A y \in T : Min(T) =< y
         /\ Max(T) \in T /\ \A y \in T : y =< Max(T)
<1>1. \E x \in T : \A y \in T : x =< y
  BY Least
<1>2. Min(T) \in T /\ \A y \in T : Min(T) =< y
  BY <1>1 DEF Min
<1> DEFINE B == {b \in Nat : \A x \in T : x =< b}
<1>3. B # {} /\ B \subseteq Nat
  BY Bounded
<1>4. PICK m \in B : \A b \in B : m =< b
  <2> HIDE DEF B
  <2> QED
    BY <1>3, Least
<1>5. m \in T
  <2> SUFFICES ASSUME m \notin T PROVE FALSE
    OBVIOUS
  <2>1. \A x \in T : x \in Nat /\ x < m
    BY <1>4
  <2>2. m \in Nat /\ m - 1 \in Nat
    <3>1. PICK x : x \in T
      OBVIOUS
    <3>2. x \in Nat /\ m \in Nat /\ x < m
      BY <1>4, <2>1, <3>1
    <3> QED
      BY <3>2
  <2>3. \A x \in T : x =< m - 1
    BY <2>1, <2>2
  <2>4. m - 1 \in B /\ ~ (m =< m - 1)
    BY <2>2, <2>3
  <2> QED
    BY <1>4, <2>4
<1>6. \E x \in T : \A y \in T : x >= y
  BY <1>4, <1>5
<1>7. Max(T) \in T /\ \A y \in T : Max(T) >= y
  BY <1>6 DEF Max
<1> QED
  BY <1>2, <1>7

\* The same for the values of a function.
LEMMA MinMaxOf ==
  ASSUME NEW S, IsFiniteSet(S), S # {}, NEW f, \A x \in S : f[x] \in Nat,
         NEW T, T = {f[x] : x \in S}
  PROVE  /\ T \subseteq Nat
         /\ Min(T) \in T /\ \A y \in T : Min(T) =< y
         /\ Max(T) \in T /\ \A y \in T : y =< Max(T)
<1> DEFINE g == [x \in S |-> f[x]]
<1>1. g \in Surjection(S, T)
  BY DEF Surjection
<1>2. T \subseteq Nat /\ T # {}
  OBVIOUS
<1>3. IsFiniteSet(T)
  <2> HIDE DEF g
  <2> QED
    BY <1>1, FS_Surjection
<1> QED
  BY <1>2, <1>3, MinMax

\* The least and the greatest distance of two houses.
LEMMA Extremes ==
  ASSUME WalksRight
  PROVE  /\ LeastDistance \in Nat /\ MostDistance \in Nat /\ MostDistance >= 3
         /\ \E i, j \in HouseIndex : i < j /\ LeastDistance = apart[<<i, j>>]
         /\ \E i, j \in HouseIndex : i < j /\ MostDistance = apart[<<i, j>>]
         /\ \A i, j \in HouseIndex : i # j => LeastDistance =< apart[<<i, j>>]
         /\ \A i, j \in HouseIndex : i # j => apart[<<i, j>>] =< MostDistance
<1> DEFINE S == {q \in HouseIndex \X HouseIndex : q[1] < q[2]}
<1>1. /\ house_num \in Nat /\ house_num >= 3
      /\ apart \in [HouseIndex \X HouseIndex -> Nat]
      /\ \A i, j \in HouseIndex : apart[<<i, j>>] = apart[<<j, i>>]
      /\ \A i, j \in HouseIndex : i # j => apart[<<i, j>>] >= 3
  BY DEF WalksRight, AllRight, Index, HouseIndex, house_num
<1>2. IsFiniteSet(S) /\ S # {}
  <2>1. IsFiniteSet(HouseIndex)
    BY <1>1, FS_Interval DEF HouseIndex
  <2>2. IsFiniteSet(HouseIndex \X HouseIndex)
    BY <2>1, FS_Product
  <2>3. S \subseteq HouseIndex \X HouseIndex
    OBVIOUS
  <2>4. <<0, 1>> \in S
    BY <1>1 DEF HouseIndex
  <2> HIDE DEF S
  <2> QED
    BY <2>2, <2>3, <2>4, FS_Subset
<1>3. \A p \in S : apart[p] \in Nat
  BY <1>1
<1>4. Distances = {apart[p] : p \in S}
  BY DEF Distances
<1>5. /\ LeastDistance \in Distances /\ \A d \in Distances : LeastDistance =< d
      /\ MostDistance \in Distances /\ \A d \in Distances : d =< MostDistance
      /\ Distances \subseteq Nat
  <2> HIDE DEF S
  <2> QED
    BY <1>2, <1>3, <1>4, MinMaxOf DEF LeastDistance, MostDistance
<1>6. \A d \in Distances : \E i, j \in HouseIndex : i < j /\ d = apart[<<i, j>>]
  BY <1>4
<1>7. \A i, j \in HouseIndex : i < j => apart[<<i, j>>] \in Distances
  <2> SUFFICES ASSUME NEW i \in HouseIndex, NEW j \in HouseIndex, i < j
               PROVE  apart[<<i, j>>] \in Distances
    OBVIOUS
  <2>1. <<i, j>> \in S
    OBVIOUS
  <2> HIDE DEF S
  <2> QED
    BY <1>4, <2>1
<1>8. \A i, j \in HouseIndex : i # j => apart[<<i, j>>] \in Distances
  <2>1. \A i, j \in HouseIndex : i # j => i < j \/ j < i
    BY <1>1 DEF HouseIndex
  <2> QED
    BY <1>1, <1>7, <2>1
<1>9. MostDistance >= 3
  <2>1. PICK i, j \in HouseIndex : i < j /\ MostDistance = apart[<<i, j>>]
    BY <1>5, <1>6
  <2>2. i # j
    BY <1>1, <2>1 DEF HouseIndex
  <2> QED
    BY <1>1, <2>1, <2>2
<1> QED
  BY <1>5, <1>6, <1>8, <1>9

----------------------------------------------------------------------------
(* Paths and distances in a connected graph.                               *)

LEMMA Induction ==
  ASSUME NEW S, 0 \in S, \A n \in Nat : n \in S => n + 1 \in S
  PROVE  Nat \subseteq S
<1> DEFINE T == Nat \ S
<1> SUFFICES ASSUME T # {} PROVE FALSE
  OBVIOUS
<1>1. T \subseteq Nat
  OBVIOUS
<1> HIDE DEF T
<1>2. PICK x \in T : \A y \in T : x =< y
  BY <1>1, Least
<1>3. x \in Nat /\ x \notin S /\ x # 0
  BY <1>2 DEF T
<1>4. x - 1 \in Nat /\ x - 1 \notin T
  BY <1>2, <1>3
<1>5. x - 1 \in S /\ (x - 1) + 1 = x
  BY <1>3, <1>4 DEF T
<1> QED
  BY <1>3, <1>4, <1>5

\* The vertices of a graph and the neighbours of one.
Vertex(G) == 1 .. Len(G)
Adjacent(G, u) == {G[u][j] : j \in 1 .. Len(G[u])}

\* One edge, or none.
Step(G, u, w) == w = u \/ w \in Adjacent(G, u)

\* k steps lead from v to w.
Path(G, v, w, k) ==
    \E p \in [0 .. k -> Vertex(G)] :
        p[0] = v /\ p[k] = w /\ \A i \in 0 .. k - 1 : Step(G, p[i], p[i + 1])

LEMMA GraphTypes ==
  ASSUME NEW G, Connected(G)
  PROVE  /\ Len(G) \in Nat /\ DOMAIN G = Vertex(G)
         /\ \A u \in Vertex(G) : G[u] \in Seq(Vertex(G)) /\ Len(G[u]) \in Nat
         /\ \A u \in Vertex(G) : ToSet(G[u]) = Adjacent(G, u)
         /\ \A u \in Vertex(G) : Adjacent(G, u) \subseteq Vertex(G)
         /\ \A u, w \in Vertex(G) : w \in Adjacent(G, u) => u \in Adjacent(G, w)
         /\ \A S \in SUBSET Vertex(G) :
               S # {} /\ (\A u \in S : Adjacent(G, u) \subseteq S) => S = Vertex(G)
<1>1. G \in Seq(Seq(DOMAIN G))
  BY DEF Connected
<1>2. Len(G) \in Nat /\ DOMAIN G = Vertex(G)
  BY <1>1 DEF Vertex
<1>3. \A u \in Vertex(G) : G[u] \in Seq(Vertex(G))
  BY <1>1, <1>2 DEF Vertex
<1>4. ASSUME NEW u \in Vertex(G)
      PROVE  Len(G[u]) \in Nat /\ ToSet(G[u]) = Adjacent(G, u) /\ Adjacent(G, u) \subseteq Vertex(G)
  <2>1. G[u] \in Seq(Vertex(G))
    BY <1>3
  <2>2. Len(G[u]) \in Nat /\ DOMAIN G[u] = 1 .. Len(G[u])
    BY <2>1
  <2>3. \A j \in 1 .. Len(G[u]) : G[u][j] \in Vertex(G)
    BY <2>1, ElementOfSeq
  <2> QED
    BY <2>2, <2>3 DEF ToSet, Adjacent
<1>5. \A u, w \in Vertex(G) : w \in Adjacent(G, u) => u \in Adjacent(G, w)
  BY <1>2, <1>4 DEF Connected
<1>6. ASSUME NEW S \in SUBSET Vertex(G), S # {}, \A u \in S : Adjacent(G, u) \subseteq S
      PROVE  S = Vertex(G)
  <2>1. \A u \in S : ToSet(G[u]) \subseteq S
    BY <1>4, <1>6
  <2> QED
    BY <1>2, <1>6, <2>1 DEF Connected
<1> QED
  BY <1>2, <1>3, <1>4, <1>5, <1>6

\* A step can be taken back.
LEMMA StepBack ==
  ASSUME NEW G, Connected(G), NEW u \in Vertex(G), NEW w \in Vertex(G), Step(G, u, w)
  PROVE  Step(G, w, u)
  BY GraphTypes DEF Step

LEMMA PathEmpty ==
  ASSUME NEW G, NEW v \in Vertex(G), NEW w
  PROVE  Path(G, v, w, 0) <=> v = w
<1>1. ASSUME v = w PROVE Path(G, v, w, 0)
  <2> DEFINE p == [i \in 0 .. 0 |-> v]
  <2>1. p \in [0 .. 0 -> Vertex(G)] /\ p[0] = v /\ \A i \in 0 .. 0 - 1 : Step(G, p[i], p[i + 1])
    OBVIOUS
  <2> HIDE DEF p
  <2> QED
    BY <1>1, <2>1 DEF Path
<1>2. ASSUME Path(G, v, w, 0) PROVE v = w
  BY <1>2 DEF Path
<1> QED
  BY <1>1, <1>2

LEMMA PathExtend ==
  ASSUME NEW G, NEW v, NEW u, NEW k \in Nat, Path(G, v, u, k), NEW w \in Vertex(G), Step(G, u, w)
  PROVE  Path(G, v, w, k + 1)
<1>1. PICK p \in [0 .. k -> Vertex(G)] :
         p[0] = v /\ p[k] = u /\ \A i \in 0 .. k - 1 : Step(G, p[i], p[i + 1])
  BY DEF Path
<1> DEFINE q == [i \in 0 .. k + 1 |-> IF i =< k THEN p[i] ELSE w]
<1>2. \A i \in 0 .. k : q[i] = p[i]
  OBVIOUS
<1>3. q \in [0 .. k + 1 -> Vertex(G)] /\ q[k + 1] = w
  <2>1. \A i \in 0 .. k + 1 : i =< k => i \in 0 .. k
    OBVIOUS
  <2>2. ~ (k + 1 =< k) /\ k + 1 \in 0 .. k + 1
    OBVIOUS
  <2> QED
    BY <1>1, <2>1, <2>2
<1> HIDE DEF q
<1>4. ASSUME NEW i \in 0 .. (k + 1) - 1
      PROVE  Step(G, q[i], q[i + 1])
  <2>1. CASE i = k
    BY <1>1, <1>2, <1>3, <2>1
  <2>2. CASE i # k
    <3>1. i \in 0 .. k - 1 /\ i \in 0 .. k /\ i + 1 \in 0 .. k
      BY <2>2
    <3> QED
      BY <1>1, <1>2, <3>1
  <2> QED
    BY <2>1, <2>2
<1>5. q[0] = v
  BY <1>1, <1>2
<1> QED
  BY <1>3, <1>4, <1>5 DEF Path

LEMMA PathLast ==
  ASSUME NEW G, NEW v, NEW w, NEW k \in Nat, Path(G, v, w, k + 1)
  PROVE  /\ w \in Vertex(G)
         /\ \E u \in Vertex(G) : Path(G, v, u, k) /\ Step(G, u, w)
<1>1. PICK p \in [0 .. k + 1 -> Vertex(G)] :
         p[0] = v /\ p[k + 1] = w /\ \A i \in 0 .. (k + 1) - 1 : Step(G, p[i], p[i + 1])
  BY DEF Path
<1> DEFINE q == [i \in 0 .. k |-> p[i]]
<1>2. \A i \in 0 .. k : q[i] = p[i] /\ i \in 0 .. k + 1
  OBVIOUS
<1>3. q \in [0 .. k -> Vertex(G)]
  BY <1>1, <1>2
<1> HIDE DEF q
<1>4. \A i \in 0 .. k - 1 : Step(G, q[i], q[i + 1])
  <2>1. \A i \in 0 .. k - 1 : i \in 0 .. k /\ i + 1 \in 0 .. k /\ i \in 0 .. (k + 1) - 1
    OBVIOUS
  <2> QED
    BY <1>1, <1>2, <2>1
<1>5. q[0] = v /\ q[k] = p[k] /\ p[k] \in Vertex(G)
  BY <1>1, <1>2
<1>6. Step(G, p[k], w)
  BY <1>1
<1>7. Path(G, v, p[k], k)
  BY <1>3, <1>4, <1>5 DEF Path
<1>8. w \in Vertex(G)
  BY <1>1
<1> QED
  BY <1>5, <1>6, <1>7, <1>8

LEMMA PathBack ==
  ASSUME NEW G, Connected(G), NEW v, NEW w, NEW k \in Nat, Path(G, v, w, k)
  PROVE  Path(G, w, v, k)
<1>1. PICK p \in [0 .. k -> Vertex(G)] :
         p[0] = v /\ p[k] = w /\ \A i \in 0 .. k - 1 : Step(G, p[i], p[i + 1])
  BY DEF Path
<1> DEFINE q == [i \in 0 .. k |-> p[k - i]]
<1>2. \A i \in 0 .. k : q[i] = p[k - i] /\ k - i \in 0 .. k
  OBVIOUS
<1>3. q \in [0 .. k -> Vertex(G)]
  BY <1>1, <1>2
<1> HIDE DEF q
<1>4. q[0] = w /\ q[k] = v
  BY <1>1, <1>2
<1>5. ASSUME NEW i \in 0 .. k - 1
      PROVE  Step(G, q[i], q[i + 1])
  <2>1. /\ i \in 0 .. k /\ i + 1 \in 0 .. k /\ k - (i + 1) \in 0 .. k - 1
        /\ (k - (i + 1)) + 1 = k - i /\ k - (i + 1) \in 0 .. k /\ k - i \in 0 .. k
    OBVIOUS
  <2>2. Step(G, p[k - (i + 1)], p[k - i])
    BY <1>1, <2>1
  <2>3. p[k - (i + 1)] \in Vertex(G) /\ p[k - i] \in Vertex(G)
    BY <2>1
  <2>4. Step(G, p[k - i], p[k - (i + 1)])
    BY <2>2, <2>3, StepBack
  <2> QED
    BY <1>2, <2>1, <2>4
<1> QED
  BY <1>3, <1>4, <1>5 DEF Path

\* Two paths make one.
LEMMA PathJoin ==
  ASSUME NEW G, NEW v, NEW u, NEW a \in Nat, Path(G, v, u, a), NEW b \in Nat
  PROVE  \A w : Path(G, u, w, b) => Path(G, v, w, a + b)
<1> DEFINE S == {n \in Nat : \A w : Path(G, u, w, n) => Path(G, v, w, a + n)}
<1>1. u \in Vertex(G)
  BY DEF Path
<1>2. 0 \in S
  BY <1>1, PathEmpty
<1>3. ASSUME NEW n \in Nat, n \in S
      PROVE  n + 1 \in S
  <2> SUFFICES ASSUME NEW w, Path(G, u, w, n + 1) PROVE Path(G, v, w, a + (n + 1))
    OBVIOUS
  <2>1. PICK x \in Vertex(G) : Path(G, u, x, n) /\ Step(G, x, w)
    BY PathLast
  <2>2. w \in Vertex(G)
    BY PathLast
  <2>3. Path(G, v, x, a + n) /\ a + n \in Nat
    BY <1>3, <2>1
  <2>4. Path(G, v, w, (a + n) + 1)
    BY <2>1, <2>2, <2>3, PathExtend
  <2>5. (a + n) + 1 = a + (n + 1)
    OBVIOUS
  <2> QED
    BY <2>4, <2>5
<1> HIDE DEF S
<1>4. Nat \subseteq S
  BY <1>2, <1>3, Induction
<1> QED
  BY <1>4 DEF S

\* The distance: the least number of steps.
Far(G, v, w) ==
    CHOOSE k \in Nat : Path(G, v, w, k) /\ \A j \in Nat : Path(G, v, w, j) => k =< j

LEMMA FarPath ==
  ASSUME NEW G, Connected(G), NEW v \in Vertex(G), NEW w \in Vertex(G)
  PROVE  /\ Far(G, v, w) \in Nat
         /\ \A j \in Nat : Path(G, v, w, j) <=> Far(G, v, w) =< j
<1> DEFINE S == {x \in Vertex(G) : \E k \in Nat : Path(G, v, x, k)}
           T == {k \in Nat : Path(G, v, w, k)}
           d == Far(G, v, w)
<1>1. v \in S
  BY PathEmpty
<1>2. ASSUME NEW u \in S, NEW x \in Adjacent(G, u)
      PROVE  x \in S
  <2>1. PICK k \in Nat : Path(G, v, u, k)
    OBVIOUS
  <2>2. x \in Vertex(G) /\ Step(G, u, x)
    BY GraphTypes DEF Step
  <2>3. Path(G, v, x, k + 1) /\ k + 1 \in Nat
    BY <2>1, <2>2, PathExtend
  <2> QED
    BY <2>2, <2>3
<1>3. S \in SUBSET Vertex(G)
  OBVIOUS
<1>4. S = Vertex(G)
  <2> HIDE DEF S
  <2> QED
    BY <1>1, <1>2, <1>3, GraphTypes
<1>5. T # {} /\ T \subseteq Nat
  BY <1>4
<1>6. \E k \in T : \A j \in T : k =< j
  <2> HIDE DEF T
  <2> QED
    BY <1>5, Least
<1>7. \E k \in Nat : Path(G, v, w, k) /\ \A j \in Nat : Path(G, v, w, j) => k =< j
  BY <1>6
<1>8. d \in Nat /\ Path(G, v, w, d) /\ \A j \in Nat : Path(G, v, w, j) => d =< j
  BY <1>7 DEF Far
<1> HIDE DEF d
<1> DEFINE R == {n \in Nat : Path(G, v, w, d + n)}
<1>9. 0 \in R
  BY <1>8
<1>10. ASSUME NEW n \in Nat, n \in R
       PROVE  n + 1 \in R
  <2>1. Path(G, v, w, d + n) /\ d + n \in Nat /\ Step(G, w, w)
    BY <1>8, <1>10 DEF Step
  <2>2. Path(G, v, w, (d + n) + 1)
    BY <2>1, PathExtend
  <2>3. (d + n) + 1 = d + (n + 1)
    BY <1>8
  <2> QED
    BY <2>2, <2>3
<1>11. Nat \subseteq R
  <2> HIDE DEF R
  <2> QED
    BY <1>9, <1>10, Induction
<1>12. ASSUME NEW j \in Nat, d =< j
       PROVE  Path(G, v, w, j)
  <2>1. j - d \in Nat /\ d + (j - d) = j
    BY <1>8, <1>12
  <2>2. Path(G, v, w, d + (j - d))
    BY <1>11, <2>1
  <2> QED
    BY <2>1, <2>2
<1> QED
  BY <1>8, <1>12 DEF d

LEMMA FarMetric ==
  ASSUME NEW G, Connected(G), NEW v \in Vertex(G), NEW w \in Vertex(G)
  PROVE  /\ Far(G, v, w) = 0 <=> v = w
         /\ Far(G, v, w) = Far(G, w, v)
         /\ \A u \in Vertex(G) : Far(G, v, w) =< Far(G, v, u) + Far(G, u, w)
         /\ \A u \in Vertex(G) : w \in Adjacent(G, u) => Far(G, v, w) =< Far(G, v, u) + 1
         /\ Far(G, v, w) > 0 => \E u \in Vertex(G) :
               w \in Adjacent(G, u) /\ Far(G, v, u) = Far(G, v, w) - 1
<1>0. \A x, y \in Vertex(G) :
        Far(G, x, y) \in Nat /\ \A j \in Nat : Path(G, x, y, j) <=> Far(G, x, y) =< j
  BY FarPath
<1>1. Far(G, v, w) = 0 <=> v = w
  BY <1>0, PathEmpty
<1>2. \A x, y \in Vertex(G) : Far(G, x, y) =< Far(G, y, x)
  <2> SUFFICES ASSUME NEW x \in Vertex(G), NEW y \in Vertex(G) PROVE Far(G, x, y) =< Far(G, y, x)
    OBVIOUS
  <2>1. PICK k \in Nat : k = Far(G, y, x)
    BY <1>0
  <2>2. Path(G, y, x, k)
    BY <1>0, <2>1
  <2>3. Path(G, x, y, k)
    BY <2>2, PathBack
  <2> QED
    BY <1>0, <2>1, <2>3
<1>3. Far(G, v, w) = Far(G, w, v)
  <2>1. Far(G, v, w) =< Far(G, w, v) /\ Far(G, w, v) =< Far(G, v, w)
        /\ Far(G, v, w) \in Nat /\ Far(G, w, v) \in Nat
    BY <1>0, <1>2
  <2> QED
    BY <2>1
<1>4. ASSUME NEW u \in Vertex(G)
      PROVE  Far(G, v, w) =< Far(G, v, u) + Far(G, u, w)
  <2>1. PICK a \in Nat : a = Far(G, v, u)
    BY <1>0
  <2>2. PICK b \in Nat : b = Far(G, u, w)
    BY <1>0
  <2>3. Path(G, v, u, a) /\ Path(G, u, w, b)
    BY <1>0, <2>1, <2>2
  <2>4. Path(G, v, w, a + b)
    BY <2>3, PathJoin
  <2>5. a + b \in Nat
    OBVIOUS
  <2> QED
    BY <1>0, <2>1, <2>2, <2>4, <2>5
<1>5. ASSUME NEW u \in Vertex(G), w \in Adjacent(G, u)
      PROVE  Far(G, v, w) =< Far(G, v, u) + 1
  <2>1. PICK a \in Nat : a = Far(G, v, u)
    BY <1>0
  <2>2. Path(G, v, u, a) /\ Step(G, u, w)
    BY <1>0, <1>5, <2>1 DEF Step
  <2>3. Path(G, v, w, a + 1) /\ a + 1 \in Nat
    BY <2>2, PathExtend
  <2> QED
    BY <1>0, <2>1, <2>3
<1>6. ASSUME Far(G, v, w) > 0
      PROVE  \E u \in Vertex(G) : w \in Adjacent(G, u) /\ Far(G, v, u) = Far(G, v, w) - 1
  <2>1. PICK k \in Nat : k + 1 = Far(G, v, w)
    <3>1. Far(G, v, w) \in Nat /\ Far(G, v, w) - 1 \in Nat
      BY <1>0, <1>6
    <3> QED
      BY <3>1
  <2>2. Path(G, v, w, k + 1)
    BY <1>0, <2>1
  <2>3. PICK u \in Vertex(G) : Path(G, v, u, k) /\ Step(G, u, w)
    BY <2>2, PathLast
  <2>4. Far(G, v, u) \in Nat /\ Far(G, v, u) =< k
    BY <1>0, <2>3
  <2>5. w # u
    BY <2>1, <2>4
  <2>6. w \in Adjacent(G, u)
    BY <2>3, <2>5 DEF Step
  <2>7. Far(G, v, w) =< Far(G, v, u) + 1
    BY <1>5, <2>6
  <2> QED
    BY <2>1, <2>4, <2>6, <2>7
<1> QED
  BY <1>1, <1>3, <1>4, <1>5, <1>6

\* The vertices within one step of N.
Wider(G, N) == N \cup UNION {ToSet(G[u]) : u \in N}

\* f has what is near v, for each number of steps up to n.
IsNear(f, G, v, n) == f = [k \in 0 .. n |-> IF k = 0 THEN {v} ELSE Wider(G, f[k - 1])]

LEMMA NearExists ==
  ASSUME NEW G, NEW v, NEW n \in Nat
  PROVE  \E f : IsNear(f, G, v, n)
<1> DEFINE S == {m \in Nat : \E f : IsNear(f, G, v, m)}
<1>1. 0 \in S
  <2> DEFINE f == [k \in 0 .. 0 |-> {v}]
  <2>1. IsNear(f, G, v, 0)
    BY DEF IsNear
  <2> QED
    BY <2>1
<1>2. ASSUME NEW m \in Nat, m \in S
      PROVE  m + 1 \in S
  <2>1. PICK f : IsNear(f, G, v, m)
    BY <1>2
  <2> DEFINE x == [k \in 0 .. m + 1 |-> IF k =< m THEN f[k] ELSE Wider(G, f[m])]
  <2>2. \A k \in 0 .. m : x[k] = f[k]
    OBVIOUS
  <2>3. \A k \in 0 .. m + 1 : x[k] = IF k = 0 THEN {v} ELSE Wider(G, x[k - 1])
    <3> SUFFICES ASSUME NEW k \in 0 .. m + 1
                 PROVE  x[k] = IF k = 0 THEN {v} ELSE Wider(G, x[k - 1])
      OBVIOUS
    <3>1. CASE k = 0
      BY <2>1, <3>1 DEF IsNear
    <3>2. CASE k \in 1 .. m
      <4>1. f[k] = Wider(G, f[k - 1])
        <5>1. \A i \in 0 .. m : f[i] = IF i = 0 THEN {v} ELSE Wider(G, f[i - 1])
          BY <2>1, Zenon DEF IsNear
        <5>2. k \in 0 .. m /\ k # 0
          BY <3>2
        <5> QED
          BY <5>1, <5>2
      <4>2. x[k] = f[k] /\ x[k - 1] = f[k - 1]
        BY <2>2, <3>2
      <4> HIDE DEF x
      <4> QED
        BY <3>2, <4>1, <4>2
    <3>3. CASE k = m + 1
      <4>1. x[k] = Wider(G, f[m]) /\ x[m] = f[m] /\ k - 1 = m
        BY <3>3
      <4> HIDE DEF x
      <4> QED
        BY <3>3, <4>1
    <3> QED
      BY <3>1, <3>2, <3>3
  <2>4. IsNear(x, G, v, m + 1)
    <3>1. x = [k \in 0 .. m + 1 |-> x[k]]
      OBVIOUS
    <3> HIDE DEF x
    <3> QED
      BY <2>3, <3>1 DEF IsNear
  <2> QED
    BY <2>4
<1> HIDE DEF S
<1>3. Nat \subseteq S
  BY <1>1, <1>2, Induction
<1> QED
  BY <1>3 DEF S

LEMMA NearIsPath ==
  ASSUME NEW G, Connected(G), NEW v \in Vertex(G), NEW n \in Nat, NEW f, IsNear(f, G, v, n)
  PROVE  \A k \in 0 .. n : f[k] = {w \in Vertex(G) : Path(G, v, w, k)}
<1> DEFINE B(k) == {w \in Vertex(G) : Path(G, v, w, k)}
           S == {k \in Nat : k =< n => f[k] = B(k)}
<1>1. 0 \in S
  <2>1. f[0] = {v}
    BY DEF IsNear
  <2>2. \A w \in Vertex(G) : Path(G, v, w, 0) <=> v = w
    BY PathEmpty
  <2> QED
    BY <2>1, <2>2
<1>2. ASSUME NEW k \in Nat, k \in S, k + 1 =< n
      PROVE  f[k + 1] = B(k + 1)
  <2>1. f[k + 1] = Wider(G, f[k]) /\ f[k] = B(k)
    <3>1. \A i \in 0 .. n : f[i] = IF i = 0 THEN {v} ELSE Wider(G, f[i - 1])
      BY Zenon DEF IsNear
    <3>2. k + 1 \in 0 .. n /\ k + 1 # 0 /\ (k + 1) - 1 = k /\ k =< n
      BY <1>2
    <3>3. f[k + 1] = Wider(G, f[(k + 1) - 1])
      BY <3>1, <3>2
    <3>4. f[k] = B(k)
      BY <1>2, <3>2
    <3> HIDE DEF B
    <3> QED
      BY <3>2, <3>3, <3>4
  <2>2. ASSUME NEW w \in Wider(G, B(k)) PROVE w \in B(k + 1)
    <3>1. PICK u \in B(k) : Step(G, u, w) /\ w \in Vertex(G)
      <4>1. w \in B(k) \/ \E u \in B(k) : w \in ToSet(G[u])
        BY <2>2 DEF Wider
      <4>2. \A u \in B(k) : ToSet(G[u]) = Adjacent(G, u) /\ Adjacent(G, u) \subseteq Vertex(G)
        BY GraphTypes
      <4> QED
        BY <4>1, <4>2 DEF Step
    <3>2. Path(G, v, w, k + 1)
      BY <3>1, PathExtend
    <3> QED
      BY <3>1, <3>2
  <2>3. ASSUME NEW w \in B(k + 1) PROVE w \in Wider(G, B(k))
    <3>1. Path(G, v, w, k + 1)
      BY <2>3
    <3>2. PICK u \in Vertex(G) : Path(G, v, u, k) /\ Step(G, u, w)
      BY <3>1, PathLast
    <3>3. u \in B(k) /\ (w = u \/ w \in ToSet(G[u]))
      BY <3>2, GraphTypes DEF Step
    <3> HIDE DEF B
    <3> QED
      BY <3>3 DEF Wider
  <2> HIDE DEF B
  <2> QED
    BY <2>1, <2>2, <2>3
<1>3. \A k \in Nat : k \in S => k + 1 \in S
  <2>1. \A k \in Nat : k \in S => (k + 1 =< n => f[k + 1] = B(k + 1))
    BY <1>2
  <2> HIDE DEF B
  <2> QED
    BY <2>1
<1>4. Nat \subseteq S
  <2> HIDE DEF S
  <2> QED
    BY <1>1, <1>3, Induction
<1> QED
  BY <1>4

\* The reference that the model computes is the distance.
LEMMA DistanceIsFar ==
  ASSUME Connected(input.graph), NEW v \in Vertex(input.graph), NEW w \in Vertex(input.graph),
         Far(input.graph, v, w) =< Len(input.graph)
  PROVE  Distance(v, w) = Far(input.graph, v, w)
<1> DEFINE G == input.graph
           n == Len(G)
           c == CHOOSE f : IsNear(f, G, v, n)
           d == Far(G, v, w)
<1>1. n \in Nat
  BY GraphTypes
<1>2. \E f : IsNear(f, G, v, n)
  BY <1>1, NearExists
<1>3. IsNear(c, G, v, n)
  BY <1>2
<1>4. Distance(v, w) = CHOOSE k \in 0 .. n : w \in c[k] /\ (k > 0 => w \notin c[k - 1])
  BY DEF Distance, IsNear, Wider
<1> HIDE DEF c
<1>5. \A k \in 0 .. n : c[k] = {x \in Vertex(G) : Path(G, v, x, k)}
  BY <1>1, <1>3, NearIsPath
<1>6. d \in Nat /\ \A j \in Nat : Path(G, v, w, j) <=> d =< j
  BY FarPath
<1>7. \A k \in 0 .. n : w \in c[k] <=> d =< k
  BY <1>1, <1>5, <1>6
<1> HIDE DEF d, G, n
<1>8. \A k \in 0 .. n : w \in c[k] /\ (k > 0 => w \notin c[k - 1]) <=> k = d
  <2> SUFFICES ASSUME NEW k \in 0 .. n
               PROVE  w \in c[k] /\ (k > 0 => w \notin c[k - 1]) <=> k = d
    OBVIOUS
  <2>1. k > 0 => k - 1 \in 0 .. n
    BY <1>1
  <2>2. w \in c[k] <=> d =< k
    BY <1>7
  <2>3. k > 0 => (w \in c[k - 1] <=> d =< k - 1)
    BY <1>7, <2>1
  <2> QED
    BY <1>1, <1>6, <2>2, <2>3
<1>9. d \in 0 .. n
  BY <1>1, <1>6 DEF d, G, n
<1>10. (CHOOSE k \in 0 .. n : w \in c[k] /\ (k > 0 => w \notin c[k - 1])) = d
  BY <1>8, <1>9
<1> QED
  BY <1>4, <1>10 DEF d, G

----------------------------------------------------------------------------
(* Appending the neighbours of a vertex to search_array.                   *)

\* No vertex is twice in the array.
Distinct(b) == \A k, l \in 1 .. Len(b) : b[k] = b[l] => k = l

\* One round of Search's do-while: a vertex is appended unless it was visited.
Queued(b, w) == IF w \in ToSet(b) THEN b ELSE Append(b, w)

\* f has the array a after each number, up to n, of the neighbours adj.
IsQueue(f, a, adj, n) == f = [j \in 0 .. n |-> IF j = 0 THEN a ELSE Queued(f[j - 1], adj[j])]

LEMMA QueueExists ==
  ASSUME NEW a, NEW adj, NEW n \in Nat
  PROVE  \E f : IsQueue(f, a, adj, n)
<1> DEFINE S == {m \in Nat : \E f : IsQueue(f, a, adj, m)}
<1>1. 0 \in S
  <2> DEFINE f == [k \in 0 .. 0 |-> a]
  <2>1. IsQueue(f, a, adj, 0)
    BY DEF IsQueue
  <2> QED
    BY <2>1
<1>2. ASSUME NEW m \in Nat, m \in S
      PROVE  m + 1 \in S
  <2>1. PICK f : IsQueue(f, a, adj, m)
    BY <1>2
  <2> DEFINE x == [k \in 0 .. m + 1 |-> IF k =< m THEN f[k] ELSE Queued(f[m], adj[m + 1])]
  <2>2. \A k \in 0 .. m : x[k] = f[k]
    OBVIOUS
  <2>3. \A k \in 0 .. m + 1 : x[k] = IF k = 0 THEN a ELSE Queued(x[k - 1], adj[k])
    <3> SUFFICES ASSUME NEW k \in 0 .. m + 1
                 PROVE  x[k] = IF k = 0 THEN a ELSE Queued(x[k - 1], adj[k])
      OBVIOUS
    <3>0. \A i \in 0 .. m : f[i] = IF i = 0 THEN a ELSE Queued(f[i - 1], adj[i])
      BY <2>1, Zenon DEF IsQueue
    <3>1. CASE k = 0
      BY <3>0, <3>1
    <3>2. CASE k \in 1 .. m
      <4>1. f[k] = Queued(f[k - 1], adj[k])
        <5>1. k \in 0 .. m /\ k # 0
          BY <3>2
        <5> QED
          BY <3>0, <5>1
      <4>2. x[k] = f[k] /\ x[k - 1] = f[k - 1]
        BY <2>2, <3>2
      <4> HIDE DEF x
      <4> QED
        BY <3>2, <4>1, <4>2
    <3>3. CASE k = m + 1
      <4>1. x[k] = Queued(f[m], adj[k]) /\ x[m] = f[m] /\ k - 1 = m
        BY <3>3
      <4> HIDE DEF x
      <4> QED
        BY <3>3, <4>1
    <3> QED
      BY <3>1, <3>2, <3>3
  <2>4. IsQueue(x, a, adj, m + 1)
    <3>1. x = [k \in 0 .. m + 1 |-> x[k]]
      OBVIOUS
    <3> HIDE DEF x
    <3> QED
      BY <2>3, <3>1 DEF IsQueue
  <2> QED
    BY <2>4
<1> HIDE DEF S
<1>3. Nat \subseteq S
  BY <1>1, <1>2, Induction
<1> QED
  BY <1>3 DEF S

\* b is the array a with the first j neighbours of v.
QueueRight(G, a, v, b, j) ==
    /\ b \in Seq(Vertex(G)) /\ Distinct(b) /\ Len(a) =< Len(b)
    /\ \A k \in 1 .. Len(a) : b[k] = a[k]
    /\ \A k \in Len(a) + 1 .. Len(b) : b[k] \in Adjacent(G, v)
    /\ \A i \in 1 .. j : \E k \in 1 .. Len(b) : b[k] = G[v][i]

LEMMA QueueStep ==
  ASSUME NEW G, Connected(G), NEW a \in Seq(Vertex(G)), NEW v \in Vertex(G), NEW b, NEW j \in Nat,
         j + 1 =< Len(G[v]), QueueRight(G, a, v, b, j)
  PROVE  QueueRight(G, a, v, Queued(b, G[v][j + 1]), j + 1)
<1> DEFINE w == G[v][j + 1]
           c == Append(b, w)
<1>1. b \in Seq(Vertex(G)) /\ Distinct(b) /\ Len(a) =< Len(b) /\ Len(a) \in Nat /\ Len(b) \in Nat
  BY DEF QueueRight
<1>2. w \in Adjacent(G, v) /\ w \in Vertex(G)
  <2>1. j + 1 \in 1 .. Len(G[v])
    BY GraphTypes
  <2> QED
    BY <2>1, GraphTypes DEF Adjacent
<1>3. \A i \in 1 .. j + 1 : i \in 1 .. j \/ i = j + 1
  OBVIOUS
<1>4. ToSet(b) = {b[k] : k \in 1 .. Len(b)}
  BY <1>1 DEF ToSet
<1>5. CASE w \in ToSet(b)
  <2>1. Queued(b, w) = b /\ \E k \in 1 .. Len(b) : b[k] = w
    BY <1>4, <1>5 DEF Queued
  <2>2. \A i \in 1 .. j + 1 : \E k \in 1 .. Len(b) : b[k] = G[v][i]
    BY <1>3, <2>1 DEF QueueRight
  <2> HIDE DEF w
  <2>3. QueueRight(G, a, v, b, j + 1)
    BY <2>2 DEF QueueRight
  <2> QED
    BY <2>1, <2>3 DEF w
<1>6. CASE w \notin ToSet(b)
  <2>1. Queued(b, w) = c
    BY <1>6 DEF Queued
  <2> HIDE DEF w
  <2>2. /\ c \in Seq(Vertex(G)) /\ Len(c) = Len(b) + 1 /\ c[Len(b) + 1] = w
        /\ \A k \in 1 .. Len(b) : c[k] = b[k]
    BY <1>1, <1>2, AppendProperties
  <2> HIDE DEF c
  <2>3. \A k \in 1 .. Len(c) : k \in 1 .. Len(b) \/ k = Len(b) + 1
    BY <1>1, <2>2
  <2>4. Distinct(c)
    <3>1. \A k \in 1 .. Len(b) : b[k] # w
      BY <1>4, <1>6
    <3> SUFFICES ASSUME NEW k \in 1 .. Len(c), NEW l \in 1 .. Len(c), c[k] = c[l] PROVE k = l
      BY DEF Distinct
    <3> QED
      BY <1>1, <2>2, <2>3, <3>1 DEF Distinct
  <2>5. Len(a) =< Len(c)
    BY <1>1, <2>2
  <2>6. \A k \in 1 .. Len(a) : c[k] = a[k]
    <3>1. \A k \in 1 .. Len(a) : k \in 1 .. Len(b)
      BY <1>1
    <3> QED
      BY <2>2, <3>1 DEF QueueRight
  <2>7. \A k \in Len(a) + 1 .. Len(c) : c[k] \in Adjacent(G, v)
    <3>1. \A k \in Len(a) + 1 .. Len(c) : \/ k \in Len(a) + 1 .. Len(b) /\ k \in 1 .. Len(b)
                                          \/ k = Len(b) + 1
      BY <1>1, <2>2
    <3> QED
      BY <1>2, <2>2, <3>1 DEF QueueRight
  <2>8. \A i \in 1 .. j + 1 : \E k \in 1 .. Len(c) : c[k] = G[v][i]
    <3>1. \A k \in 1 .. Len(b) : k \in 1 .. Len(c)
      BY <1>1, <2>2
    <3>2. Len(b) + 1 \in 1 .. Len(c) /\ c[Len(b) + 1] = G[v][j + 1]
      BY <1>1, <2>2 DEF w
    <3>3. \A i \in 1 .. j : \E k \in 1 .. Len(b) : b[k] = G[v][i]
      BY DEF QueueRight
    <3>4. \A i \in 1 .. j : \E k \in 1 .. Len(c) : c[k] = G[v][i]
      BY <2>2, <3>1, <3>3
    <3> QED
      BY <1>3, <3>2, <3>4
  <2>9. QueueRight(G, a, v, c, j + 1)
    BY <2>2, <2>4, <2>5, <2>6, <2>7, <2>8 DEF QueueRight
  <2> QED
    BY <2>1, <2>9 DEF w
<1> QED
  BY <1>5, <1>6

LEMMA EnqueueRight ==
  ASSUME Connected(input.graph), NEW a \in Seq(Vertex(input.graph)), Distinct(a),
         NEW v \in Vertex(input.graph)
  PROVE  QueueRight(input.graph, a, v, Enqueue(a, v), Len(input.graph[v]))
<1> DEFINE G == input.graph
           n == Len(G[v])
           f == CHOOSE f : IsQueue(f, a, G[v], n)
           S == {j \in Nat : j =< n => QueueRight(G, a, v, f[j], j)}
<1>1. n \in Nat
  BY GraphTypes
<1>2. \E g : IsQueue(g, a, G[v], n)
  BY <1>1, QueueExists
<1>3. IsQueue(f, a, G[v], n)
  BY <1>2
<1>4. Enqueue(a, v) = f[n]
  BY DEF Enqueue, IsQueue, Queued
<1> HIDE DEF f
<1>5. \A j \in 0 .. n : f[j] = IF j = 0 THEN a ELSE Queued(f[j - 1], G[v][j])
  BY <1>3, Zenon DEF IsQueue
<1> HIDE DEF G, n
<1>6. 0 \in S
  <2>1. f[0] = a /\ Len(a) \in Nat
    BY <1>1, <1>5 DEF G
  <2>2. QueueRight(G, a, v, a, 0)
    BY <2>1 DEF QueueRight, G
  <2> QED
    BY <2>1, <2>2
<1>7. ASSUME NEW j \in Nat, j \in S, j + 1 =< n
      PROVE  QueueRight(G, a, v, f[j + 1], j + 1)
  <2>1. j + 1 \in 0 .. n /\ j + 1 # 0 /\ (j + 1) - 1 = j /\ j =< n
    BY <1>1, <1>7
  <2>2. f[j + 1] = Queued(f[j], G[v][j + 1])
    BY <1>5, <2>1
  <2>3. QueueRight(G, a, v, f[j], j)
    BY <1>7, <2>1
  <2>4. j + 1 =< Len(G[v])
    BY <1>7 DEF n
  <2>5. QueueRight(G, a, v, Queued(f[j], G[v][j + 1]), j + 1)
    BY <2>3, <2>4, QueueStep DEF G
  <2> QED
    BY <2>2, <2>5
<1>8. \A j \in Nat : j \in S => j + 1 \in S
  <2>1. \A j \in Nat : j \in S => (j + 1 =< n => QueueRight(G, a, v, f[j + 1], j + 1))
    BY <1>7
  <2> QED
    BY <2>1
<1>9. Nat \subseteq S
  <2> HIDE DEF S
  <2> QED
    BY <1>6, <1>8, Induction
<1>10. QueueRight(G, a, v, f[n], n)
  <2>1. n \in S
    BY <1>1, <1>9
  <2> QED
    BY <1>1, <2>1
<1> QED
  BY <1>4, <1>10 DEF G, n

\* Sequences without repetition and the set 1 .. n.
LEMMA Counting ==
  ASSUME NEW n \in Nat, NEW a \in Seq(1 .. n)
  PROVE  /\ Distinct(a) => Len(a) =< n
         /\ Distinct(a) /\ Len(a) = n => \A x \in 1 .. n : \E k \in 1 .. Len(a) : a[k] = x
         /\ \A i \in Nat : (\A x \in 1 .. n : \E k \in 1 .. i : a[k] = x) => n =< i
<1> DEFINE I == 1 .. Len(a)
           T == {a[k] : k \in I}
           N == 1 .. n
<1>1. Len(a) \in Nat /\ \A k \in I : a[k] \in N
  BY ElementOfSeq
<1>2. IsFiniteSet(N) /\ Cardinality(N) = n
  BY FS_Interval
<1>3. IsFiniteSet(I) /\ Cardinality(I) = Len(a)
  <2>1. PICK l \in Nat : l = Len(a)
    BY <1>1
  <2>2. IsFiniteSet(1 .. l) /\ Cardinality(1 .. l) = l
    BY FS_Interval
  <2> QED
    BY <2>1, <2>2
<1>4. T \subseteq N
  BY <1>1
<1>5. ASSUME Distinct(a)
      PROVE  /\ IsFiniteSet(T) /\ Cardinality(T) = Len(a)
             /\ Cardinality(T) =< n /\ (Len(a) = n => T = N)
  <2> DEFINE g == [k \in I |-> a[k]]
  <2>1. g \in Bijection(I, T)
    <3>1. g \in Surjection(I, T)
      BY DEF Surjection
    <3>2. \A k, l \in I : g[k] = g[l] => k = l
      BY <1>5 DEF Distinct
    <3> QED
      BY <3>1, <3>2 DEF Bijection, Injection, Surjection, IsInjective
  <2> HIDE DEF g, I, T, N
  <2>2. IsFiniteSet(T) /\ Cardinality(T) = Cardinality(I)
    BY <1>3, <2>1, FS_Bijection DEF ExistsBijection
  <2>3. Cardinality(T) =< Cardinality(N) /\ (Cardinality(N) = Cardinality(T) => T = N)
    BY <1>2, <1>4, FS_Subset
  <2> QED
    BY <1>2, <1>3, <2>2, <2>3
<1>6. Distinct(a) => Len(a) =< n
  <2> HIDE DEF T
  <2> QED
    BY <1>5
<1>7. ASSUME Distinct(a), Len(a) = n, NEW x \in N
      PROVE  \E k \in I : a[k] = x
  BY <1>5, <1>7
<1>8. ASSUME NEW i \in Nat, \A x \in N : \E k \in 1 .. i : a[k] = x
      PROVE  n =< i
  <2> DEFINE J == {k \in 1 .. i : a[k] \in N}
             g == [k \in J |-> a[k]]
  <2>1. g \in Surjection(J, N)
    BY <1>8 DEF Surjection
  <2>2. IsFiniteSet(1 .. i) /\ Cardinality(1 .. i) = i
    BY FS_Interval
  <2>3. J \subseteq 1 .. i
    OBVIOUS
  <2> HIDE DEF J, g, N
  <2>4. IsFiniteSet(J) /\ Cardinality(J) =< i /\ Cardinality(J) \in Nat
    <3>1. IsFiniteSet(J) /\ Cardinality(J) =< Cardinality(1 .. i)
      BY <2>2, <2>3, FS_Subset
    <3> QED
      BY <2>2, <3>1, FS_CardinalityType
  <2>5. Cardinality(N) =< Cardinality(J)
    BY <2>1, <2>4, FS_Surjection
  <2> QED
    BY <1>2, <2>4, <2>5
<1> QED
  BY <1>6, <1>7, <1>8

----------------------------------------------------------------------------
(* The walk is breadth first.                                              *)

\* The array a after i visits of a walk from v0, when c is cycle_count and d is
\* distance: up to cycle_count the vertices of this level and the ones before, all
\* of them, behind it those of the next level that are found.
ArrayRight(G, v0, a, c, d, i) ==
    /\ a \in Seq(Vertex(G)) /\ Distinct(a) /\ i =< Len(a)
    /\ c \in Nat /\ d \in Nat /\ d =< i
    /\ i < Len(G) => i =< c /\ c < Len(a)
    /\ \A k \in 1 .. Len(a) :
          /\ k =< c + 1 => Far(G, v0, a[k]) =< d
          /\ k > c + 1 => Far(G, v0, a[k]) = d + 1
          /\ k > i => Far(G, v0, a[k]) >= d
          /\ Far(G, v0, a[k]) < k
    /\ \A w \in Vertex(G) : Far(G, v0, w) =< d => \E k \in 1 .. Len(a) : a[k] = w
    /\ \A k \in 1 .. i : \A w \in Adjacent(G, a[k]) : \E l \in 1 .. Len(a) : a[l] = w

\* A walk that is not at its end has a vertex to visit.
LEMMA NotStuck ==
  ASSUME NEW G, Connected(G), NEW a \in Seq(Vertex(G)), NEW i \in Nat, i > 0, i < Len(G),
         i =< Len(a),
         \A k \in 1 .. i : \A w \in Adjacent(G, a[k]) : \E l \in 1 .. Len(a) : a[l] = w
  PROVE  i < Len(a)
<1> DEFINE S == {a[k] : k \in 1 .. i}
<1>1. Len(a) \in Nat /\ Len(G) \in Nat /\ \A k \in 1 .. Len(a) : a[k] \in Vertex(G)
  BY GraphTypes, ElementOfSeq
<1> SUFFICES ASSUME i = Len(a) PROVE FALSE
  BY <1>1
<1>2. S \in SUBSET Vertex(G) /\ a[1] \in S
  BY <1>1
<1>3. \A u \in S : Adjacent(G, u) \subseteq S
  OBVIOUS
<1>4. S = Vertex(G)
  <2> HIDE DEF S
  <2> QED
    BY <1>2, <1>3, GraphTypes
<1>5. \A x \in 1 .. Len(G) : \E k \in 1 .. i : a[k] = x
  BY <1>4 DEF Vertex
<1>6. a \in Seq(1 .. Len(G))
  BY DEF Vertex
<1>7. Len(G) =< i
  BY <1>1, <1>5, <1>6, Counting, ZenonT(60)
<1> QED
  BY <1>1, <1>7

LEMMA ArrayStep ==
  ASSUME NEW G, Connected(G), NEW v0 \in Vertex(G), NEW a, NEW c, NEW d, NEW i \in Nat,
         i < Len(G), ArrayRight(G, v0, a, c, d, i),
         NEW b, QueueRight(G, a, a[i + 1], b, Len(G[a[i + 1]]))
  PROVE  /\ a[i + 1] \in Vertex(G) /\ Far(G, v0, a[i + 1]) = d
         /\ Len(a) \in Nat /\ Len(b) \in Nat
         /\ i # c => ArrayRight(G, v0, b, c, d, i + 1)
         /\ i = c => ArrayRight(G, v0, b, Len(b) - 1, d + 1, i + 1)
<1> DEFINE v == a[i + 1]
           D(w) == Far(G, v0, w)
<1>1. /\ a \in Seq(Vertex(G)) /\ Len(a) \in Nat /\ c \in Nat /\ d \in Nat /\ d =< i
      /\ i =< c /\ c < Len(a) /\ i + 1 \in 1 .. Len(a) /\ Len(G) \in Nat
  BY GraphTypes, SMTT(40) DEF ArrayRight
<1>2. \A k \in 1 .. Len(a) : a[k] \in Vertex(G)
  BY <1>1, ElementOfSeq
<1>3. \A w \in Vertex(G) : D(w) \in Nat
  BY FarPath
<1>4. v \in Vertex(G) /\ D(v) = d
  <2>1. v \in Vertex(G) /\ D(v) \in Nat
    BY <1>1, <1>2, <1>3
  <2>2. D(v) =< d /\ D(v) >= d
    BY <1>1 DEF ArrayRight
  <2> QED
    BY <1>1, <2>1, <2>2
<1>5. /\ b \in Seq(Vertex(G)) /\ Distinct(b) /\ Len(b) \in Nat /\ Len(a) =< Len(b)
      /\ \A k \in 1 .. Len(a) : b[k] = a[k]
      /\ \A k \in Len(a) + 1 .. Len(b) : b[k] \in Adjacent(G, v)
  BY DEF QueueRight
<1>6. \A k \in 1 .. Len(b) : b[k] \in Vertex(G)
  BY <1>5, ElementOfSeq
<1>7. \A w \in Adjacent(G, v) : \E k \in 1 .. Len(b) : b[k] = w
  BY DEF QueueRight, Adjacent
<1>8. \A k \in 1 .. Len(b) : k \in 1 .. Len(a) \/ k \in Len(a) + 1 .. Len(b)
  BY <1>1, <1>5
<1>9. \A k \in 1 .. Len(a) : k \in 1 .. Len(b)
  BY <1>1, <1>5
<1>10. ASSUME NEW k \in Len(a) + 1 .. Len(b)
       PROVE  D(b[k]) = d + 1
  <2>1. k \in 1 .. Len(b) /\ b[k] \in Vertex(G) /\ b[k] \in Adjacent(G, v) /\ D(b[k]) \in Nat
    <3>1. k \in 1 .. Len(b)
      BY <1>1, <1>5
    <3>2. b[k] \in Vertex(G) /\ b[k] \in Adjacent(G, v)
      BY <1>5, <1>6, <3>1
    <3> QED
      BY <1>3, <3>1, <3>2
  <2>2. D(b[k]) =< d + 1
    <3>1. \A u \in Vertex(G) : b[k] \in Adjacent(G, u) => D(b[k]) =< D(u) + 1
      BY <2>1, FarMetric
    <3> QED
      BY <1>4, <2>1, <3>1
  <2>3. ~ (D(b[k]) =< d)
    <3> SUFFICES ASSUME D(b[k]) =< d PROVE FALSE
      OBVIOUS
    <3>1. PICK l \in 1 .. Len(a) : a[l] = b[k]
      BY <2>1 DEF ArrayRight
    <3>2. b[l] = b[k] /\ l \in 1 .. Len(b) /\ l # k
      BY <1>1, <1>5, <1>9, <3>1, SMTT(40)
    <3> QED
      BY <1>5, <2>1, <3>2 DEF Distinct
  <2> HIDE DEF D
  <2> QED
    BY <1>1, <2>1, <2>2, <2>3
<1>11. \A k \in 1 .. i + 1 : \A w \in Adjacent(G, b[k]) : \E l \in 1 .. Len(b) : b[l] = w
  <2> SUFFICES ASSUME NEW k \in 1 .. i + 1, NEW w \in Adjacent(G, b[k])
               PROVE  \E l \in 1 .. Len(b) : b[l] = w
    OBVIOUS
  <2>1. k \in 1 .. Len(a) /\ b[k] = a[k]
    BY <1>1, <1>5
  <2>2. CASE k = i + 1
    BY <1>7, <2>1, <2>2
  <2>3. CASE k # i + 1
    <3>1. k \in 1 .. i
      BY <2>3
    <3>2. PICK l \in 1 .. Len(a) : a[l] = w
      BY <2>1, <3>1 DEF ArrayRight
    <3> QED
      BY <1>5, <1>9, <3>2
  <2> QED
    BY <2>2, <2>3
<1>12. i + 1 =< Len(b) /\ (i + 1 < Len(G) => i + 1 < Len(b))
  <2>1. i + 1 =< Len(b) /\ i + 1 \in Nat /\ i + 1 > 0
    BY <1>1, <1>5
  <2> QED
    BY <1>5, <1>11, <2>1, NotStuck
<1>13. ASSUME NEW k \in 1 .. Len(b)
       PROVE  /\ D(b[k]) \in Nat /\ D(b[k]) < k
              /\ k =< c + 1 => D(b[k]) =< d
              /\ k > c + 1 => D(b[k]) = d + 1
              /\ k > i => D(b[k]) >= d
  <2>0. D(b[k]) \in Nat
    BY <1>3, <1>6
  <2>1. CASE k \in 1 .. Len(a)
    <3>1. /\ D(a[k]) < k
          /\ k =< c + 1 => D(a[k]) =< d
          /\ k > c + 1 => D(a[k]) = d + 1
          /\ k > i => D(a[k]) >= d
      BY <2>1 DEF ArrayRight
    <3> HIDE DEF D
    <3> QED
      BY <1>5, <2>0, <2>1, <3>1
  <2>2. CASE k \in Len(a) + 1 .. Len(b)
    <3>1. D(b[k]) = d + 1
      BY <1>10, <2>2
    <3> HIDE DEF D
    <3> QED
      BY <1>1, <2>0, <2>2, <3>1
  <2> QED
    BY <1>8, <2>1, <2>2
<1>14. ASSUME NEW w \in Vertex(G), D(w) =< d
       PROVE  \E k \in 1 .. Len(b) : b[k] = w
  <2>1. PICK k \in 1 .. Len(a) : a[k] = w
    BY <1>14 DEF ArrayRight
  <2> QED
    BY <1>5, <1>9, <2>1
<1>15. ASSUME i # c PROVE ArrayRight(G, v0, b, c, d, i + 1)
  <2>1. i + 1 =< c /\ c < Len(b) /\ d =< i + 1
    BY <1>1, <1>5, <1>15
  <2>2. \A k \in 1 .. Len(b) : k > i + 1 => k > i
    OBVIOUS
  <2> QED
    BY <1>1, <1>5, <1>11, <1>12, <1>13, <1>14, <2>1, <2>2 DEF ArrayRight
<1>16. ASSUME i = c PROVE ArrayRight(G, v0, b, Len(b) - 1, d + 1, i + 1)
  <2>1. /\ Len(b) - 1 \in Nat /\ d + 1 \in Nat /\ d + 1 =< i + 1
        /\ i + 1 < Len(G) => i + 1 =< Len(b) - 1 /\ Len(b) - 1 < Len(b)
    BY <1>1, <1>5, <1>12
  <2>2. ASSUME NEW k \in 1 .. Len(b)
        PROVE  /\ k =< (Len(b) - 1) + 1 => D(b[k]) =< d + 1
               /\ k > (Len(b) - 1) + 1 => D(b[k]) = (d + 1) + 1
               /\ k > i + 1 => D(b[k]) >= d + 1
               /\ D(b[k]) < k
    <3>1. /\ D(b[k]) \in Nat /\ D(b[k]) < k
          /\ k =< c + 1 => D(b[k]) =< d
          /\ k > c + 1 => D(b[k]) = d + 1
      BY <1>13
    <3> HIDE DEF D
    <3> QED
      BY <1>1, <1>5, <1>16, <3>1
  <2>3. ASSUME NEW w \in Vertex(G), D(w) =< d + 1
        PROVE  \E k \in 1 .. Len(b) : b[k] = w
    <3>1. CASE D(w) =< d
      BY <1>14, <3>1
    <3>2. CASE ~ (D(w) =< d)
      <4>1. D(w) > 0 /\ D(w) - 1 = d
        <5>1. D(w) \in Nat
          BY <1>3
        <5> HIDE DEF D
        <5> QED
          BY <1>1, <2>3, <3>2, <5>1
      <4>2. PICK u \in Vertex(G) : w \in Adjacent(G, u) /\ D(u) = D(w) - 1
        BY <4>1, FarMetric
      <4>3. D(u) = d
        BY <4>1, <4>2
      <4>4. PICK k \in 1 .. Len(a) : a[k] = u
        BY <1>1, <4>3 DEF ArrayRight
      <4>5. ~ (k > c + 1)
        <5> SUFFICES ASSUME k > c + 1 PROVE FALSE
          OBVIOUS
        <5>1. D(a[k]) = d + 1
          BY <4>4 DEF ArrayRight
        <5> HIDE DEF D
        <5> QED
          BY <1>1, <4>3, <4>4, <5>1
      <4>6. k \in 1 .. i + 1 /\ b[k] = u
        BY <1>1, <1>5, <1>16, <4>4, <4>5
      <4> QED
        BY <1>11, <4>2, <4>6
    <3> QED
      BY <3>1, <3>2
  <2> QED
    BY <1>5, <1>11, <1>12, <2>1, <2>2, <2>3 DEF ArrayRight
<1> QED
  BY <1>1, <1>4, <1>5, <1>15, <1>16

\* No two of the vertices H have a neighbour in common.
Sparse(G, H) ==
    \A x, y \in H : x # y => Adjacent(G, x) \cap Adjacent(G, y) = {}

\* What the walk has met after i visits of the array a: every house next to a
\* visited vertex, once, in the order of their distances.
MetRight(G, H, v0, a, m, d, i) ==
    /\ m \in Seq([house : Vertex(G), distance : Nat])
    /\ \A k \in 1 .. Len(m) :
          /\ m[k].house \in H /\ m[k].distance =< d
          /\ m[k].house # v0 => m[k].distance + 1 = Far(G, v0, m[k].house)
          /\ m[k].house = v0 => m[k].distance =< 1
    /\ \A k, l \in 1 .. Len(m) : m[k].house = m[l].house => k = l
    /\ \A k, l \in 1 .. Len(m) : k =< l => m[k].distance =< m[l].distance
    /\ \A k \in 1 .. i : \A w \in Adjacent(G, a[k]) \cap H :
          \E l \in 1 .. Len(m) : m[l].house = w

\* A house that is met for the first time is one step behind the level.
LEMMA NewHouse ==
  ASSUME NEW G, Connected(G), NEW v0 \in Vertex(G), NEW a, NEW c, NEW d, NEW i \in Nat,
         i < Len(G), ArrayRight(G, v0, a, c, d, i), NEW H \in SUBSET Vertex(G),
         NEW m, MetRight(G, H, v0, a, m, d, i),
         a[i + 1] \in Vertex(G), Far(G, v0, a[i + 1]) = d,
         NEW h \in Adjacent(G, a[i + 1]) \cap H, \A k \in 1 .. Len(m) : m[k].house # h
  PROVE  /\ h # v0 => d + 1 = Far(G, v0, h)
         /\ h = v0 => d =< 1
<1> DEFINE D(w) == Far(G, v0, w)
           v == a[i + 1]
<1>1. h \in Vertex(G) /\ d \in Nat /\ D(h) \in Nat /\ Len(a) \in Nat
  BY FarPath DEF ArrayRight
<1>2. D(h) =< d + 1
  <2>1. \A u \in Vertex(G) : h \in Adjacent(G, u) => D(h) =< D(u) + 1
    BY <1>1, FarMetric
  <2> QED
    BY <2>1
<1>3. ASSUME h # v0 PROVE d + 1 = D(h)
  <2>1. D(h) > 0
    <3>1. D(h) = 0 <=> v0 = h
      BY <1>1, FarMetric
    <3> HIDE DEF D
    <3> QED
      BY <1>1, <1>3, <3>1
  <2>2. PICK u \in Vertex(G) : h \in Adjacent(G, u) /\ D(u) = D(h) - 1
    BY <1>1, <2>1, FarMetric
  <2>3. ASSUME D(h) =< d PROVE FALSE
    <3>1. D(u) \in Nat /\ D(u) =< d /\ D(u) < d
      <4>1. D(u) \in Nat
        BY FarPath
      <4> HIDE DEF D
      <4> QED
        BY <1>1, <2>1, <2>2, <2>3, <4>1
    <3>2. PICK k \in 1 .. Len(a) : a[k] = u
      BY <3>1 DEF ArrayRight
    <3>3. ~ (k > i)
      <4> SUFFICES ASSUME k > i PROVE FALSE
        OBVIOUS
      <4>1. D(a[k]) >= d
        BY <3>2 DEF ArrayRight
      <4> HIDE DEF D
      <4> QED
        BY <1>1, <3>1, <3>2, <4>1
    <3>4. k \in 1 .. i
      BY <1>1, <3>2, <3>3
    <3>5. h \in Adjacent(G, a[k]) \cap H
      BY <2>2, <3>2
    <3>6. \E l \in 1 .. Len(m) : m[l].house = h
      BY <3>4, <3>5 DEF MetRight
    <3> QED
      BY <3>6
  <2> HIDE DEF D
  <2> QED
    BY <1>1, <1>2, <2>3
<1>4. ASSUME h = v0 PROVE d =< 1
  <2>1. v \in Adjacent(G, v0)
    BY <1>4, GraphTypes
  <2>2. D(v) =< D(v0) + 1 /\ D(v0) = 0
    <3>1. \A u \in Vertex(G) : v \in Adjacent(G, u) => D(v) =< D(u) + 1
      BY FarMetric
    <3>2. D(v0) = 0
      BY FarMetric
    <3> QED
      BY <2>1, <3>1, <3>2
  <2> QED
    BY <1>1, <2>2
<1> QED
  BY <1>3, <1>4

\* A visit of the vertex of position i turns the array a, the houses met m and the
\* distance d into b, n and e; the vertex has no house next to it, one that is
\* new, or one that was met before.
VisitStep(G, H, v0, a, c, d, m, i, b, n, e) ==
    /\ Connected(G) /\ H \in SUBSET Vertex(G) /\ v0 \in Vertex(G) /\ i \in Nat
    /\ i < Len(G) /\ ArrayRight(G, v0, a, c, d, i) /\ MetRight(G, H, v0, a, m, d, i)
    /\ a[i + 1] \in Vertex(G) /\ Far(G, v0, a[i + 1]) = d
    /\ e \in {d, d + 1} /\ \A k \in 1 .. i + 1 : b[k] = a[k]
    /\ \/ /\ n = m
          /\ \A w \in Adjacent(G, a[i + 1]) \cap H : \E k \in 1 .. Len(m) : m[k].house = w
       \/ \E h \in Adjacent(G, a[i + 1]) \cap H :
             /\ n = Append(m, [house |-> h, distance |-> d])
             /\ \A k \in 1 .. Len(m) : m[k].house # h
             /\ \A w \in Adjacent(G, a[i + 1]) \cap H : w = h

\* One visit of a vertex whose houses next to it, if any, were met before.
LEMMA MetSame ==
  ASSUME NEW G, NEW H, NEW v0, NEW a, NEW c, NEW d, NEW m, NEW i, NEW b, NEW n, NEW e,
         VisitStep(G, H, v0, a, c, d, m, i, b, n, e),
         n = m,
         \A w \in Adjacent(G, a[i + 1]) \cap H : \E k \in 1 .. Len(m) : m[k].house = w
  PROVE  MetRight(G, H, v0, b, n, e, i + 1)
<1> SUFFICES ASSUME Connected(G), H \in SUBSET Vertex(G), v0 \in Vertex(G), i \in Nat,
                    i < Len(G), ArrayRight(G, v0, a, c, d, i),
                    MetRight(G, H, v0, a, m, d, i),
                    a[i + 1] \in Vertex(G), Far(G, v0, a[i + 1]) = d,
                    e \in {d, d + 1}, \A k \in 1 .. i + 1 : b[k] = a[k]
             PROVE  MetRight(G, H, v0, b, n, e, i + 1)
  BY DEF VisitStep
<1>1. /\ d \in Nat /\ m \in Seq([house : Vertex(G), distance : Nat]) /\ Len(m) \in Nat
      /\ e \in Nat /\ d =< e
  BY DEF ArrayRight, MetRight
<1>2. \A k \in 1 .. Len(m) : m[k] \in [house : Vertex(G), distance : Nat]
  BY <1>1, ElementOfSeq
<1>3. \A k \in 1 .. i + 1 : k \in 1 .. i \/ k = i + 1
  OBVIOUS
<1>4. \A k \in 1 .. i + 1 : \A w \in Adjacent(G, b[k]) \cap H :
         \E l \in 1 .. Len(n) : n[l].house = w
  BY <1>3 DEF MetRight
<1>5. \A k \in 1 .. Len(n) : n[k].distance =< e
  <2>1. \A k \in 1 .. Len(m) : m[k].distance =< d /\ m[k].distance \in Nat
    BY <1>2 DEF MetRight
  <2> QED
    BY <1>1, <2>1
<1> QED
  BY <1>4, <1>5 DEF MetRight

\* One visit of a vertex with one house next to it, which is new.
LEMMA MetNew ==
  ASSUME NEW G, NEW H, NEW v0, NEW a, NEW c, NEW d, NEW m, NEW i, NEW b, NEW n, NEW e,
         VisitStep(G, H, v0, a, c, d, m, i, b, n, e),
         \E h \in Adjacent(G, a[i + 1]) \cap H :
            /\ n = Append(m, [house |-> h, distance |-> d])
            /\ \A k \in 1 .. Len(m) : m[k].house # h
            /\ \A w \in Adjacent(G, a[i + 1]) \cap H : w = h
  PROVE  MetRight(G, H, v0, b, n, e, i + 1)
<1> SUFFICES ASSUME Connected(G), H \in SUBSET Vertex(G), v0 \in Vertex(G), i \in Nat,
                    i < Len(G), ArrayRight(G, v0, a, c, d, i),
                    MetRight(G, H, v0, a, m, d, i),
                    a[i + 1] \in Vertex(G), Far(G, v0, a[i + 1]) = d,
                    e \in {d, d + 1}, \A k \in 1 .. i + 1 : b[k] = a[k]
             PROVE  MetRight(G, H, v0, b, n, e, i + 1)
  BY DEF VisitStep
<1>1. /\ d \in Nat /\ m \in Seq([house : Vertex(G), distance : Nat]) /\ Len(m) \in Nat
      /\ e \in Nat /\ d =< e
  BY DEF ArrayRight, MetRight
<1>2. \A k \in 1 .. Len(m) : m[k] \in [house : Vertex(G), distance : Nat]
  BY <1>1, ElementOfSeq
<1>3. \A k \in 1 .. i + 1 : k \in 1 .. i \/ k = i + 1
  OBVIOUS
<1> PICK h \in Adjacent(G, a[i + 1]) \cap H :
         /\ n = Append(m, [house |-> h, distance |-> d])
         /\ \A k \in 1 .. Len(m) : m[k].house # h
         /\ \A w \in Adjacent(G, a[i + 1]) \cap H : w = h
  OBVIOUS
<1> DEFINE r == [house |-> h, distance |-> d]
           L == Len(m)
<1>4. r \in [house : Vertex(G), distance : Nat] /\ r.house = h /\ r.distance = d
  BY <1>1
<1>5. /\ h # v0 => d + 1 = Far(G, v0, h)
      /\ h = v0 => d =< 1
  BY NewHouse
<1>6. n = Append(m, r)
  OBVIOUS
<1> HIDE DEF r
<1>7. /\ n \in Seq([house : Vertex(G), distance : Nat]) /\ Len(n) = L + 1 /\ n[L + 1] = r
      /\ \A k \in 1 .. L : n[k] = m[k]
  BY <1>1, <1>4, <1>6, AppendProperties
<1>8. L \in Nat /\ \A k \in 1 .. Len(n) : k \in 1 .. L \/ k = L + 1
  BY <1>1, <1>7
<1>9. ASSUME NEW k \in 1 .. Len(n)
      PROVE  /\ n[k].house \in H /\ n[k].distance =< d /\ n[k].distance \in Nat
             /\ n[k].house # v0 => n[k].distance + 1 = Far(G, v0, n[k].house)
             /\ n[k].house = v0 => n[k].distance =< 1
  <2>1. CASE k \in 1 .. L
    BY <1>2, <1>7, <2>1 DEF MetRight
  <2>2. CASE k = L + 1
    BY <1>1, <1>4, <1>5, <1>7, <2>2
  <2> QED
    BY <1>8, <2>1, <2>2
<1>10. \A k, l \in 1 .. Len(n) : n[k].house = n[l].house => k = l
  <2> SUFFICES ASSUME NEW k \in 1 .. Len(n), NEW l \in 1 .. Len(n), n[k].house = n[l].house
               PROVE  k = l
    OBVIOUS
  <2>1. \A x \in 1 .. L : n[x].house # h
    BY <1>7
  <2>2. \A x, y \in 1 .. L : n[x].house = n[y].house => x = y
    BY <1>7 DEF MetRight
  <2> QED
    BY <1>4, <1>7, <1>8, <2>1, <2>2, SMTT(40)
<1>11. \A k, l \in 1 .. Len(n) : k =< l => n[k].distance =< n[l].distance
  <2> SUFFICES ASSUME NEW k \in 1 .. Len(n), NEW l \in 1 .. Len(n), k =< l
               PROVE  n[k].distance =< n[l].distance
    OBVIOUS
  <2>1. CASE l = L + 1
    <3>1. n[l].distance = d
      BY <1>4, <1>7, <2>1
    <3> QED
      BY <1>9, <3>1
  <2>2. CASE l \in 1 .. L
    <3>1. k \in 1 .. L
      BY <1>8, <2>2
    <3> QED
      BY <1>7, <2>2, <3>1 DEF MetRight
  <2> QED
    BY <1>8, <2>1, <2>2
<1>12. \A k \in 1 .. i + 1 : \A w \in Adjacent(G, b[k]) \cap H :
         \E l \in 1 .. Len(n) : n[l].house = w
  <2> SUFFICES ASSUME NEW k \in 1 .. i + 1, NEW w \in Adjacent(G, b[k]) \cap H
               PROVE  \E l \in 1 .. Len(n) : n[l].house = w
    OBVIOUS
  <2>1. CASE k = i + 1
    <3>1. w = h /\ L + 1 \in 1 .. Len(n) /\ n[L + 1].house = h
      BY <1>1, <1>4, <1>7, <2>1
    <3> QED
      BY <3>1
  <2>2. CASE k \in 1 .. i
    <3>1. PICK l \in 1 .. L : m[l].house = w
      BY <2>2 DEF MetRight
    <3>2. l \in 1 .. Len(n) /\ n[l].house = w
      BY <1>1, <1>7, <3>1
    <3> QED
      BY <3>2
  <2> QED
    BY <1>3, <2>1, <2>2
<1>13. \A k \in 1 .. Len(n) : n[k].distance =< e
  BY <1>1, <1>9
<1> QED
  BY <1>7, <1>9, <1>10, <1>11, <1>12, <1>13, ZenonT(60) DEF MetRight

LEMMA MetStep ==
  ASSUME NEW G, NEW H, NEW v0, NEW a, NEW c, NEW d, NEW m, NEW i, NEW b, NEW n, NEW e,
         VisitStep(G, H, v0, a, c, d, m, i, b, n, e)
  PROVE  MetRight(G, H, v0, b, n, e, i + 1)
<1>1. CASE /\ n = m
           /\ \A w \in Adjacent(G, a[i + 1]) \cap H : \E k \in 1 .. Len(m) : m[k].house = w
  BY <1>1, MetSame
<1>2. CASE \E h \in Adjacent(G, a[i + 1]) \cap H :
              /\ n = Append(m, [house |-> h, distance |-> d])
              /\ \A k \in 1 .. Len(m) : m[k].house # h
              /\ \A w \in Adjacent(G, a[i + 1]) \cap H : w = h
  BY <1>2, MetNew
<1> QED
  BY <1>1, <1>2 DEF VisitStep


\* The state st of a walk from v0 after i visits.
VisitsRight(v0, st, i) ==
    /\ ArrayRight(input.graph, v0, st.search_array, st.cycle_count, st.distance, i)
    /\ MetRight(input.graph, ToSet(input.house), v0, st.search_array, st.met, st.distance, i)
    /\ st.total_count = Len(st.search_array) - (st.cycle_count + 1)

\* The field house of a vertex has the only house next to it.
LEMMA HouseField ==
  ASSUME Connected(input.graph), NEW H, H = ToSet(input.house), H \subseteq Vertex(input.graph),
         Sparse(input.graph, H), NEW v \in Vertex(input.graph),
         NEW near, near = HousesNextTo(v)
  PROVE  /\ near = {} => Adjacent(input.graph, v) \cap H = {}
         /\ near # {} => /\ input.graph[v][Max(near)] \in Adjacent(input.graph, v) \cap H
                         /\ \A w \in Adjacent(input.graph, v) \cap H :
                               w = input.graph[v][Max(near)]
<1> DEFINE G == input.graph
<1>1. near = {k \in 1 .. Len(G[v]) : G[v][k] \in H} /\ Len(G[v]) \in Nat
  BY GraphTypes DEF HousesNextTo
<1>2. ASSUME NEW w \in Adjacent(G, v) \cap H, NEW x \in Adjacent(G, v) \cap H PROVE w = x
  <2>1. w \in Vertex(G) /\ x \in Vertex(G) /\ v \in Adjacent(G, w) /\ v \in Adjacent(G, x)
    BY GraphTypes
  <2> QED
    BY <2>1 DEF Sparse
<1>3. near = {} => Adjacent(G, v) \cap H = {}
  BY <1>1 DEF Adjacent
<1>4. ASSUME near # {} PROVE G[v][Max(near)] \in Adjacent(G, v) \cap H
  <2>1. near \subseteq Nat /\ near \subseteq 1 .. Len(G[v])
    BY <1>1
  <2>2. IsFiniteSet(1 .. Len(G[v]))
    BY <1>1, FS_Interval
  <2>3. IsFiniteSet(near)
    BY <2>1, <2>2, FS_Subset
  <2>4. Max(near) \in near
    BY <1>4, <2>1, <2>3, MinMax
  <2> QED
    BY <1>1, <2>4 DEF Adjacent
<1> QED
  BY <1>2, <1>3, <1>4

LEMMA VisitRight ==
  ASSUME Connected(input.graph), ToSet(input.house) \subseteq Vertex(input.graph),
         Sparse(input.graph, ToSet(input.house)), NEW v0 \in Vertex(input.graph),
         NEW i \in Nat, i < Len(input.graph), NEW st, VisitsRight(v0, st, i)
  PROVE  VisitsRight(v0, Visit(st, i), i + 1)
<1> DEFINE G == input.graph
           H == ToSet(input.house)
           a == st.search_array
           c == st.cycle_count
           d == st.distance
           m == st.met
           v == a[i + 1]
           near == HousesNextTo(v)
           h == G[v][Max(near)]
           isnew == near # {} /\ \A k \in 1 .. Len(m) : m[k].house # h
           b == Enqueue(a, v)
           total == st.total_count + Len(b) - Len(a)
           n == IF isnew THEN Append(m, [house |-> h, distance |-> d]) ELSE m
           e == IF i = c THEN d + 1 ELSE d
           r == Visit(st, i)
<1>1. /\ r.search_array = b /\ r.met = n /\ r.distance = e
      /\ r.cycle_count = (IF i = c THEN c + total ELSE c)
      /\ r.total_count = (IF i = c THEN 0 ELSE total)
  BY DEF Visit, LevelEnds
<1>2. /\ ArrayRight(G, v0, a, c, d, i) /\ MetRight(G, H, v0, a, m, d, i)
      /\ st.total_count = Len(a) - (c + 1)
  BY DEF VisitsRight
<1> HIDE DEF r
<1>3. /\ a \in Seq(Vertex(G)) /\ Distinct(a) /\ Len(a) \in Nat /\ c \in Nat /\ d \in Nat
      /\ i + 1 \in 1 .. Len(a) /\ Len(G) \in Nat
  <2>1. Len(G) \in Nat
    BY GraphTypes
  <2>2. a \in Seq(Vertex(G)) /\ Distinct(a) /\ c \in Nat /\ d \in Nat /\ i =< c /\ c < Len(a)
    BY <1>2 DEF ArrayRight
  <2>3. Len(a) \in Nat
    BY <2>2, LenProperties
  <2> QED
    BY <2>1, <2>2, <2>3
<1>4. v \in Vertex(G)
  BY <1>3, ElementOfSeq
<1>5. QueueRight(G, a, v, b, Len(G[v]))
  BY <1>3, <1>4, EnqueueRight
<1> HIDE DEF b
<1>6. /\ Far(G, v0, v) = d /\ Len(b) \in Nat
      /\ i # c => ArrayRight(G, v0, b, c, d, i + 1)
      /\ i = c => ArrayRight(G, v0, b, Len(b) - 1, d + 1, i + 1)
  BY <1>2, <1>5, ArrayStep, SMTT(40)
<1>7. ArrayRight(G, v0, r.search_array, r.cycle_count, r.distance, i + 1)
      /\ r.total_count = Len(r.search_array) - (r.cycle_count + 1)
  <2>1. CASE i = c
    <3>1. c + total = Len(b) - 1 /\ 0 = Len(b) - ((Len(b) - 1) + 1)
      BY <1>2, <1>3, <1>6
    <3> HIDE DEF total
    <3> QED
      BY <1>1, <1>6, <2>1, <3>1
  <2>2. CASE i # c
    <3>1. total = Len(b) - (c + 1)
      BY <1>2, <1>3, <1>6, SMTT(40)
    <3> HIDE DEF total
    <3> QED
      BY <1>1, <1>6, <2>2, <3>1
  <2> QED
    BY <2>1, <2>2
<1>8. \A k \in 1 .. i + 1 : b[k] = a[k]
  BY <1>3, <1>5 DEF QueueRight
<1>9. e \in {d, d + 1}
  OBVIOUS
<1>10. /\ near = {} => Adjacent(G, v) \cap H = {}
       /\ near # {} => h \in Adjacent(G, v) \cap H /\ \A w \in Adjacent(G, v) \cap H : w = h
  BY <1>4, HouseField
<1> HIDE DEF near, h, e
<1>11. \/ /\ n = m
          /\ \A w \in Adjacent(G, v) \cap H : \E k \in 1 .. Len(m) : m[k].house = w
       \/ \E x \in Adjacent(G, v) \cap H :
             /\ n = Append(m, [house |-> x, distance |-> d])
             /\ \A k \in 1 .. Len(m) : m[k].house # x
             /\ \A w \in Adjacent(G, v) \cap H : w = x
  <2>1. CASE isnew
    BY <1>10, <2>1
  <2>2. CASE ~isnew
    BY <1>10, <2>2
  <2> QED
    BY <2>1, <2>2
<1> HIDE DEF n
<1>12. MetRight(G, H, v0, b, n, e, i + 1)
  <2>1. H \in SUBSET Vertex(G) /\ Connected(G) /\ v0 \in Vertex(G) /\ i < Len(G)
    OBVIOUS
  <2>2. a[i + 1] \in Vertex(G) /\ Far(G, v0, a[i + 1]) = d
    BY <1>4, <1>6
  <2>3. \/ /\ n = m
           /\ \A w \in Adjacent(G, a[i + 1]) \cap H : \E k \in 1 .. Len(m) : m[k].house = w
        \/ \E x \in Adjacent(G, a[i + 1]) \cap H :
              /\ n = Append(m, [house |-> x, distance |-> d])
              /\ \A k \in 1 .. Len(m) : m[k].house # x
              /\ \A w \in Adjacent(G, a[i + 1]) \cap H : w = x
    BY <1>11
  <2> HIDE DEF G, H, a, c, d, m, v
  <2>4. VisitStep(G, H, v0, a, c, d, m, i, b, n, e)
    BY <1>2, <1>8, <1>9, <2>1, <2>2, <2>3 DEF VisitStep
  <2> QED
    BY <2>4, MetStep
<1> QED
  BY <1>1, <1>7, <1>12 DEF VisitsRight, r

\* A walk before its first visit.
Start(v0) ==
    [search_array |-> <<v0>>, met |-> <<>>, cycle_count |-> 0, total_count |-> 0, distance |-> 0]

LEMMA StartRight ==
  ASSUME Connected(input.graph), NEW v0 \in Vertex(input.graph)
  PROVE  VisitsRight(v0, Start(v0), 0)
<1> DEFINE G == input.graph
           a == <<v0>>
<1>1. Far(G, v0, v0) = 0 /\ \A w \in Vertex(G) : Far(G, v0, w) =< 0 => w = v0
  <2>1. \A w \in Vertex(G) : Far(G, v0, w) \in Nat /\ (Far(G, v0, w) = 0 <=> v0 = w)
    BY FarPath, FarMetric
  <2> QED
    BY <2>1
<1>2. a \in Seq(Vertex(G)) /\ Len(a) = 1 /\ a[1] = v0
  OBVIOUS
<1> HIDE DEF a
<1>3. ArrayRight(G, v0, a, 0, 0, 0)
  <2>1. \A k \in 1 .. Len(a) : k = 1
    BY <1>2
  <2>2. Distinct(a)
    BY <2>1 DEF Distinct
  <2>3. \A k \in 1 .. Len(a) : Far(G, v0, a[k]) = 0
    BY <1>1, <1>2, <2>1
  <2>4. \A k \in 1 .. Len(a) :
          /\ k =< 0 + 1 => Far(G, v0, a[k]) =< 0
          /\ k > 0 + 1 => Far(G, v0, a[k]) = 0 + 1
          /\ k > 0 => Far(G, v0, a[k]) >= 0
          /\ Far(G, v0, a[k]) < k
    BY <2>1, <2>3
  <2>5. \A w \in Vertex(G) : Far(G, v0, w) =< 0 => \E k \in 1 .. Len(a) : a[k] = w
    BY <1>1, <1>2
  <2> QED
    BY <1>2, <2>2, <2>4, <2>5 DEF ArrayRight
<1>4. MetRight(G, ToSet(input.house), v0, a, <<>>, 0, 0)
  BY DEF MetRight
<1> QED
  BY <1>2, <1>3, <1>4 DEF VisitsRight, Start, a

\* f has the states of the walk from v0 up to n visits.
IsVisits(f, v0, n) == f = [i \in 0 .. n |-> IF i = 0 THEN Start(v0) ELSE Visit(f[i - 1], i - 1)]

LEMMA VisitsExist ==
  ASSUME NEW v0, NEW n \in Nat
  PROVE  \E f : IsVisits(f, v0, n)
<1> DEFINE S == {m \in Nat : \E f : IsVisits(f, v0, m)}
<1>1. 0 \in S
  <2> DEFINE f == [k \in 0 .. 0 |-> Start(v0)]
  <2>1. IsVisits(f, v0, 0)
    BY DEF IsVisits
  <2> QED
    BY <2>1
<1>2. ASSUME NEW m \in Nat, m \in S
      PROVE  m + 1 \in S
  <2>1. PICK f : IsVisits(f, v0, m)
    BY <1>2
  <2> DEFINE x == [k \in 0 .. m + 1 |-> IF k =< m THEN f[k] ELSE Visit(f[m], m)]
  <2>2. \A k \in 0 .. m : x[k] = f[k]
    OBVIOUS
  <2>3. \A k \in 0 .. m + 1 : x[k] = IF k = 0 THEN Start(v0) ELSE Visit(x[k - 1], k - 1)
    <3> SUFFICES ASSUME NEW k \in 0 .. m + 1
                 PROVE  x[k] = IF k = 0 THEN Start(v0) ELSE Visit(x[k - 1], k - 1)
      OBVIOUS
    <3>0. \A i \in 0 .. m : f[i] = IF i = 0 THEN Start(v0) ELSE Visit(f[i - 1], i - 1)
      BY <2>1, Zenon DEF IsVisits
    <3>1. CASE k = 0
      BY <3>0, <3>1
    <3>2. CASE k \in 1 .. m
      <4>1. f[k] = Visit(f[k - 1], k - 1)
        <5>1. k \in 0 .. m /\ k # 0
          BY <3>2
        <5> QED
          BY <3>0, <5>1
      <4>2. x[k] = f[k] /\ x[k - 1] = f[k - 1]
        BY <2>2, <3>2
      <4> HIDE DEF x
      <4> QED
        BY <3>2, <4>1, <4>2
    <3>3. CASE k = m + 1
      <4>1. x[k] = Visit(f[m], m) /\ x[m] = f[m] /\ k - 1 = m
        BY <3>3
      <4> HIDE DEF x
      <4> QED
        BY <3>3, <4>1
    <3> QED
      BY <3>1, <3>2, <3>3
  <2>4. IsVisits(x, v0, m + 1)
    <3>1. x = [k \in 0 .. m + 1 |-> x[k]]
      OBVIOUS
    <3> HIDE DEF x
    <3> QED
      BY <2>3, <3>1 DEF IsVisits
  <2> QED
    BY <2>4
<1> HIDE DEF S
<1>3. Nat \subseteq S
  BY <1>1, <1>2, Induction
<1> QED
  BY <1>3 DEF S

\* The whole walk.
LEMMA WalkVisits ==
  ASSUME Connected(input.graph), ToSet(input.house) \subseteq Vertex(input.graph),
         Sparse(input.graph, ToSet(input.house)), NEW s, house(s) \in Vertex(input.graph)
  PROVE  \E st : VisitsRight(house(s), st, Len(input.graph)) /\ Walk(s) = st.met
<1> DEFINE n == Len(input.graph)
           v0 == house(s)
           f == CHOOSE f : IsVisits(f, v0, n)
           S == {i \in Nat : i =< n => VisitsRight(v0, f[i], i)}
<1>1. n \in Nat
  BY GraphTypes
<1>2. \E g : IsVisits(g, v0, n)
  BY <1>1, VisitsExist
<1>3. IsVisits(f, v0, n)
  BY <1>2
<1>4. Walk(s) = f[n].met
  BY DEF Walk, IsVisits, Start
<1> HIDE DEF f
<1>5. \A i \in 0 .. n : f[i] = IF i = 0 THEN Start(v0) ELSE Visit(f[i - 1], i - 1)
  BY <1>3, Zenon DEF IsVisits
<1>6. 0 \in S
  <2>1. f[0] = Start(v0)
    BY <1>1, <1>5
  <2>2. VisitsRight(v0, Start(v0), 0)
    BY StartRight
  <2> QED
    BY <2>1, <2>2
<1>7. ASSUME NEW i \in Nat, i \in S, i + 1 =< n
      PROVE  VisitsRight(v0, f[i + 1], i + 1)
  <2>1. i + 1 \in 0 .. n /\ i + 1 # 0 /\ (i + 1) - 1 = i /\ i =< n /\ i < n
    BY <1>1, <1>7
  <2>2. f[i + 1] = Visit(f[i], i)
    BY <1>5, <2>1
  <2>3. VisitsRight(v0, f[i], i)
    BY <1>7, <2>1
  <2>4. VisitsRight(v0, Visit(f[i], i), i + 1)
    BY <2>1, <2>3, VisitRight
  <2> QED
    BY <2>2, <2>4
<1>8. \A i \in Nat : i \in S => i + 1 \in S
  <2>1. \A i \in Nat : i \in S => (i + 1 =< n => VisitsRight(v0, f[i + 1], i + 1))
    BY <1>7
  <2> QED
    BY <2>1
<1>9. Nat \subseteq S
  <2> HIDE DEF S
  <2> QED
    BY <1>6, <1>8, Induction
<1>10. VisitsRight(v0, f[n], n)
  BY <1>1, <1>9
<1> QED
  BY <1>4, <1>10

\* The walk has visited every vertex at the end, so no distance is greater.
LEMMA AllVisited ==
  ASSUME NEW G, Connected(G), NEW v0 \in Vertex(G), NEW a, NEW c, NEW d,
         ArrayRight(G, v0, a, c, d, Len(G)), NEW w \in Vertex(G)
  PROVE  /\ \E k \in 1 .. Len(G) : a[k] = w
         /\ Far(G, v0, w) =< Len(G)
<1>1. a \in Seq(1 .. Len(G)) /\ Distinct(a) /\ Len(G) \in Nat /\ Len(a) \in Nat
      /\ Len(G) =< Len(a)
  BY GraphTypes DEF ArrayRight, Vertex
<1>2. Len(a) =< Len(G)
  BY <1>1, Counting
<1>3. Len(a) = Len(G)
  BY <1>1, <1>2
<1>4. \A x \in 1 .. Len(G) : \E k \in 1 .. Len(a) : a[k] = x
  BY <1>1, <1>3, Counting
<1>5. PICK k \in 1 .. Len(a) : a[k] = w
  BY <1>4 DEF Vertex
<1>6. Far(G, v0, w) < k /\ Far(G, v0, w) \in Nat
  BY <1>5, FarPath DEF ArrayRight
<1> QED
  BY <1>1, <1>3, <1>5, <1>6

\* Houses without common neighbours that are not neighbours are three steps apart.
LEMMA ThreeApart ==
  ASSUME NEW G, Connected(G), NEW x \in Vertex(G), NEW y \in Vertex(G), x # y,
         x \notin Adjacent(G, y), Adjacent(G, x) \cap Adjacent(G, y) = {}
  PROVE  Far(G, x, y) >= 3
<1>1. \A w \in Vertex(G) : Far(G, x, w) \in Nat /\ (Far(G, x, w) = 0 <=> x = w)
  BY FarPath, FarMetric
<1>2. \A w \in Vertex(G) : Far(G, x, w) > 0 =>
        \E u \in Vertex(G) : w \in Adjacent(G, u) /\ Far(G, x, u) = Far(G, x, w) - 1
  BY FarMetric
<1>3. \A u, w \in Vertex(G) : w \in Adjacent(G, u) => u \in Adjacent(G, w)
  BY GraphTypes
<1>4. \A w \in Vertex(G) : Far(G, x, w) = 1 => w \in Adjacent(G, x)
  <2> SUFFICES ASSUME NEW w \in Vertex(G), Far(G, x, w) = 1 PROVE w \in Adjacent(G, x)
    OBVIOUS
  <2>1. PICK u \in Vertex(G) : w \in Adjacent(G, u) /\ Far(G, x, u) = Far(G, x, w) - 1
    BY <1>2
  <2>2. Far(G, x, u) = 0
    BY <2>1
  <2> QED
    BY <1>1, <2>1, <2>2
<1>5. Far(G, x, y) # 0 /\ Far(G, x, y) # 1
  BY <1>1, <1>3, <1>4
<1>6. Far(G, x, y) # 2
  <2> SUFFICES ASSUME Far(G, x, y) = 2 PROVE FALSE
    OBVIOUS
  <2>1. PICK u \in Vertex(G) : y \in Adjacent(G, u) /\ Far(G, x, u) = Far(G, x, y) - 1
    BY <1>2
  <2>2. Far(G, x, u) = 1
    BY <2>1
  <2>3. u \in Adjacent(G, x) /\ u \in Adjacent(G, y)
    BY <1>3, <1>4, <2>1, <2>2
  <2> QED
    BY <2>3
<1>7. Far(G, x, y) \in Nat
  BY <1>1
<1> QED
  BY <1>5, <1>6, <1>7

\* What the program presupposes of its input makes its walks right.
LEMMA WalksAreRight ==
  ASSUME Init, Presupposed(input)
  PROVE  WalksRight
<1> DEFINE G == input.graph
           hs == input.house
           H == ToSet(hs)
<1>1. /\ Connected(G) /\ hs \in Seq(Vertex(G)) /\ Len(hs) \in Nat /\ Len(hs) >= 3
      /\ Len(G) \in Nat
  BY GraphTypes, InputAssumption DEF Init, InputInit, Presupposed, Vertex
<1>2. \A j \in Index(hs) : j + 1 \in 1 .. Len(hs) /\ hs[j + 1] \in Vertex(G) /\ hs[j + 1] \in H
  <2>1. \A j \in Index(hs) : j + 1 \in 1 .. Len(hs)
    BY <1>1 DEF Index
  <2>2. \A k \in 1 .. Len(hs) : hs[k] \in Vertex(G)
    BY <1>1, ElementOfSeq
  <2>3. H = {hs[k] : k \in 1 .. Len(hs)}
    BY <1>1 DEF ToSet
  <2> QED
    BY <2>1, <2>2, <2>3
<1>3. \A x \in H : \E j \in Index(hs) : x = hs[j + 1]
  <2>1. H = {hs[k] : k \in 1 .. Len(hs)}
    BY <1>1 DEF ToSet
  <2>2. \A k \in 1 .. Len(hs) : k - 1 \in Index(hs) /\ (k - 1) + 1 = k
    BY <1>1 DEF Index
  <2> QED
    BY <2>1, <2>2
<1>4. ASSUME NEW i \in Index(hs), NEW j \in Index(hs), i # j
      PROVE  /\ hs[i + 1] # hs[j + 1] /\ hs[i + 1] \notin Adjacent(G, hs[j + 1])
             /\ Adjacent(G, hs[i + 1]) \cap Adjacent(G, hs[j + 1]) = {}
  <2>1. i + 1 \in DOMAIN hs /\ j + 1 \in DOMAIN hs /\ i + 1 # j + 1
    BY <1>1, <1>2, <1>4 DEF Index
  <2>2. ToSet(G[hs[i + 1]]) = Adjacent(G, hs[i + 1]) /\ ToSet(G[hs[j + 1]]) = Adjacent(G, hs[j + 1])
    BY <1>1, <1>2, GraphTypes
  <2>3. /\ hs[i + 1] # hs[j + 1] /\ hs[i + 1] \notin ToSet(G[hs[j + 1]])
        /\ ToSet(G[hs[i + 1]]) \cap ToSet(G[hs[j + 1]]) = {}
    BY <2>1 DEF Presupposed
  <2> QED
    BY <2>2, <2>3
<1>5. Sparse(G, H) /\ H \subseteq Vertex(G)
  <2>1. ASSUME NEW x \in H, NEW y \in H, x # y
        PROVE  Adjacent(G, x) \cap Adjacent(G, y) = {}
    <3>1. PICK i \in Index(hs) : x = hs[i + 1]
      BY <1>3
    <3>2. PICK j \in Index(hs) : y = hs[j + 1]
      BY <1>3
    <3> QED
      BY <1>4, <2>1, <3>1, <3>2
  <2>2. H \subseteq Vertex(G)
    BY <1>2, <1>3
  <2> QED
    BY <2>1, <2>2 DEF Sparse
<1> HIDE DEF H
<1>6. ASSUME NEW s \in Index(hs)
      PROVE  \E st : /\ VisitsRight(hs[s + 1], st, Len(G)) /\ met[s] = st.met
                     /\ ArrayRight(G, hs[s + 1], st.search_array, st.cycle_count, st.distance,
                                   Len(G))
                     /\ MetRight(G, H, hs[s + 1], st.search_array, st.met, st.distance, Len(G))
  <2>1. house(s) = hs[s + 1] /\ house(s) \in Vertex(G)
    BY <1>2 DEF house
  <2>2. PICK st : VisitsRight(house(s), st, Len(G)) /\ Walk(s) = st.met
    BY <1>1, <1>5, <2>1, WalkVisits DEF H
  <2>3. met[s] = Walk(s)
    BY DEF Init, HouseIndex, house_num, Index
  <2> QED
    BY <2>1, <2>2, <2>3 DEF VisitsRight, H
<1>7. ASSUME NEW i \in Index(hs), NEW j \in Index(hs)
      PROVE  apart[<<i, j>>] = Far(G, hs[i + 1], hs[j + 1])
  <2>1. PICK st : ArrayRight(G, hs[i + 1], st.search_array, st.cycle_count, st.distance, Len(G))
    BY <1>6
  <2>2. Far(G, hs[i + 1], hs[j + 1]) =< Len(G)
    BY <1>1, <1>2, <2>1, AllVisited
  <2>3. Distance(hs[i + 1], hs[j + 1]) = Far(G, hs[i + 1], hs[j + 1])
    BY <1>1, <1>2, <2>2, DistanceIsFar
  <2>4. apart[<<i, j>>] = Distance(house(i), house(j))
    <3>1. <<i, j>> \in HouseIndex \X HouseIndex
      BY DEF HouseIndex, house_num, Index
    <3> QED
      BY <3>1 DEF Init, InputInit
  <2> QED
    BY <2>3, <2>4 DEF house
<1>8. apart \in [Index(hs) \X Index(hs) -> Nat]
  <2>1. apart = [p \in Index(hs) \X Index(hs) |-> apart[p]]
    BY DEF Init, InputInit, HouseIndex, house_num, Index
  <2>2. ASSUME NEW p \in Index(hs) \X Index(hs) PROVE apart[p] \in Nat
    <3>1. PICK i, j \in Index(hs) : p = <<i, j>>
      OBVIOUS
    <3>2. Far(G, hs[i + 1], hs[j + 1]) \in Nat
      BY <1>1, <1>2, FarPath
    <3> QED
      BY <1>7, <3>1, <3>2
  <2> QED
    BY <2>1, <2>2
<1>9. \A i, j \in Index(hs) : hs[i + 1] = hs[j + 1] => i = j
  BY <1>4
<1>10. \A i, j \in Index(hs) : apart[<<i, j>>] = apart[<<j, i>>]
  <2> SUFFICES ASSUME NEW i \in Index(hs), NEW j \in Index(hs)
               PROVE  apart[<<i, j>>] = apart[<<j, i>>]
    OBVIOUS
  <2>1. Far(G, hs[i + 1], hs[j + 1]) = Far(G, hs[j + 1], hs[i + 1])
    BY <1>1, <1>2, FarMetric
  <2> QED
    BY <1>7, <2>1
<1>11. \A i, j \in Index(hs) : i # j => apart[<<i, j>>] >= 3
  <2> SUFFICES ASSUME NEW i \in Index(hs), NEW j \in Index(hs), i # j
               PROVE  apart[<<i, j>>] >= 3
    OBVIOUS
  <2>1. hs[i + 1] \in Vertex(G) /\ hs[j + 1] \in Vertex(G)
    BY <1>2
  <2>2. Far(G, hs[i + 1], hs[j + 1]) >= 3
    BY <1>1, <1>4, <2>1, ThreeApart
  <2> QED
    BY <1>7, <2>2
<1>12. \A i, j, k \in Index(hs) : apart[<<i, k>>] =< apart[<<i, j>>] + apart[<<j, k>>]
  <2> SUFFICES ASSUME NEW i \in Index(hs), NEW j \in Index(hs), NEW k \in Index(hs)
               PROVE  apart[<<i, k>>] =< apart[<<i, j>>] + apart[<<j, k>>]
    OBVIOUS
  <2>1. \A u \in Vertex(G) : Far(G, hs[i + 1], hs[k + 1]) =<
                                Far(G, hs[i + 1], u) + Far(G, u, hs[k + 1])
    BY <1>1, <1>2, FarMetric
  <2>2. Far(G, hs[i + 1], hs[k + 1]) =< Far(G, hs[i + 1], hs[j + 1]) + Far(G, hs[j + 1], hs[k + 1])
    BY <1>2, <2>1
  <2> QED
    BY <1>7, <2>2
<1>13. ASSUME NEW s \in Index(hs)
       PROVE  WalkRight(hs, apart, met[s], s)
  <2> DEFINE m == met[s]
             v0 == hs[s + 1]
  <2>1. PICK st : /\ met[s] = st.met
                  /\ ArrayRight(G, v0, st.search_array, st.cycle_count, st.distance, Len(G))
                  /\ MetRight(G, H, v0, st.search_array, st.met, st.distance, Len(G))
    BY <1>6
  <2>2. v0 \in Vertex(G)
    BY <1>2
  <2>3. MetRight(G, H, v0, st.search_array, m, st.distance, Len(G))
    BY <2>1
  <2> HIDE DEF m, v0
  <2>4. /\ m \in Seq([house : Vertex(G), distance : Nat])
        /\ \A k \in 1 .. Len(m) :
              /\ m[k].house \in H
              /\ m[k].house # v0 => m[k].distance + 1 = Far(G, v0, m[k].house)
              /\ m[k].house = v0 => m[k].distance =< 1
        /\ \A k, l \in 1 .. Len(m) : m[k].house = m[l].house => k = l
        /\ \A k, l \in 1 .. Len(m) : k =< l => m[k].distance =< m[l].distance
    BY <2>3 DEF MetRight
  <2>5. \A j \in Index(hs) \ {s} : hs[j + 1] # v0
    BY <1>4 DEF v0
  <2>6. \A k \in 1 .. Len(m) : \A j \in Index(hs) \ {s} :
           m[k].house = hs[j + 1] => m[k].distance + 1 = apart[<<s, j>>]
    BY <1>7, <2>4, <2>5 DEF v0
  <2>7. Len(m) \in Nat /\ \A k \in 1 .. Len(m) : m[k] \in [house : Vertex(G), distance : Nat]
    <3>1. PICK T : T = [house : Vertex(G), distance : Nat]
      OBVIOUS
    <3>2. m \in Seq(T)
      BY <2>4, <3>1
    <3>3. Len(m) \in Nat /\ \A k \in 1 .. Len(m) : m[k] \in T
      BY <3>2, ElementOfSeq
    <3> QED
      BY <3>1, <3>3
  <2>8. \A k \in 1 .. Len(m) :
           m[k].distance > 1 => \E j \in Index(hs) \ {s} : m[k].house = hs[j + 1]
    <3> SUFFICES ASSUME NEW k \in 1 .. Len(m), m[k].distance > 1
                 PROVE  \E j \in Index(hs) \ {s} : m[k].house = hs[j + 1]
      OBVIOUS
    <3>1. m[k].distance \in Nat /\ m[k].house # v0
      BY <2>4, <2>7
    <3>2. PICK j \in Index(hs) : m[k].house = hs[j + 1]
      BY <1>3, <2>4
    <3>3. j # s
      BY <3>1, <3>2 DEF v0
    <3> QED
      BY <3>2, <3>3
  <2>9. ASSUME NEW j \in Index(hs) \ {s}
        PROVE  \E k \in 1 .. Len(m) : m[k].house = hs[j + 1]
    <3> DEFINE w == hs[j + 1]
    <3>1. w \in Vertex(G) /\ w \in H /\ w # v0
      BY <1>2, <2>5
    <3> HIDE DEF w
    <3>2. Far(G, v0, w) > 0
      <4>1. Far(G, v0, w) \in Nat /\ (Far(G, v0, w) = 0 <=> v0 = w)
        BY <1>1, <2>2, <3>1, FarPath, FarMetric
      <4> QED
        BY <3>1, <4>1
    <3>3. PICK u \in Vertex(G) : w \in Adjacent(G, u)
      BY <1>1, <2>2, <3>1, <3>2, FarMetric
    <3>4. PICK k \in 1 .. Len(G) : st.search_array[k] = u
      BY <1>1, <2>1, <2>2, AllVisited
    <3>5. w \in Adjacent(G, st.search_array[k]) \cap H
      BY <3>1, <3>3, <3>4
    <3>6. \E l \in 1 .. Len(m) : m[l].house = w
      BY <2>3, <3>4, <3>5 DEF MetRight
    <3> QED
      BY <3>6 DEF w
  <2>10. Len(m) > 0
    <3>1. \E j \in Index(hs) : j # s
      <4>1. 0 \in Index(hs) /\ 1 \in Index(hs)
        BY <1>1 DEF Index
      <4> QED
        BY <4>1
    <3>2. PICK k \in 1 .. Len(m) : TRUE
      BY <2>9, <3>1
    <3> QED
      BY <2>7, <3>2
  <2>11. m \in Seq([house : Nat, distance : Nat])
    <3>1. Vertex(G) \subseteq Nat
      BY <1>1 DEF Vertex
    <3>2. [house : Vertex(G), distance : Nat] \subseteq [house : Nat, distance : Nat]
      BY <3>1
    <3>3. \A T, U : T \subseteq U /\ m \in Seq(T) => m \in Seq(U)
      OBVIOUS
    <3> QED
      BY <2>4, <3>2, <3>3, Zenon
  <2>12. WalkRight(hs, apart, m, s)
    BY <2>4, <2>6, <2>8, <2>9, <2>10, <2>11 DEF WalkRight
  <2> QED
    BY <2>12 DEF m
<1> QED
  BY <1>1, <1>8, <1>9, <1>10, <1>11, <1>12, <1>13 DEF WalksRight, AllRight

----------------------------------------------------------------------------
(* What a walk that is right tells the search.                             *)

LEMMA Types ==
  ASSUME NEW hs, NEW D, NEW M, AllRight(hs, D, M), NEW s \in Index(hs), NEW m, m = M[s]
  PROVE  /\ Len(hs) \in Nat /\ Len(hs) >= 3 /\ s \in Nat /\ s < Len(hs)
         /\ Len(m) \in Nat /\ Len(m) > 0
         /\ \A k \in 1 .. Len(m) : m[k].distance \in Nat
         /\ \A j \in Index(hs) : D[<<s, j>>] \in Nat
         /\ Behind(hs, s) \subseteq Index(hs) \ {s}
         /\ WalkRight(hs, D, m, s)
<1>1. Len(hs) \in Nat /\ Len(hs) >= 3 /\ WalkRight(hs, D, m, s)
  BY DEF AllRight
<1>2. s \in Nat /\ s < Len(hs)
  BY <1>1 DEF Index
<1>3. m \in Seq([house : Nat, distance : Nat]) /\ Len(m) > 0
  BY <1>1 DEF WalkRight
<1>4. Len(m) \in Nat /\ \A k \in 1 .. Len(m) : m[k] \in [house : Nat, distance : Nat]
  BY <1>3, LenProperties, ElementOfSeq
<1>5. \A j \in Index(hs) : D[<<s, j>>] \in Nat
  BY DEF AllRight
<1>6. Behind(hs, s) \subseteq Index(hs) \ {s}
  BY <1>1, <1>2 DEF Behind, Index
<1> QED
  BY <1>1, <1>2, <1>3, <1>4, <1>5, <1>6

\* In the walk m from s another house is far, and what is far is another house.
FarRight(hs, D, m, s) ==
    /\ \A k \in 1 .. Len(m) : \A j \in Index(hs) \ {s} : m[k].house = hs[j + 1] =>
          m[k].distance + 1 = D[<<s, j>>] /\ m[k].distance > 1
    /\ \A k \in 1 .. Len(m) : m[k].distance > 1 =>
          \E j \in Index(hs) \ {s} : m[k].distance + 1 = D[<<s, j>>]

LEMMA FarHouses ==
  ASSUME NEW hs, NEW D, NEW M, AllRight(hs, D, M), NEW s \in Index(hs), NEW m, m = M[s]
  PROVE  FarRight(hs, D, m, s)
<1>1. WalkRight(hs, D, m, s) /\ \A k \in 1 .. Len(m) : m[k].distance \in Nat
  BY Types
<1>2. \A j \in Index(hs) \ {s} : D[<<s, j>>] >= 3
  BY DEF AllRight
<1>3. ASSUME NEW k \in 1 .. Len(m), NEW j \in Index(hs) \ {s}, m[k].house = hs[j + 1]
      PROVE  m[k].distance + 1 = D[<<s, j>>] /\ m[k].distance > 1
  <2>1. m[k].distance + 1 = D[<<s, j>>]
    BY <1>1, <1>3 DEF WalkRight
  <2>2. D[<<s, j>>] >= 3 /\ m[k].distance \in Nat
    BY <1>1, <1>2
  <2> QED
    BY <2>1, <2>2
<1>4. ASSUME NEW k \in 1 .. Len(m), m[k].distance > 1
      PROVE  \E j \in Index(hs) \ {s} : m[k].distance + 1 = D[<<s, j>>]
  <2>1. PICK j \in Index(hs) \ {s} : m[k].house = hs[j + 1]
    BY <1>1, <1>4 DEF WalkRight
  <2> QED
    BY <1>3, <2>1
<1> QED
  BY <1>3, <1>4 DEF FarRight

\* The first far house is the nearest one.
LEMMA NearestFound ==
  ASSUME NEW hs, NEW D, NEW M, AllRight(hs, D, M), NEW s \in Index(hs), NEW m, m = M[s],
         NEW f, FirstFar(m, f)
  PROVE  IsNearest(hs, D, s, m[f].distance + 1)
<1>1. /\ WalkRight(hs, D, m, s) /\ Len(m) \in Nat
      /\ \A k \in 1 .. Len(m) : m[k].distance \in Nat
  BY Types
<1>0. /\ \A k \in 1 .. Len(m) : \A j \in Index(hs) \ {s} : m[k].house = hs[j + 1] =>
            m[k].distance + 1 = D[<<s, j>>] /\ m[k].distance > 1
      /\ \A k \in 1 .. Len(m) : m[k].distance > 1 =>
            \E j \in Index(hs) \ {s} : m[k].distance + 1 = D[<<s, j>>]
  <2>1. FarRight(hs, D, m, s)
    BY FarHouses
  <2> QED
    BY <2>1 DEF FarRight
<1>2. f \in 1 .. Len(m) /\ m[f].distance > 1
  BY DEF FirstFar
<1>3. \E j \in Index(hs) \ {s} : m[f].distance + 1 = D[<<s, j>>]
  BY <1>0, <1>2
<1>4. ASSUME NEW j \in Index(hs) \ {s}
      PROVE  m[f].distance + 1 =< D[<<s, j>>]
  <2>1. PICK k \in 1 .. Len(m) : m[k].house = hs[j + 1]
    BY <1>1 DEF WalkRight
  <2>2. m[k].distance + 1 = D[<<s, j>>] /\ m[k].distance > 1
    BY <1>0, <2>1
  <2>3. ~ (k \in 1 .. f - 1)
    BY <1>1, <2>1, <2>2 DEF FirstFar
  <2>4. f =< k
    BY <1>1, <1>2, <2>1, <2>3
  <2>5. m[f].distance =< m[k].distance
    BY <1>1, <1>2, <2>1, <2>4 DEF WalkRight
  <2>6. m[f].distance \in Nat /\ m[k].distance \in Nat
    BY <1>1, <1>2, <2>1
  <2> QED
    BY <2>2, <2>5, <2>6, SMTT(40)
<1> QED
  BY <1>3, <1>4 DEF IsNearest

\* When all houses behind s are seen, the last one met is not nearer than any of
\* them, or there is only one.
LEMMA AllSeen ==
  ASSUME NEW hs, NEW D, NEW M, AllRight(hs, D, M), NEW s \in Index(hs), NEW m, m = M[s],
         NEW k \in 0 .. Len(m), Seen(hs, m, s, k) = Behind(hs, s),
         NEW f \in 1 .. k, FirstFar(m, f)
  PROVE  /\ k # f => \A j \in Behind(hs, s) : D[<<s, j>>] =< m[k].distance + 1
         /\ k = f /\ s =< Len(hs) - 2 => s = Len(hs) - 2 /\ m[f].distance + 1 = D[<<s, s + 1>>]
<1>1. /\ WalkRight(hs, D, m, s) /\ Len(m) \in Nat /\ Len(hs) \in Nat /\ s \in Nat
      /\ \A i \in 1 .. Len(m) : m[i].distance \in Nat
      /\ Behind(hs, s) \subseteq Index(hs) \ {s}
  BY Types
<1>0. /\ \A i \in 1 .. Len(m) : \A j \in Index(hs) \ {s} : m[i].house = hs[j + 1] =>
            m[i].distance + 1 = D[<<s, j>>] /\ m[i].distance > 1
      /\ \A i \in 1 .. Len(m) : m[i].distance > 1 =>
            \E j \in Index(hs) \ {s} : m[i].distance + 1 = D[<<s, j>>]
  <2>1. FarRight(hs, D, m, s)
    BY FarHouses
  <2> QED
    BY <2>1 DEF FarRight
<1>2. k \in 1 .. Len(m) /\ f \in 1 .. Len(m) /\ k \in Nat /\ f \in Nat
  BY <1>1
<1>3. ASSUME NEW j \in Behind(hs, s)
      PROVE  \E i \in 1 .. k : /\ m[i].house = hs[j + 1] /\ m[i].distance + 1 = D[<<s, j>>]
                               /\ f =< i /\ i \in 1 .. Len(m)
  <2>1. j \in Seen(hs, m, s, k)
    OBVIOUS
  <2>2. PICK i \in 1 .. k : m[i].house = hs[j + 1]
    BY <2>1 DEF Seen
  <2>3. i \in 1 .. Len(m)
    BY <1>1, <1>2
  <2>4. m[i].distance + 1 = D[<<s, j>>] /\ m[i].distance > 1
    BY <1>0, <1>1, <2>2, <2>3
  <2>5. ~ (i \in 1 .. f - 1)
    <3>1. m[i].distance \in Nat /\ ~ (m[i].distance =< 1)
      BY <1>1, <2>3, <2>4
    <3>2. \A n \in 1 .. f - 1 : m[n].distance =< 1
      BY DEF FirstFar
    <3> QED
      BY <3>1, <3>2
  <2>6. f =< i
    BY <1>2, <2>5
  <2> QED
    BY <2>2, <2>3, <2>4, <2>6
<1>4. ASSUME NEW j \in Behind(hs, s)
      PROVE  D[<<s, j>>] =< m[k].distance + 1
  <2>1. PICK i \in 1 .. k : m[i].distance + 1 = D[<<s, j>>] /\ i \in 1 .. Len(m)
    BY <1>3
  <2>2. m[i].distance =< m[k].distance
    BY <1>1, <1>2, <2>1 DEF WalkRight
  <2> QED
    BY <1>1, <1>2, <2>1, <2>2, SMTT(40)
<1>5. ASSUME k = f, s =< Len(hs) - 2
      PROVE  s = Len(hs) - 2 /\ m[f].distance + 1 = D[<<s, s + 1>>]
  <2>1. s + 1 \in Behind(hs, s) /\ Len(hs) - 1 \in Behind(hs, s)
    BY <1>1, <1>5 DEF Behind
  <2>2. \A j \in Behind(hs, s) : m[f].house = hs[j + 1] /\ m[f].distance + 1 = D[<<s, j>>]
    <3> SUFFICES ASSUME NEW j \in Behind(hs, s)
                 PROVE  m[f].house = hs[j + 1] /\ m[f].distance + 1 = D[<<s, j>>]
      OBVIOUS
    <3>1. PICK i \in 1 .. k : /\ m[i].house = hs[j + 1] /\ m[i].distance + 1 = D[<<s, j>>]
                              /\ f =< i
      BY <1>3
    <3>2. i = f
      BY <1>2, <1>5, <3>1
    <3> QED
      BY <3>1, <3>2
  <2>3. hs[(s + 1) + 1] = hs[(Len(hs) - 1) + 1]
    <3>1. m[f].house = hs[(s + 1) + 1]
      BY <2>1, <2>2
    <3>2. m[f].house = hs[(Len(hs) - 1) + 1]
      BY <2>1, <2>2
    <3> QED
      BY <3>1, <3>2
  <2>4. s + 1 \in Index(hs) /\ Len(hs) - 1 \in Index(hs)
    BY <1>1, <2>1
  <2>5. s + 1 = Len(hs) - 1
    BY <2>3, <2>4 DEF AllRight
  <2> QED
    BY <1>1, <2>1, <2>2, <2>5
<1> QED
  BY <1>4, <1>5

\* Somebody behind s is seen only after the first far house.
LEMMA SeenFar ==
  ASSUME NEW hs, NEW D, NEW M, AllRight(hs, D, M), NEW s \in Index(hs), NEW m, m = M[s],
         NEW k \in 0 .. Len(m), Seen(hs, m, s, k) = Behind(hs, s), s =< Len(hs) - 2
  PROVE  \E i \in 1 .. k : m[i].distance > 1
<1>1. Len(m) \in Nat /\ Len(hs) \in Nat /\ s \in Nat /\ Behind(hs, s) \subseteq Index(hs) \ {s}
  BY Types
<1>2. s + 1 \in Behind(hs, s)
  BY <1>1 DEF Behind
<1>3. PICK i \in 1 .. k : m[i].house = hs[(s + 1) + 1]
  BY <1>2 DEF Seen
<1>4. i \in 1 .. Len(m) /\ s + 1 \in Index(hs) \ {s}
  BY <1>1, <1>2
<1>5. m[i].distance > 1
  <2>1. FarRight(hs, D, m, s)
    BY FarHouses
  <2> QED
    BY <1>3, <1>4, <2>1 DEF FarRight
<1> QED
  BY <1>5

\* The next house of the walk.
LEMMA SeenNext ==
  ASSUME NEW hs, NEW D, NEW M, AllRight(hs, D, M), NEW s \in Index(hs), NEW m, m = M[s],
         NEW k \in 0 .. Len(m), k < Len(m),
         NEW J, J = {j \in s + 1 .. Len(hs) - 1 : hs[j + 1] = m[k + 1].house}
  PROVE  /\ Cardinality(J) \in Nat
         /\ Cardinality(Seen(hs, m, s, k)) \in Nat
         /\ Cardinality(Seen(hs, m, s, k + 1)) = Cardinality(Seen(hs, m, s, k)) + Cardinality(J)
<1> DEFINE A == Seen(hs, m, s, k)
           B == Seen(hs, m, s, k + 1)
<1>1. Len(m) \in Nat /\ Len(hs) \in Nat /\ s \in Nat /\ WalkRight(hs, D, m, s)
  BY Types
<1>2. k \in Nat /\ k + 1 \in 1 .. Len(m) /\ 1 .. k + 1 = (1 .. k) \cup {k + 1}
  BY <1>1
<1>3. B = A \cup J
  BY <1>2 DEF Seen, Behind
<1>4. A \cap J = {}
  <2> SUFFICES ASSUME NEW j \in A, j \in J PROVE FALSE
    OBVIOUS
  <2>1. PICK i \in 1 .. k : m[i].house = hs[j + 1]
    BY DEF Seen
  <2>2. i \in 1 .. Len(m) /\ i # k + 1
    BY <1>1, <1>2
  <2>3. m[i].house = m[k + 1].house
    BY <2>1
  <2> QED
    BY <1>1, <1>2, <2>2, <2>3 DEF WalkRight
<1>5. IsFiniteSet(A) /\ IsFiniteSet(J)
  <2>1. IsFiniteSet(s + 1 .. Len(hs) - 1)
    BY <1>1, FS_Interval
  <2>2. A \subseteq s + 1 .. Len(hs) - 1 /\ J \subseteq s + 1 .. Len(hs) - 1
    BY DEF Seen, Behind
  <2> HIDE DEF A
  <2> QED
    BY <2>1, <2>2, FS_Subset
<1> HIDE DEF A, B
<1>6. Cardinality(A) \in Nat /\ Cardinality(J) \in Nat
  BY <1>5, FS_CardinalityType
<1>7. Cardinality(B) = Cardinality(A) + Cardinality(J) - Cardinality(A \cap J)
  BY <1>3, <1>5, FS_Union
<1>8. Cardinality(A \cap J) = 0
  BY <1>4, FS_EmptySet
<1> QED
  BY <1>6, <1>7, <1>8 DEF A, B

\* count_end reaches the number of houses when all behind s are seen.
LEMMA CountFull ==
  ASSUME NEW hs, Len(hs) \in Nat, NEW s \in Index(hs), NEW m, NEW k
  PROVE  /\ Cardinality(Seen(hs, m, s, k)) \in Nat
         /\ 1 + s + Cardinality(Seen(hs, m, s, k)) = Len(hs) <=>
               Seen(hs, m, s, k) = Behind(hs, s)
<1> DEFINE A == Seen(hs, m, s, k)
           B == Behind(hs, s)
<1>1. s \in Nat /\ s < Len(hs)
  BY DEF Index
<1>2. IsFiniteSet(B) /\ Cardinality(B) = Len(hs) - 1 - s
  <2>1. IsFiniteSet(s + 1 .. Len(hs) - 1)
        /\ Cardinality(s + 1 .. Len(hs) - 1) =
              IF s + 1 > Len(hs) - 1 THEN 0 ELSE (Len(hs) - 1) - (s + 1) + 1
    <3>1. s + 1 \in Int /\ Len(hs) - 1 \in Int
      BY <1>1
    <3> QED
      BY <3>1, FS_Interval
  <2> QED
    BY <1>1, <2>1 DEF Behind
<1>3. A \subseteq B
  BY DEF Seen
<1> HIDE DEF A, B
<1>4. IsFiniteSet(A) /\ Cardinality(A) \in Nat /\ (Cardinality(B) = Cardinality(A) => A = B)
  BY <1>2, <1>3, FS_Subset, FS_CardinalityType
<1>5. 1 + s + Cardinality(A) = Len(hs) <=> A = B
  BY <1>1, <1>2, <1>4
<1> QED
  BY <1>4, <1>5 DEF A, B

\* The locals of Search.
Local == [found : Nat, count_end : Nat, least : Nat, most : Nat, least_flag : BOOLEAN, q : Nat]

\* What a search that has met all houses behind s may pass on.
LEMMA ReportRight ==
  ASSUME NEW hs, NEW D, NEW M, AllRight(hs, D, M), NEW s \in Index(hs), NEW m, m = M[s],
         NEW l \in Local, NEW place \in {"report", "raise", "i_max"}, Knows(hs, m, s, l, place),
         NEW max \in Nat, max >= 3, \A j \in Index(hs) \ {s} : D[<<s, j>>] =< max
  PROVE  /\ l.most + 1 =< max
         /\ s =< Len(hs) - 2 => NotedRight(hs, D, max, s, l.least + 1, l.most + 1)
         /\ s =< Len(hs) - 3 => \A j \in Behind(hs, s) : D[<<s, j>>] =< l.most + 1
<1>1. /\ Len(hs) \in Nat /\ s \in Nat /\ Len(m) \in Nat
      /\ \A k \in 1 .. Len(m) : m[k].distance \in Nat
      /\ \A k, n \in 1 .. Len(m) : k =< n => m[k].distance =< m[n].distance
  <2>1. /\ Len(hs) \in Nat /\ s \in Nat /\ Len(m) \in Nat /\ WalkRight(hs, D, m, s)
        /\ \A k \in 1 .. Len(m) : m[k].distance \in Nat
    BY Types
  <2> QED
    BY <2>1 DEF WalkRight
<1>2. /\ l.found \in 0 .. Len(m) /\ l.found \in Nat /\ l.most \in Nat /\ l.least \in Nat
      /\ l.least_flag \in BOOLEAN /\ Seen(hs, m, s, l.found) = Behind(hs, s)
      /\ l.least_flag => l.most = 0 /\ \A k \in 1 .. l.found : m[k].distance =< 1
  BY DEF Knows, Local
<1>3. CASE l.least_flag
  <2>1. l.most + 1 =< max
    BY <1>2, <1>3
  <2>2. ~ (s =< Len(hs) - 2)
    <3> SUFFICES ASSUME s =< Len(hs) - 2 PROVE FALSE
      OBVIOUS
    <3>1. PICK i \in 1 .. l.found : m[i].distance > 1
      BY <1>2, SeenFar
    <3>2. i \in 1 .. Len(m)
      BY <1>1, <1>2
    <3>3. m[i].distance =< 1 /\ m[i].distance \in Nat
      BY <1>1, <1>2, <1>3, <3>2
    <3> QED
      BY <3>1, <3>3
  <2>3. ~ (s =< Len(hs) - 3)
    BY <1>1, <2>2
  <2> QED
    BY <2>1, <2>2, <2>3
<1>4. CASE ~l.least_flag
  <2>1. PICK f \in 1 .. l.found :
           /\ FirstFar(m, f) /\ l.least = m[f].distance
           /\ l.most = IF l.found = f THEN 0 ELSE m[l.found].distance
    BY <1>4 DEF Knows
  <2>2. f \in 1 .. Len(m) /\ m[f].distance > 1 /\ l.found \in 1 .. Len(m) /\ f =< l.found
    BY <1>1, <1>2, <2>1 DEF FirstFar
  <2>3. IsNearest(hs, D, s, l.least + 1)
    BY <2>1, NearestFound
  <2>4. l.most + 1 =< max
    <3>1. CASE l.found = f
      BY <2>1, <3>1
    <3>2. CASE l.found # f
      <4>1. l.most = m[l.found].distance
        BY <2>1, <3>2
      <4>2. m[f].distance =< m[l.found].distance
        BY <1>1, <2>2
      <4>3. m[l.found].distance > 1
        BY <1>1, <2>2, <4>2
      <4>4. \A k \in 1 .. Len(m) : m[k].distance > 1 =>
               \E j \in Index(hs) \ {s} : m[k].distance + 1 = D[<<s, j>>]
        <5>1. FarRight(hs, D, m, s)
          BY FarHouses
        <5> QED
          BY <5>1 DEF FarRight
      <4>5. PICK j \in Index(hs) \ {s} : m[l.found].distance + 1 = D[<<s, j>>]
        BY <2>2, <4>3, <4>4
      <4>6. D[<<s, j>>] =< max
        OBVIOUS
      <4> QED
        BY <4>1, <4>5, <4>6
    <3> QED
      BY <3>1, <3>2
  <2>5. /\ l.found # f => \A j \in Behind(hs, s) : D[<<s, j>>] =< m[l.found].distance + 1
        /\ l.found = f /\ s =< Len(hs) - 2 =>
              s = Len(hs) - 2 /\ m[f].distance + 1 = D[<<s, s + 1>>]
    BY <1>2, <2>1, AllSeen
  <2>6. CASE l.found # f
    <3>1. \A j \in Behind(hs, s) : D[<<s, j>>] =< l.most + 1
      BY <2>1, <2>5, <2>6
    <3> QED
      BY <2>3, <2>4, <3>1 DEF NotedRight
  <2>7. CASE l.found = f
    <3>1. s =< Len(hs) - 2 => s = Len(hs) - 2 /\ l.least + 1 = D[<<s, s + 1>>]
      BY <2>1, <2>5, <2>7
    <3>2. ~ (s =< Len(hs) - 3)
      BY <1>1, <3>1
    <3> QED
      BY <2>3, <2>4, <3>1, <3>2 DEF NotedRight
  <2> QED
    BY <2>6, <2>7
<1> QED
  BY <1>2, <1>3, <1>4

\* What a search that is cut short notes.
LEMMA PruneRight ==
  ASSUME NEW hs, NEW D, NEW M, AllRight(hs, D, M), NEW s \in Index(hs), NEW m, m = M[s],
         NEW l \in Local, Knows(hs, m, s, l, "prune"),
         NEW max \in Nat, \A j \in Index(hs) \ {s} : D[<<s, j>>] =< max
  PROVE  IsNearest(hs, D, s, l.least + 1) /\ l.least + 1 =< max
<1>1. PICK f \in 1 .. l.found : FirstFar(m, f) /\ l.least = m[f].distance
  BY DEF Knows
<1>2. IsNearest(hs, D, s, l.least + 1)
  BY <1>1, NearestFound
<1>3. PICK j \in Index(hs) \ {s} : l.least + 1 = D[<<s, j>>]
  BY <1>2 DEF IsNearest
<1>4. D[<<s, j>>] =< max
  OBVIOUS
<1> QED
  BY <1>2, <1>3, <1>4

\* A search goes on, or reports, according to its count.
LEMMA AfterHouseKnows ==
  ASSUME NEW hs, Len(hs) \in Nat, NEW s \in Index(hs), NEW m, NEW l, NEW place,
         Knows(hs, m, s, l, place)
  PROVE  Knows(hs, m, s, l, IF l.count_end = Len(hs) THEN "report" ELSE "search")
<1>1. l.count_end = Len(hs) <=> Seen(hs, m, s, l.found) = Behind(hs, s)
  BY CountFull, SMTT(40) DEF Knows
<1> QED
  BY <1>1 DEF Knows

\* A search meets its next house.
LEMMA MeetKnows ==
  ASSUME NEW hs, NEW D, NEW M, AllRight(hs, D, M), NEW s \in Index(hs), NEW m, m = M[s],
         NEW l \in Local, Knows(hs, m, s, l, "search"),
         NEW e, e = m[l.found + 1],
         NEW J, J = {j \in s + 1 .. Len(hs) - 1 : hs[j + 1] = e.house},
         NEW c, c = [l EXCEPT !.found = @ + 1, !.count_end = @ + Cardinality(J)]
  PROVE  /\ l.found + 1 \in 1 .. Len(m) /\ e.distance \in Nat /\ c \in Local
         /\ ~l.least_flag =>
               Knows(hs, m, s, [c EXCEPT !.most = e.distance, !.q = 0], "prune")
         /\ l.least_flag =>
               Knows(hs, m, s, IF e.distance > 1
                                 THEN [c EXCEPT !.least = e.distance, !.least_flag = FALSE]
                                 ELSE c, "enter")
<1>1. /\ Len(hs) \in Nat /\ s \in Nat /\ Len(m) \in Nat /\ Len(m) > 0
      /\ \A k \in 1 .. Len(m) : m[k].distance \in Nat
      /\ Behind(hs, s) \subseteq Index(hs) \ {s}
      /\ \A j \in Index(hs) \ {s} : \E k \in 1 .. Len(m) : m[k].house = hs[j + 1]
  <2>1. /\ Len(hs) \in Nat /\ s \in Nat /\ Len(m) \in Nat /\ Len(m) > 0
        /\ \A k \in 1 .. Len(m) : m[k].distance \in Nat
        /\ Behind(hs, s) \subseteq Index(hs) \ {s} /\ WalkRight(hs, D, m, s)
    BY Types
  <2> QED
    BY <2>1 DEF WalkRight
<1>2. /\ l.found \in 0 .. Len(m) /\ l.found \in Nat /\ l.count_end \in Nat
      /\ l.least_flag \in BOOLEAN
      /\ l.count_end = 1 + s + Cardinality(Seen(hs, m, s, l.found))
      /\ l.found = 0 \/ Seen(hs, m, s, l.found) # Behind(hs, s)
  BY DEF Knows, Local
<1>3. l.found < Len(m)
  <2> SUFFICES ASSUME l.found = Len(m) PROVE FALSE
    BY <1>1, <1>2
  <2>1. Behind(hs, s) \subseteq Seen(hs, m, s, l.found)
    BY <1>1 DEF Seen
  <2>2. Seen(hs, m, s, l.found) \subseteq Behind(hs, s)
    BY DEF Seen
  <2> QED
    BY <1>1, <1>2, <2>1, <2>2
<1>4. l.found + 1 \in 1 .. Len(m) /\ e.distance \in Nat
  BY <1>1, <1>2, <1>3, SMTT(40)
<1>5. /\ Cardinality(J) \in Nat
      /\ Cardinality(Seen(hs, m, s, l.found)) \in Nat
      /\ Cardinality(Seen(hs, m, s, l.found + 1)) =
            Cardinality(Seen(hs, m, s, l.found)) + Cardinality(J)
  <2>1. J = {j \in s + 1 .. Len(hs) - 1 : hs[j + 1] = m[l.found + 1].house}
    OBVIOUS
  <2>2. PICK k : k = l.found
    OBVIOUS
  <2>3. k \in 0 .. Len(m) /\ k < Len(m)
        /\ J = {j \in s + 1 .. Len(hs) - 1 : hs[j + 1] = m[k + 1].house}
    BY <1>2, <1>3, <2>1, <2>2
  <2>4. /\ Cardinality(J) \in Nat
        /\ Cardinality(Seen(hs, m, s, k)) \in Nat
        /\ Cardinality(Seen(hs, m, s, k + 1)) = Cardinality(Seen(hs, m, s, k)) + Cardinality(J)
    BY <2>3, SeenNext
  <2> QED
    BY <2>2, <2>4
<1>6. c \in Local
  <2>1. l.found + 1 \in Nat /\ l.count_end + Cardinality(J) \in Nat
    BY <1>2, <1>5
  <2>2. c = [l EXCEPT !.found = l.found + 1, !.count_end = l.count_end + Cardinality(J)]
    OBVIOUS
  <2> QED
    BY <2>1, <2>2 DEF Local
<1>7. /\ c.found = l.found + 1 /\ c.least = l.least /\ c.most = l.most
      /\ c.least_flag = l.least_flag
      /\ c.count_end = 1 + s + Cardinality(Seen(hs, m, s, c.found))
  <2>1. c.found = l.found + 1 /\ c.least = l.least /\ c.most = l.most
        /\ c.least_flag = l.least_flag /\ c.count_end = l.count_end + Cardinality(J)
    BY DEF Local
  <2> QED
    BY <1>1, <1>2, <1>5, <2>1
<1>8. ASSUME ~l.least_flag, NEW d, d = [c EXCEPT !.most = e.distance, !.q = 0]
      PROVE  Knows(hs, m, s, d, "prune")
  <2>1. /\ d.found = c.found /\ d.count_end = c.count_end /\ d.least = c.least
        /\ d.most = e.distance /\ d.least_flag = c.least_flag
    BY <1>6, <1>8 DEF Local
  <2>2. PICK f \in 1 .. l.found : FirstFar(m, f) /\ l.least = m[f].distance
    BY <1>8 DEF Knows
  <2>3. f \in 1 .. d.found /\ d.found # f /\ d.most = m[d.found].distance
    BY <1>2, <1>7, <2>1, <2>2
  <2>4. d.found \in 0 .. Len(m)
    BY <1>4, <1>7, <2>1
  <2>5. ~d.least_flag /\ d.least = m[f].distance
    BY <1>7, <1>8, <2>1, <2>2
  <2>6. d.count_end = 1 + s + Cardinality(Seen(hs, m, s, d.found))
    BY <1>7, <2>1
  <2> QED
    BY <2>2, <2>3, <2>4, <2>5, <2>6 DEF Knows
<1>9. ASSUME l.least_flag, NEW d,
             d = IF e.distance > 1 THEN [c EXCEPT !.least = e.distance, !.least_flag = FALSE]
                 ELSE c
      PROVE  Knows(hs, m, s, d, "enter")
  <2>1. l.most = 0 /\ \A k \in 1 .. l.found : m[k].distance =< 1
    BY <1>9 DEF Knows
  <2>2. l.found + 1 \in 0 .. Len(m)
    BY <1>4
  <2>3. CASE e.distance > 1
    <3>1. /\ d.found = c.found /\ d.count_end = c.count_end /\ d.least = e.distance
          /\ d.most = c.most /\ ~d.least_flag
      BY <1>6, <1>9, <2>3 DEF Local
    <3>2. FirstFar(m, l.found + 1)
      <4>1. (l.found + 1) - 1 = l.found
        BY <1>2
      <4> QED
        BY <1>4, <2>1, <2>3, <4>1 DEF FirstFar
    <3>3. l.found + 1 \in 1 .. d.found /\ d.found = l.found + 1
      BY <1>2, <1>7, <3>1
    <3>4. d.least = m[l.found + 1].distance /\ d.most = 0
      BY <1>7, <2>1, <3>1
    <3>5. d.count_end = 1 + s + Cardinality(Seen(hs, m, s, d.found))
      BY <1>7, <3>1
    <3> QED
      BY <2>2, <3>1, <3>2, <3>3, <3>4, <3>5 DEF Knows
  <2>4. CASE ~ (e.distance > 1)
    <3>1. d = c
      BY <1>9, <2>4
    <3>2. \A k \in 1 .. c.found : m[k].distance =< 1
      <4>1. \A k \in 1 .. c.found : k \in 1 .. l.found \/ k = l.found + 1
        BY <1>2, <1>7
      <4>2. m[l.found + 1].distance =< 1
        BY <1>4, <2>4
      <4> QED
        BY <2>1, <4>1, <4>2
    <3> QED
      BY <1>7, <1>9, <2>1, <2>2, <3>1, <3>2 DEF Knows
  <2> QED
    BY <2>3, <2>4
<1> QED
  BY <1>4, <1>6, <1>8, <1>9

----------------------------------------------------------------------------
(* The steps of the threads.                                               *)

\* What the invariant says of the houses.
LEMMA Basics ==
  ASSUME OwnIInv
  PROVE  /\ house_num \in Nat /\ house_num >= 3 /\ Len(input.house) = house_num
         /\ HouseIndex = Index(input.house) /\ AllRight(input.house, apart, met)
         /\ \A s : Behind(input.house, s) = s + 1 .. house_num - 1
         /\ MostDistance \in Nat /\ MostDistance >= 3
         /\ \A i, j \in HouseIndex : i # j => apart[<<i, j>>] =< MostDistance
         /\ \A i, j \in HouseIndex : apart[<<i, j>>] \in Nat
         /\ my \in [Thread -> Local] /\ pc \in [Thread -> Place] /\ start_num \in [Thread -> Nat]
         /\ \A t \in Thread : pc[t] \in Searching => start_num[t] \in HouseIndex
         /\ g_cnt_global \in Nat
<1>1. WalksRight
  BY DEF OwnIInv
<1>2. /\ house_num \in Nat /\ house_num >= 3 /\ Len(input.house) = house_num
      /\ HouseIndex = Index(input.house) /\ AllRight(input.house, apart, met)
      /\ \A s : Behind(input.house, s) = s + 1 .. house_num - 1
      /\ \A i, j \in HouseIndex : apart[<<i, j>>] \in Nat
  BY <1>1 DEF WalksRight, AllRight, HouseIndex, Index, house_num, Behind
<1>3. /\ MostDistance \in Nat /\ MostDistance >= 3
      /\ \A i, j \in HouseIndex : i # j => apart[<<i, j>>] =< MostDistance
  BY <1>1, Extremes
<1>4. /\ my \in [Thread -> Local] /\ pc \in [Thread -> Place] /\ start_num \in [Thread -> Nat]
      /\ \A t \in Thread : pc[t] \in Searching => start_num[t] \in HouseIndex
      /\ g_cnt_global \in Nat
  BY DEF OwnIInv, ValueInv, DrawIInv, TypeInv, DrawInv, Local
<1> QED
  BY <1>2, <1>3, <1>4

\* The search of thread t.
LEMMA OfThread ==
  ASSUME OwnIInv, NEW t \in Thread, pc[t] \in Searching
  PROVE  /\ start_num[t] \in Index(input.house) /\ start_num[t] \in Nat /\ my[t] \in Local
         /\ Knows(input.house, met[start_num[t]], start_num[t], my[t], pc[t])
         /\ \A j \in Index(input.house) \ {start_num[t]} :
               apart[<<start_num[t], j>>] =< MostDistance
<1>1. start_num[t] \in Index(input.house) /\ start_num[t] \in Nat /\ my[t] \in Local
  BY Basics
<1>2. Knows(input.house, met[start_num[t]], start_num[t], my[t], pc[t])
  BY DEF OwnIInv, SearchInv
<1>3. \A j \in Index(input.house) \ {start_num[t]} : apart[<<start_num[t], j>>] =< MostDistance
  BY <1>1, Basics
<1> QED
  BY <1>1, <1>2, <1>3

\* A step of thread t leaves the searches of the others alone.
LEMMA SearchFrame ==
  ASSUME OwnIInv, UNCHANGED given, NEW t \in Thread, NEW q, pc' = [pc EXCEPT ![t] = q],
         \A u \in Thread \ {t} : start_num'[u] = start_num[u] /\ my'[u] = my[u],
         q \in Searching =>
             Knows(input.house, met[start_num'[t]], start_num'[t], my'[t], q)
  PROVE  SearchInv'
<1>1. input' = input /\ met' = met /\ Thread' = Thread
  BY Frame
<1>2. pc \in [Thread -> Place]
  BY Basics
<1>3. ASSUME NEW u \in Thread, pc'[u] \in Searching
      PROVE  Knows(input.house, met[start_num'[u]], start_num'[u], my'[u], pc'[u])
  <2>1. CASE u = t
    BY <1>2, <1>3, <2>1
  <2>2. CASE u # t
    <3>1. pc'[u] = pc[u] /\ start_num'[u] = start_num[u] /\ my'[u] = my[u]
      BY <1>2, <2>2
    <3> QED
      BY <1>3, <3>1 DEF OwnIInv, SearchInv
  <2> QED
    BY <2>1, <2>2
<1>4. \A u \in Thread : pc'[u] \in Searching =>
          Knows(input'.house, met'[start_num'[u]], start_num'[u], my'[u], pc'[u])
  BY <1>1, <1>3
<1> QED
  BY <1>1, <1>4 DEF SearchInv, Searching

\* A step that notes nothing, and ends no search that has not noted.
LEMMA NotedFrame ==
  ASSUME OwnIInv, UNCHANGED given, UNCHANGED <<g_cnt_global, results>>,
         \A u \in Thread : pc[u] \in Unnoted =>
             pc'[u] \in Unnoted /\ start_num'[u] = start_num[u]
  PROVE  NotedInv'
<1>1. /\ input' = input /\ apart' = apart /\ Thread' = Thread /\ house_num' = house_num
      /\ MostDistance' = MostDistance
  BY Frame
<1>2. house_distance_least' = house_distance_least /\ house_distance_most' = house_distance_most
  BY DEF results
<1>3. ASSUME NEW s \in 0 .. house_num - 2
      PROVE  /\ house_distance_least'[s] # 0 =>
                   NotedRight(input.house, apart, MostDistance, s, house_distance_least'[s],
                              house_distance_most'[s])
             /\ s < g_cnt_global' =>
                   \/ house_distance_least'[s] # 0
                   \/ \E t \in Thread : pc'[t] \in Unnoted /\ start_num'[t] = s
  BY <1>2 DEF OwnIInv, NotedInv
<1>4. \A s \in 0 .. house_num' - 2 :
             /\ house_distance_least'[s] # 0 =>
                   NotedRight(input'.house, apart', MostDistance', s, house_distance_least'[s],
                              house_distance_most'[s])
             /\ s < g_cnt_global' =>
                   \/ house_distance_least'[s] # 0
                   \/ \E t \in Thread' : pc'[t] \in Unnoted /\ start_num'[t] = s
  BY <1>1, <1>3
<1> QED
  BY <1>4 DEF NotedInv, Unnoted

\* A step that notes least and most for the house of thread t.
LEMMA NotedSet ==
  ASSUME OwnIInv, UNCHANGED given, UNCHANGED <<g_cnt_global, start_num>>,
         NEW t \in Thread, pc[t] \in Unnoted, NEW l \in Nat, NEW m \in Nat, l # 0,
         Results(t, l, m), \A u \in Thread \ {t} : pc'[u] = pc[u],
         start_num[t] =< house_num - 2 =>
             NotedRight(input.house, apart, MostDistance, start_num[t], l, m)
  PROVE  /\ NotedInv' /\ house_distance_least' \in [HouseIndex -> Nat]
         /\ house_distance_most' \in [HouseIndex -> Nat]
<1> DEFINE s == start_num[t]
<1>1. /\ input' = input /\ apart' = apart /\ Thread' = Thread /\ house_num' = house_num
      /\ MostDistance' = MostDistance
  BY Frame
<1>2. /\ house_distance_least \in [HouseIndex -> Nat]
      /\ house_distance_most \in [HouseIndex -> Nat]
      /\ s \in HouseIndex
  BY Basics DEF OwnIInv, ValueInv, Unnoted, Searching
<1>3. /\ house_distance_least' = [house_distance_least EXCEPT ![s] = l]
      /\ house_distance_most' = [house_distance_most EXCEPT ![s] = m]
  BY DEF Results
<1>4. ASSUME NEW i \in 0 .. house_num - 2
      PROVE  /\ house_distance_least'[i] # 0 =>
                   NotedRight(input.house, apart, MostDistance, i, house_distance_least'[i],
                              house_distance_most'[i])
             /\ i < g_cnt_global' =>
                   \/ house_distance_least'[i] # 0
                   \/ \E u \in Thread : pc'[u] \in Unnoted /\ start_num'[u] = i
  <2>1. i \in HouseIndex /\ i =< house_num - 2
    BY Basics DEF HouseIndex
  <2>2. CASE i = s
    <3>1. house_distance_least'[i] = l /\ house_distance_most'[i] = m
      BY <1>2, <1>3, <2>2
    <3> QED
      BY <2>1, <2>2, <3>1
  <2>3. CASE i # s
    <3>1. /\ house_distance_least'[i] = house_distance_least[i]
          /\ house_distance_most'[i] = house_distance_most[i]
      BY <1>2, <1>3, <2>1, <2>3
    <3>2. \A u \in Thread : start_num[u] = i => u # t /\ pc'[u] = pc[u]
      BY <2>3
    <3>3. /\ house_distance_least[i] # 0 =>
                NotedRight(input.house, apart, MostDistance, i, house_distance_least[i],
                           house_distance_most[i])
          /\ i < g_cnt_global =>
                \/ house_distance_least[i] # 0
                \/ \E u \in Thread : pc[u] \in Unnoted /\ start_num[u] = i
      BY DEF OwnIInv, NotedInv
    <3> QED
      BY <3>1, <3>2, <3>3
  <2> QED
    BY <2>2, <2>3
<1>5. \A i \in 0 .. house_num' - 2 :
             /\ house_distance_least'[i] # 0 =>
                   NotedRight(input'.house, apart', MostDistance', i, house_distance_least'[i],
                              house_distance_most'[i])
             /\ i < g_cnt_global' =>
                   \/ house_distance_least'[i] # 0
                   \/ \E u \in Thread' : pc'[u] \in Unnoted /\ start_num'[u] = i
  BY <1>1, <1>4
<1> QED
  BY <1>2, <1>3, <1>5 DEF NotedInv, Unnoted

\* A step that tells the others nothing.
LEMMA HintFrame ==
  ASSUME HintInv, UNCHANGED given,
         UNCHANGED <<g_total_max, g_i_max, g_house_distance_i_to_all>>
  PROVE  HintInv'
<1>1. apart' = apart /\ house_num' = house_num /\ HouseIndex' = HouseIndex
      /\ MostDistance' = MostDistance
  BY Frame
<1> QED
  BY <1>1 DEF HintInv, HintsAreTrue

\* A thread's step prints nothing.
LEMMA AnswerFrame ==
  ASSUME AnswerRight, UNCHANGED given, UNCHANGED printed
  PROVE  AnswerRight'
<1>1. LeastDistance' = LeastDistance /\ MostDistance' = MostDistance
  BY Frame
<1> QED
  BY <1>1 DEF AnswerRight

\* The part of the invariant that the steps below have to keep.
RestInv == ValueInv /\ SearchInv /\ HintInv /\ NotedInv /\ AnswerRight

\* What Locals says of a search that begins.
LEMMA LocalsKnow ==
  ASSUME NEW hs, NEW D, NEW M, AllRight(hs, D, M), NEW s \in Index(hs)
  PROVE  Knows(hs, M[s], s, Locals(s), "search")
<1>1. Len(M[s]) \in Nat /\ s \in Nat
  BY Types
<1>2. /\ Locals(s).found = 0 /\ Locals(s).count_end = 1 + s /\ Locals(s).most = 0
      /\ Locals(s).least_flag = TRUE
  BY DEF Locals
<1>3. Seen(hs, M[s], s, 0) = {}
  BY DEF Seen
<1>4. Cardinality(Seen(hs, M[s], s, 0)) = 0
  BY <1>3, FS_EmptySet
<1>5. Locals(s).count_end = 1 + s + Cardinality(Seen(hs, M[s], s, Locals(s).found))
  BY <1>1, <1>2, <1>4
<1>6. 0 \in 0 .. Len(M[s]) /\ \A k \in 1 .. 0 : M[s][k].distance =< 1
  BY <1>1
<1> QED
  BY <1>2, <1>5, <1>6 DEF Knows

LEMMA LocalsType ==
  ASSUME NEW s \in Nat
  PROVE  Locals(s) \in Local
  BY DEF Locals, Local

LEMMA TestRest ==
  ASSUME OwnIInv, NEW t \in Thread, Test(t)
  PROVE  RestInv'
<1>1. /\ UNCHANGED given /\ UNCHANGED <<g_cnt_global, g_total_max, g_i_max>>
      /\ UNCHANGED <<g_house_distance_i_to_all, results, start_num, my, printed>>
      /\ pc' = [pc EXCEPT ![t] = DrawOrEnd] /\ pc[t] = "loop" /\ pc \in [Thread -> Place]
  BY Basics DEF Test, Goto, shared
<1>2. DrawOrEnd \notin Searching
  BY DEF DrawOrEnd, Searching
<1>3. HouseIndex' = HouseIndex /\ Thread' = Thread
  BY <1>1, Frame
<1>4. ValueInv'
  BY <1>1, <1>3 DEF OwnIInv, ValueInv, results
<1>5. SearchInv'
  BY <1>1, <1>2, SearchFrame
<1>6. HintInv' /\ AnswerRight'
  BY <1>1, HintFrame, AnswerFrame DEF OwnIInv
<1>7. NotedInv'
  <2>1. \A u \in Thread : pc[u] \in Unnoted => pc'[u] \in Unnoted /\ start_num'[u] = start_num[u]
    BY <1>1 DEF Unnoted
  <2> QED
    BY <1>1, <2>1, NotedFrame
<1> QED
  BY <1>4, <1>5, <1>6, <1>7 DEF RestInv

LEMMA DrawRest ==
  ASSUME OwnIInv, NEW t \in Thread, Draw(t)
  PROVE  RestInv'
<1> DEFINE q == IF g_cnt_global < house_num THEN "search" ELSE "outside"
<1>1. /\ UNCHANGED given /\ UNCHANGED <<g_total_max, g_i_max>>
      /\ UNCHANGED <<g_house_distance_i_to_all, results, printed>>
      /\ g_cnt_global' = g_cnt_global + 1
      /\ start_num' = [start_num EXCEPT ![t] = g_cnt_global]
      /\ my' = [my EXCEPT ![t] = Locals(g_cnt_global)]
      /\ pc' = [pc EXCEPT ![t] = q] /\ pc[t] = "draw"
  BY DEF Draw, Goto
<1>2. /\ my \in [Thread -> Local] /\ pc \in [Thread -> Place] /\ start_num \in [Thread -> Nat]
      /\ g_cnt_global \in Nat /\ house_num \in Nat
  BY Basics
<1>3. /\ HouseIndex' = HouseIndex /\ Thread' = Thread /\ input' = input /\ apart' = apart
      /\ house_num' = house_num /\ MostDistance' = MostDistance
  BY <1>1, Frame
<1>4. ValueInv'
  <2>1. my' \in [Thread -> Local]
    BY <1>1, <1>2, LocalsType
  <2> QED
    BY <1>1, <1>3, <2>1 DEF OwnIInv, ValueInv, results, Local
<1>5. SearchInv'
  <2>1. ASSUME q \in Searching
        PROVE  Knows(input.house, met[start_num'[t]], start_num'[t], my'[t], q)
    <3>1. g_cnt_global < house_num /\ q = "search"
      BY <2>1 DEF Searching
    <3>2. g_cnt_global \in Index(input.house)
      BY <1>2, <3>1, Basics DEF Index
    <3>3. start_num'[t] = g_cnt_global /\ my'[t] = Locals(g_cnt_global)
      BY <1>1, <1>2
    <3>4. AllRight(input.house, apart, met)
      BY Basics
    <3>5. Knows(input.house, met[g_cnt_global], g_cnt_global, Locals(g_cnt_global), "search")
      BY <3>2, <3>4, LocalsKnow
    <3> QED
      BY <3>1, <3>3, <3>5
  <2>2. \A u \in Thread \ {t} : start_num'[u] = start_num[u] /\ my'[u] = my[u]
    BY <1>1, <1>2
  <2> HIDE DEF q
  <2> QED
    BY <1>1, <2>1, <2>2, SearchFrame
<1>6. HintInv' /\ AnswerRight'
  BY <1>1, HintFrame, AnswerFrame DEF OwnIInv
<1>7. NotedInv'
  <2>1. ASSUME NEW s \in 0 .. house_num - 2
        PROVE  /\ house_distance_least'[s] # 0 =>
                     NotedRight(input.house, apart, MostDistance, s, house_distance_least'[s],
                                house_distance_most'[s])
               /\ s < g_cnt_global' =>
                     \/ house_distance_least'[s] # 0
                     \/ \E u \in Thread : pc'[u] \in Unnoted /\ start_num'[u] = s
    <3>1. house_distance_least' = house_distance_least /\ house_distance_most' = house_distance_most
      BY <1>1 DEF results
    <3>2. /\ house_distance_least[s] # 0 =>
                NotedRight(input.house, apart, MostDistance, s, house_distance_least[s],
                           house_distance_most[s])
          /\ s < g_cnt_global =>
                \/ house_distance_least[s] # 0
                \/ \E u \in Thread : pc[u] \in Unnoted /\ start_num[u] = s
      BY DEF OwnIInv, NotedInv
    <3>3. \A u \in Thread : pc[u] \in Unnoted => pc'[u] = pc[u] /\ start_num'[u] = start_num[u]
      BY <1>1, <1>2 DEF Unnoted
    <3>4. CASE s = g_cnt_global
      <4>1. pc'[t] \in Unnoted /\ start_num'[t] = s
        BY <1>1, <1>2, <3>4 DEF Unnoted
      <4> QED
        BY <3>1, <3>2, <4>1
    <3>5. CASE s # g_cnt_global
      <4>1. s < g_cnt_global' => s < g_cnt_global
        BY <1>1, <1>2, <3>5
      <4> QED
        BY <3>1, <3>2, <3>3, <4>1
    <3> QED
      BY <3>4, <3>5
  <2>2. \A s \in 0 .. house_num' - 2 :
               /\ house_distance_least'[s] # 0 =>
                     NotedRight(input'.house, apart', MostDistance', s, house_distance_least'[s],
                                house_distance_most'[s])
               /\ s < g_cnt_global' =>
                     \/ house_distance_least'[s] # 0
                     \/ \E u \in Thread' : pc'[u] \in Unnoted /\ start_num'[u] = s
    BY <1>3, <2>1
  <2> QED
    BY <2>2 DEF NotedInv, Unnoted
<1> QED
  BY <1>4, <1>5, <1>6, <1>7 DEF RestInv

\* The distance that is noted for the others is right.
LEMMA MeetRest ==
  ASSUME OwnIInv, NEW t \in Thread, Meet(t)
  PROVE  RestInv'
<1> DEFINE hs == input.house
           s == start_num[t]
           m == met[s]
           l == my[t]
           e == m[l.found + 1]
           J == {j \in s + 1 .. house_num - 1 : house(j) = e.house}
           c == [l EXCEPT !.found = @ + 1, !.count_end = @ + Cardinality(J)]
           far == [c EXCEPT !.most = e.distance, !.q = 0]
           first == IF e.distance > 1
                      THEN [c EXCEPT !.least = e.distance, !.least_flag = FALSE] ELSE c
<1>1. /\ UNCHANGED given /\ UNCHANGED <<g_cnt_global, g_total_max, g_i_max, results>>
      /\ UNCHANGED <<start_num, printed>> /\ pc[t] = "search"
      /\ g_house_distance_i_to_all' =
            [p \in HouseIndex \X HouseIndex |->
                IF p[1] = s /\ p[2] \in J THEN e.distance + 1 ELSE g_house_distance_i_to_all[p]]
      /\ \/ ~l.least_flag /\ my' = [my EXCEPT ![t] = far] /\ pc' = [pc EXCEPT ![t] = "prune"]
         \/ /\ l.least_flag /\ my' = [my EXCEPT ![t] = first]
            /\ pc' = [pc EXCEPT ![t] = AfterHouse(c.count_end)]
  BY DEF Meet, Goto
<1>2. /\ AllRight(hs, apart, met) /\ Len(hs) = house_num /\ house_num \in Nat
      /\ HouseIndex = Index(hs) /\ my \in [Thread -> Local] /\ pc \in [Thread -> Place]
      /\ \A i, j \in HouseIndex : apart[<<i, j>>] \in Nat
  BY Basics, SMTT(40)
<1>3. /\ s \in Index(hs) /\ s \in Nat /\ l \in Local
      /\ Knows(hs, m, s, l, "search")
  BY <1>1, OfThread, ZenonT(60) DEF Searching
<1>4. J = {j \in s + 1 .. Len(hs) - 1 : hs[j + 1] = e.house}
  BY <1>2 DEF house
<1>5. HouseIndex' = HouseIndex /\ Thread' = Thread /\ apart' = apart /\ house_num' = house_num
      /\ MostDistance' = MostDistance
  BY <1>1, Frame, ZenonT(60)
<1>6. /\ l.found + 1 \in 1 .. Len(m) /\ e.distance \in Nat /\ c \in Local
      /\ ~l.least_flag => Knows(hs, m, s, far, "prune")
      /\ l.least_flag => Knows(hs, m, s, first, "enter")
  <2> HIDE DEF J
  <2> QED
    BY <1>2, <1>3, <1>4, MeetKnows
<1>7. far \in Local /\ first \in Local /\ first.count_end = c.count_end
  <2> HIDE DEF c, e
  <2> QED
    BY <1>6 DEF Local
<1> HIDE DEF far, first, c
<1>8. my' \in [Thread -> Local] /\ \A u \in Thread \ {t} : my'[u] = my[u]
  BY <1>1, <1>2, <1>7
<1>9. ASSUME NEW p \in HouseIndex \X HouseIndex
      PROVE  /\ g_house_distance_i_to_all'[p] \in {0, apart[p]}
             /\ g_house_distance_i_to_all'[p] # 0 => p[1] < p[2]
             /\ g_house_distance_i_to_all'[p] \in Nat
  <2>1. /\ g_house_distance_i_to_all[p] \in {0, apart[p]}
        /\ g_house_distance_i_to_all[p] # 0 => p[1] < p[2]
        /\ g_house_distance_i_to_all[p] \in Nat
    BY DEF OwnIInv, HintInv, HintsAreTrue, ValueInv
  <2>2. CASE p[1] = s /\ p[2] \in J
    <3>1. g_house_distance_i_to_all'[p] = e.distance + 1
      BY <1>1, <2>2
    <3>2. PICK j \in J : p = <<s, j>>
      BY <2>2
    <3>3. j \in Index(hs) \ {s} /\ s < j /\ e.house = hs[j + 1]
      BY <1>2, <1>3, <1>4, <3>2 DEF Index
    <3>4. e.distance + 1 = apart[<<s, j>>]
      <4>1. \A k \in 1 .. Len(m) : \A i \in Index(hs) \ {s} : m[k].house = hs[i + 1] =>
               m[k].distance + 1 = apart[<<s, i>>] /\ m[k].distance > 1
        <5>1. FarRight(hs, apart, m, s)
          BY <1>2, <1>3, FarHouses
        <5> QED
          BY <5>1 DEF FarRight
      <4> QED
        BY <1>6, <3>3, <4>1
    <3> HIDE DEF e, J
    <3>5. p[1] < p[2] /\ apart[p] = e.distance + 1 /\ e.distance + 1 \in Nat
      BY <1>6, <3>2, <3>3, <3>4
    <3> QED
      BY <3>1, <3>5
  <2>3. CASE ~ (p[1] = s /\ p[2] \in J)
    <3>1. g_house_distance_i_to_all'[p] = g_house_distance_i_to_all[p]
      BY <1>1, <2>3
    <3> QED
      BY <2>1, <3>1, SMTT(40)
  <2> QED
    BY <2>2, <2>3
<1>10. ValueInv'
  <2>1. g_house_distance_i_to_all' \in [HouseIndex \X HouseIndex -> Nat]
    <3> HIDE DEF e, J
    <3> QED
      BY <1>1, <1>9, SMTT(40)
  <2> QED
    BY <1>1, <1>5, <1>8, <2>1 DEF OwnIInv, ValueInv, results, Local
<1>11. HintInv'
  BY <1>1, <1>5, <1>9 DEF OwnIInv, HintInv, HintsAreTrue
<1>12. \E q \in Unnoted : /\ pc' = [pc EXCEPT ![t] = q]
                          /\ Knows(hs, m, s, my'[t], q)
  <2>1. CASE ~l.least_flag
    <3>1. my' = [my EXCEPT ![t] = far] /\ pc' = [pc EXCEPT ![t] = "prune"]
      BY <1>1, <2>1
    <3> QED
      BY <1>2, <1>6, <2>1, <3>1 DEF Unnoted
  <2>2. CASE l.least_flag
    <3>1. my' = [my EXCEPT ![t] = first] /\ pc' = [pc EXCEPT ![t] = AfterHouse(c.count_end)]
      BY <1>1, <2>2
    <3>2. Knows(hs, m, s, first, IF first.count_end = Len(hs) THEN "report" ELSE "search")
      BY <1>2, <1>3, <1>6, <2>2, AfterHouseKnows
    <3>3. AfterHouse(c.count_end) = IF first.count_end = Len(hs) THEN "report" ELSE "search"
      BY <1>2, <1>7 DEF AfterHouse
    <3>4. AfterHouse(c.count_end) \in Unnoted
      BY DEF AfterHouse, Unnoted
    <3>5. my'[t] = first
      BY <1>2, <3>1
    <3> QED
      BY <3>1, <3>2, <3>3, <3>4, <3>5
  <2> QED
    BY <2>1, <2>2
<1>13. SearchInv'
  BY <1>1, <1>8, <1>12, SearchFrame
<1>14. NotedInv'
  <2>1. \A u \in Thread : pc[u] \in Unnoted => pc'[u] \in Unnoted /\ start_num'[u] = start_num[u]
    BY <1>1, <1>2, <1>12
  <2> QED
    BY <1>1, <2>1, NotedFrame
<1>15. AnswerRight'
  BY <1>1, AnswerFrame DEF OwnIInv
<1> QED
  BY <1>10, <1>11, <1>13, <1>14, <1>15, SMTT(40) DEF RestInv

\* Fields that Knows does not read.
LEMMA SameKnows ==
  ASSUME NEW hs, NEW m, NEW s, NEW l, NEW place, Knows(hs, m, s, l, place),
         NEW k, k.found = l.found, k.count_end = l.count_end, k.least = l.least,
         k.most = l.most, k.least_flag = l.least_flag
  PROVE  Knows(hs, m, s, k, place)
  BY DEF Knows

\* A search is cut short only if no house behind s can be as far as the greatest
\* distance: over house p it would be nearer.
LEMMA PruneSafe ==
  ASSUME OwnIInv, NEW t \in Thread, NEW p \in 0 .. house_num - 2, Prunes(t, p),
         start_num[t] \in HouseIndex, start_num[t] =< house_num - 2
  PROVE  \A j \in Behind(input.house, start_num[t]) : apart[<<start_num[t], j>>] < MostDistance
<1> DEFINE s == start_num[t]
           d == g_house_distance_i_to_all[<<p, s>>]
<1>1. /\ house_num \in Nat /\ HouseIndex = Index(input.house) /\ MostDistance \in Nat
      /\ \A i, j \in HouseIndex : apart[<<i, j>>] \in Nat
      /\ Behind(input.house, s) = s + 1 .. house_num - 1
      /\ AllRight(input.house, apart, met)
  BY Basics
<1>2. g_i_max[p] # 0 /\ d # 0 /\ d + g_i_max[p] < g_total_max
  BY DEF Prunes
<1>3. p \in HouseIndex /\ <<p, s>> \in HouseIndex \X HouseIndex
  BY <1>1 DEF HouseIndex
<1>4. d = apart[<<p, s>>] /\ p < s
  <2>1. d \in {0, apart[<<p, s>>]}
    BY <1>3 DEF OwnIInv, HintInv, HintsAreTrue
  <2>2. d # 0 => <<p, s>>[1] < <<p, s>>[2]
    BY <1>3 DEF OwnIInv, HintInv
  <2> QED
    BY <1>2, <2>1, <2>2
<1>5. s \in Nat /\ p \in 0 .. house_num - 3
  BY <1>1, <1>4 DEF HouseIndex
<1>6. \A j \in p + 1 .. house_num - 1 : g_i_max[p] >= apart[<<p, j>>]
  BY <1>2, <1>5 DEF OwnIInv, HintInv, HintsAreTrue
<1>7. g_i_max[p] \in Nat /\ g_total_max \in Nat /\ g_total_max =< MostDistance
  BY <1>3 DEF OwnIInv, HintInv, HintsAreTrue, ValueInv
<1>8. ASSUME NEW j \in Behind(input.house, s)
      PROVE  apart[<<s, j>>] < MostDistance
  <2>1. j \in HouseIndex /\ j \in p + 1 .. house_num - 1
    BY <1>1, <1>4, <1>5 DEF HouseIndex
  <2>2. apart[<<p, j>>] =< g_i_max[p]
    <3>1. apart[<<p, j>>] \in Nat
      BY <1>1, <1>3, <2>1
    <3> QED
      BY <1>6, <1>7, <2>1, <3>1
  <2>3. apart[<<s, j>>] =< apart[<<s, p>>] + apart[<<p, j>>] /\ apart[<<s, p>>] = apart[<<p, s>>]
    BY <1>1, <1>3, <2>1 DEF AllRight
  <2>4. /\ apart[<<s, j>>] \in Nat /\ apart[<<p, j>>] \in Nat /\ apart[<<p, s>>] \in Nat
    BY <1>1, <1>3, <2>1
  <2> QED
    BY <1>1, <1>2, <1>4, <1>7, <2>2, <2>3, <2>4, SMTT(40)
<1> QED
  BY <1>8

LEMMA PruneRest ==
  ASSUME OwnIInv, NEW t \in Thread, Prune(t)
  PROVE  RestInv'
<1> DEFINE s == start_num[t]
           l == my[t]
           hs == input.house
<1>1. /\ UNCHANGED given /\ UNCHANGED <<g_cnt_global, g_total_max, g_i_max>>
      /\ UNCHANGED <<g_house_distance_i_to_all, start_num, printed>>
      /\ pc[t] = "prune" /\ l.q < house_num - 1
  BY DEF Prune, shared
<1>2. /\ AllRight(hs, apart, met) /\ Len(hs) = house_num /\ house_num \in Nat
      /\ HouseIndex = Index(hs) /\ my \in [Thread -> Local] /\ pc \in [Thread -> Place]
      /\ MostDistance \in Nat
  BY Basics
<1>3. /\ s \in Index(hs) /\ s \in Nat /\ l \in Local
      /\ Knows(hs, met[s], s, l, "prune")
      /\ \A j \in Index(hs) \ {s} : apart[<<s, j>>] =< MostDistance
  BY <1>1, OfThread DEF Searching
<1>4. HouseIndex' = HouseIndex /\ Thread' = Thread
  BY <1>1, Frame
<1>5. HintInv' /\ AnswerRight'
  BY <1>1, HintFrame, AnswerFrame DEF OwnIInv
<1>6. l.q \in Nat /\ l.least \in Nat
  BY <1>3 DEF Local
<1>7. CASE Prunes(t, l.q) /\ Results(t, l.least + 1, l.least + 1) /\ Return(t)
  <2>1. pc' = [pc EXCEPT ![t] = "loop"] /\ my' = [my EXCEPT ![t] = Locals(0)]
    BY <1>7 DEF Return, Goto
  <2>2. IsNearest(hs, apart, s, l.least + 1) /\ l.least + 1 =< MostDistance
    BY <1>2, <1>3, PruneRight
  <2>3. s =< house_num - 2 => \A j \in Behind(hs, s) : apart[<<s, j>>] < MostDistance
    <3>1. l.q \in 0 .. house_num - 2
      BY <1>1, <1>2, <1>6
    <3> QED
      BY <1>2, <1>3, <1>7, <3>1, PruneSafe
  <2>4. s =< house_num - 2 =>
           NotedRight(hs, apart, MostDistance, s, l.least + 1, l.least + 1)
    BY <2>2, <2>3 DEF NotedRight
  <2>5. \A u \in Thread \ {t} : pc'[u] = pc[u] /\ my'[u] = my[u]
    BY <1>2, <2>1
  <2>6. l.least + 1 \in Nat /\ l.least + 1 # 0 /\ pc[t] \in Unnoted
    BY <1>1, <1>6 DEF Unnoted
  <2>7. /\ NotedInv' /\ house_distance_least' \in [HouseIndex -> Nat]
        /\ house_distance_most' \in [HouseIndex -> Nat]
    BY <1>1, <1>7, <2>4, <2>5, <2>6, NotedSet
  <2>8. my' \in [Thread -> Local]
    BY <1>2, <2>1, LocalsType
  <2>9. ValueInv'
    BY <1>1, <1>4, <2>7, <2>8 DEF OwnIInv, ValueInv, Local
  <2>10. SearchInv'
    <3>1. "loop" \notin Searching
      BY DEF Searching
    <3> QED
      BY <1>1, <2>1, <2>5, <3>1, SearchFrame
  <2> QED
    BY <1>5, <2>7, <2>9, <2>10 DEF RestInv
<1>8. CASE my' = [my EXCEPT ![t].q = @ + 1] /\ UNCHANGED <<results, pc>>
  <2>1. my' = [my EXCEPT ![t] = [l EXCEPT !.q = l.q + 1]]
    BY <1>8
  <2>2. /\ [l EXCEPT !.q = l.q + 1] \in Local
        /\ [l EXCEPT !.q = l.q + 1].found = l.found
        /\ [l EXCEPT !.q = l.q + 1].count_end = l.count_end
        /\ [l EXCEPT !.q = l.q + 1].least = l.least
        /\ [l EXCEPT !.q = l.q + 1].most = l.most
        /\ [l EXCEPT !.q = l.q + 1].least_flag = l.least_flag
    BY <1>3, <1>6 DEF Local
  <2>3. Knows(hs, met[s], s, [l EXCEPT !.q = l.q + 1], "prune")
    BY <1>3, <2>2, SameKnows
  <2>4. my' \in [Thread -> Local] /\ my'[t] = [l EXCEPT !.q = l.q + 1]
        /\ \A u \in Thread \ {t} : my'[u] = my[u]
    BY <1>2, <2>1, <2>2
  <2>5. ValueInv'
    BY <1>1, <1>4, <1>8, <2>4 DEF OwnIInv, ValueInv, results, Local
  <2>6. SearchInv'
    <3>1. pc' = [pc EXCEPT ![t] = "prune"]
      BY <1>1, <1>2, <1>8
    <3> QED
      BY <1>1, <2>3, <2>4, <3>1, SearchFrame
  <2>7. NotedInv'
    BY <1>1, <1>8, NotedFrame
  <2> QED
    BY <1>5, <2>5, <2>6, <2>7 DEF RestInv
<1> QED
  BY <1>7, <1>8 DEF Prune

LEMMA PruneEndsRest ==
  ASSUME OwnIInv, NEW t \in Thread, PruneEnds(t)
  PROVE  RestInv'
<1> DEFINE s == start_num[t]
           l == my[t]
           hs == input.house
<1>1. /\ UNCHANGED given /\ UNCHANGED <<g_cnt_global, g_total_max, g_i_max>>
      /\ UNCHANGED <<g_house_distance_i_to_all, results, start_num, my, printed>>
      /\ pc[t] = "prune" /\ pc' = [pc EXCEPT ![t] = AfterHouse(l.count_end)]
  BY DEF PruneEnds, Goto, shared
<1>2. Len(hs) = house_num /\ house_num \in Nat /\ pc \in [Thread -> Place]
  BY Basics
<1>3. s \in Index(hs) /\ Knows(hs, met[s], s, l, "prune")
  BY <1>1, OfThread DEF Searching
<1>4. HouseIndex' = HouseIndex /\ Thread' = Thread
  BY <1>1, Frame
<1>5. Knows(hs, met[s], s, l, IF l.count_end = Len(hs) THEN "report" ELSE "search")
  BY <1>2, <1>3, AfterHouseKnows
<1>6. AfterHouse(l.count_end) = IF l.count_end = Len(hs) THEN "report" ELSE "search"
  BY <1>2 DEF AfterHouse
<1>7. SearchInv'
  BY <1>1, <1>5, <1>6, SearchFrame
<1>8. AfterHouse(l.count_end) \in Unnoted
  BY DEF AfterHouse, Unnoted
<1>9. NotedInv'
  <2>1. \A u \in Thread : pc[u] \in Unnoted => pc'[u] \in Unnoted /\ start_num'[u] = start_num[u]
    BY <1>1, <1>2, <1>8
  <2> QED
    BY <1>1, <2>1, NotedFrame
<1>10. ValueInv'
  BY <1>1, <1>4 DEF OwnIInv, ValueInv, results
<1>11. HintInv' /\ AnswerRight'
  BY <1>1, HintFrame, AnswerFrame DEF OwnIInv
<1> QED
  BY <1>7, <1>9, <1>10, <1>11 DEF RestInv

\* What the thread has found out when it has met all houses.
LEMMA Reported ==
  ASSUME OwnIInv, NEW t \in Thread, pc[t] \in {"report", "raise", "i_max"}
  PROVE  /\ my[t].most \in Nat /\ my[t].least \in Nat /\ my[t].most + 1 =< MostDistance
         /\ start_num[t] =< house_num - 2 =>
               NotedRight(input.house, apart, MostDistance, start_num[t], my[t].least + 1,
                          my[t].most + 1)
         /\ start_num[t] =< house_num - 3 =>
               \A j \in Behind(input.house, start_num[t]) :
                   apart[<<start_num[t], j>>] =< my[t].most + 1
<1> DEFINE s == start_num[t]
           l == my[t]
           hs == input.house
<1>1. /\ AllRight(hs, apart, met) /\ Len(hs) = house_num
      /\ MostDistance \in Nat /\ MostDistance >= 3
  BY Basics
<1>2. /\ s \in Index(hs) /\ l \in Local /\ Knows(hs, met[s], s, l, pc[t])
      /\ \A j \in Index(hs) \ {s} : apart[<<s, j>>] =< MostDistance
  BY OfThread DEF Searching
<1>3. l.most \in Nat /\ l.least \in Nat
  BY <1>2 DEF Local
<1>4. /\ l.most + 1 =< MostDistance
      /\ s =< Len(hs) - 2 => NotedRight(hs, apart, MostDistance, s, l.least + 1, l.most + 1)
      /\ s =< Len(hs) - 3 => \A j \in Behind(hs, s) : apart[<<s, j>>] =< l.most + 1
  BY <1>1, <1>2, ReportRight
<1> QED
  BY <1>1, <1>3, <1>4

LEMMA ReportRest ==
  ASSUME OwnIInv, NEW t \in Thread, Report(t)
  PROVE  RestInv'
<1> DEFINE s == start_num[t]
           l == my[t]
           q == IF g_total_max < l.most + 1 THEN "raise" ELSE "i_max"
<1>1. /\ UNCHANGED given /\ UNCHANGED <<g_cnt_global, g_total_max, g_i_max>>
      /\ UNCHANGED <<g_house_distance_i_to_all, start_num, my, printed>>
      /\ pc[t] = "report" /\ pc' = [pc EXCEPT ![t] = q]
      /\ Results(t, l.least + 1, l.most + 1)
  BY DEF Report, Goto, shared
<1>2. pc \in [Thread -> Place] /\ my \in [Thread -> Local]
  BY Basics
<1>3. /\ l.most \in Nat /\ l.least \in Nat
      /\ s =< house_num - 2 =>
            NotedRight(input.house, apart, MostDistance, s, l.least + 1, l.most + 1)
  BY <1>1, Reported
<1>4. HouseIndex' = HouseIndex /\ Thread' = Thread
  BY <1>1, Frame
<1>5. q \in {"raise", "i_max"}
  OBVIOUS
<1> HIDE DEF q
<1>6. /\ NotedInv' /\ house_distance_least' \in [HouseIndex -> Nat]
      /\ house_distance_most' \in [HouseIndex -> Nat]
  <2>1. l.least + 1 \in Nat /\ l.most + 1 \in Nat /\ l.least + 1 # 0 /\ pc[t] \in Unnoted
    BY <1>1, <1>3 DEF Unnoted
  <2>2. \A u \in Thread \ {t} : pc'[u] = pc[u]
    BY <1>1, <1>2
  <2> QED
    BY <1>1, <1>3, <2>1, <2>2, NotedSet
<1>7. ValueInv'
  BY <1>1, <1>4, <1>6 DEF OwnIInv, ValueInv
<1>8. SearchInv'
  <2>1. Knows(input.house, met[s], s, l, "report")
    BY <1>1, OfThread DEF Searching
  <2>2. Knows(input.house, met[s], s, l, q)
    BY <1>5, <2>1 DEF Knows
  <2> QED
    BY <1>1, <2>2, SearchFrame
<1>9. HintInv' /\ AnswerRight'
  BY <1>1, HintFrame, AnswerFrame DEF OwnIInv
<1> QED
  BY <1>6, <1>7, <1>8, <1>9 DEF RestInv

LEMMA RaiseRest ==
  ASSUME OwnIInv, NEW t \in Thread, Raise(t)
  PROVE  RestInv'
<1> DEFINE s == start_num[t]
           l == my[t]
<1>1. /\ UNCHANGED given /\ UNCHANGED <<g_cnt_global, g_i_max>>
      /\ UNCHANGED <<g_house_distance_i_to_all, results, start_num, my, printed>>
      /\ pc[t] = "raise" /\ pc' = [pc EXCEPT ![t] = "i_max"]
      /\ g_total_max' = l.most + 1
  BY DEF Raise, Goto
<1>2. pc \in [Thread -> Place]
  BY Basics
<1>3. l.most \in Nat /\ l.most + 1 =< MostDistance
  BY <1>1, Reported
<1>4. HouseIndex' = HouseIndex /\ Thread' = Thread /\ apart' = apart /\ house_num' = house_num
      /\ MostDistance' = MostDistance
  BY <1>1, Frame
<1>5. ValueInv'
  BY <1>1, <1>3, <1>4 DEF OwnIInv, ValueInv, results
<1>6. HintInv'
  BY <1>1, <1>3, <1>4 DEF OwnIInv, HintInv, HintsAreTrue
<1>7. SearchInv'
  <2>1. Knows(input.house, met[s], s, l, "raise")
    BY <1>1, OfThread DEF Searching
  <2>2. Knows(input.house, met[s], s, l, "i_max")
    BY <2>1 DEF Knows
  <2> QED
    BY <1>1, <2>2, SearchFrame
<1>8. NotedInv'
  <2>1. \A u \in Thread : pc[u] \in Unnoted => pc'[u] \in Unnoted /\ start_num'[u] = start_num[u]
    BY <1>1, <1>2 DEF Unnoted
  <2> QED
    BY <1>1, <2>1, NotedFrame
<1>9. AnswerRight'
  BY <1>1, AnswerFrame DEF OwnIInv
<1> QED
  BY <1>5, <1>6, <1>7, <1>8, <1>9 DEF RestInv

LEMMA SetIMaxRest ==
  ASSUME OwnIInv, NEW t \in Thread, SetIMax(t)
  PROVE  RestInv'
<1> DEFINE s == start_num[t]
           l == my[t]
<1>1. /\ UNCHANGED given /\ UNCHANGED <<g_cnt_global, g_total_max>>
      /\ UNCHANGED <<g_house_distance_i_to_all, results, start_num, printed>>
      /\ pc[t] = "i_max" /\ pc' = [pc EXCEPT ![t] = "loop"]
      /\ my' = [my EXCEPT ![t] = Locals(0)]
      /\ g_i_max' = [g_i_max EXCEPT ![s] = l.most + 1]
  BY DEF SetIMax, Return, Goto
<1>2. /\ pc \in [Thread -> Place] /\ my \in [Thread -> Local] /\ house_num \in Nat
      /\ s \in HouseIndex /\ g_i_max \in [HouseIndex -> Nat]
      /\ Behind(input.house, s) = s + 1 .. house_num - 1
      /\ \A i, j \in HouseIndex : apart[<<i, j>>] \in Nat
  BY <1>1, Basics DEF Searching, OwnIInv, ValueInv
<1>3. /\ l.most \in Nat
      /\ s =< house_num - 3 =>
            \A j \in Behind(input.house, s) : apart[<<s, j>>] =< l.most + 1
  BY <1>1, Reported
<1>4. HouseIndex' = HouseIndex /\ Thread' = Thread /\ apart' = apart /\ house_num' = house_num
      /\ MostDistance' = MostDistance
  BY <1>1, Frame
<1>5. ValueInv'
  <2>1. g_i_max' \in [HouseIndex -> Nat] /\ my' \in [Thread -> Local]
    BY <1>1, <1>2, <1>3, LocalsType
  <2> QED
    BY <1>1, <1>4, <2>1 DEF OwnIInv, ValueInv, results, Local
<1>6. ASSUME NEW i \in 0 .. house_num - 3, g_i_max'[i] # 0
      PROVE  \A j \in i + 1 .. house_num - 1 : g_i_max'[i] >= apart[<<i, j>>]
  <2>1. i \in HouseIndex
    BY <1>2 DEF HouseIndex
  <2>2. CASE i = s
    <3>1. g_i_max'[i] = l.most + 1 /\ s =< house_num - 3
      BY <1>1, <1>2, <2>1, <2>2
    <3>2. \A j \in i + 1 .. house_num - 1 : apart[<<i, j>>] =< l.most + 1
      BY <1>2, <1>3, <2>2, <3>1
    <3>3. \A j \in i + 1 .. house_num - 1 : apart[<<i, j>>] \in Nat
      BY <1>2, <2>1 DEF HouseIndex
    <3> QED
      BY <1>3, <3>1, <3>2, <3>3
  <2>3. CASE i # s
    <3>1. g_i_max'[i] = g_i_max[i]
      BY <1>1, <1>2, <2>1, <2>3
    <3> QED
      BY <1>6, <3>1 DEF OwnIInv, HintInv, HintsAreTrue
  <2> QED
    BY <2>2, <2>3
<1>7. HintInv'
  <2>1. \A i \in 0 .. house_num' - 3 : g_i_max'[i] # 0 =>
           \A j \in i + 1 .. house_num' - 1 : g_i_max'[i] >= apart'[<<i, j>>]
    BY <1>4, <1>6
  <2> QED
    BY <1>1, <1>4, <2>1 DEF OwnIInv, HintInv, HintsAreTrue
<1>8. SearchInv'
  <2>1. \A u \in Thread \ {t} : my'[u] = my[u] /\ start_num'[u] = start_num[u]
    BY <1>1, <1>2
  <2>2. "loop" \notin Searching
    BY DEF Searching
  <2> QED
    BY <1>1, <2>1, <2>2, SearchFrame
<1>9. NotedInv'
  <2>1. \A u \in Thread : pc[u] \in Unnoted => pc'[u] \in Unnoted /\ start_num'[u] = start_num[u]
    BY <1>1, <1>2 DEF Unnoted
  <2> QED
    BY <1>1, <2>1, NotedFrame
<1>10. AnswerRight'
  BY <1>1, AnswerFrame DEF OwnIInv
<1> QED
  BY <1>5, <1>7, <1>8, <1>9, <1>10 DEF RestInv

----------------------------------------------------------------------------
(* The answer.                                                             *)

\* When all threads have ended, every house to search is noted.
LEMMA AllNoted ==
  ASSUME OwnIInv, \A t \in Thread : pc[t] = "end"
  PROVE  \A s \in 0 .. house_num - 2 :
            NotedRight(input.house, apart, MostDistance, s, house_distance_least[s],
                       house_distance_most[s])
<1>1. house_num \in Nat /\ house_num >= 3 /\ g_cnt_global \in Nat
  BY Basics
<1>2. 1 \in Thread
  <2>1. \E x \in {NUM_THREAD, house_num - 1} : \A y \in {NUM_THREAD, house_num - 1} : x =< y
    BY <1>1, ThreadAssumption
  <2>2. Min({NUM_THREAD, house_num - 1}) \in {NUM_THREAD, house_num - 1}
    BY <2>1 DEF Min
  <2> QED
    BY <1>1, <2>2, ThreadAssumption DEF Thread
<1>3. g_cnt_global >= house_num - 1
  BY <1>2 DEF OwnIInv, DrawIInv, DrawInv
<1>4. ASSUME NEW s \in 0 .. house_num - 2
      PROVE  NotedRight(input.house, apart, MostDistance, s, house_distance_least[s],
                        house_distance_most[s])
  <2>1. s < g_cnt_global
    BY <1>1, <1>3
  <2>2. ~ \E t \in Thread : pc[t] \in Unnoted /\ start_num[t] = s
    BY DEF Unnoted
  <2> QED
    BY <2>1, <2>2 DEF OwnIInv, NotedInv
<1> QED
  BY <1>4

LEMMA AnswerIsRight ==
  ASSUME OwnIInv, \A t \in Thread : pc[t] = "end"
  PROVE  /\ Min({house_distance_least[s] : s \in 0 .. house_num - 2}) = LeastDistance
         /\ Max({house_distance_most[s] : s \in 0 .. house_num - 2}) = MostDistance
<1> DEFINE S == 0 .. house_num - 2
           L == {house_distance_least[s] : s \in S}
           M == {house_distance_most[s] : s \in S}
           hs == input.house
<1>1. /\ house_num \in Nat /\ house_num >= 3 /\ Len(hs) = house_num /\ HouseIndex = Index(hs)
      /\ \A s : Behind(hs, s) = s + 1 .. house_num - 1
      /\ \A i, j \in HouseIndex : apart[<<i, j>>] \in Nat
      /\ AllRight(hs, apart, met)
  BY Basics
<1>2. IsFiniteSet(S) /\ S # {} /\ S \subseteq HouseIndex
  <2>1. IsFiniteSet(S)
    BY <1>1, FS_Interval
  <2>2. 0 \in S
    BY <1>1
  <2>3. S \subseteq HouseIndex
    <3> HIDE DEF hs
    <3> QED
      BY <1>1 DEF HouseIndex
  <2> QED
    BY <2>1, <2>2, <2>3
<1>3. \A s \in S : house_distance_least[s] \in Nat /\ house_distance_most[s] \in Nat
  BY <1>2 DEF OwnIInv, ValueInv
<1>4. \A s \in S : NotedRight(hs, apart, MostDistance, s, house_distance_least[s],
                              house_distance_most[s])
  BY AllNoted
<1>5. /\ LeastDistance \in Nat /\ MostDistance \in Nat
      /\ \E i, j \in HouseIndex : i < j /\ LeastDistance = apart[<<i, j>>]
      /\ \E i, j \in HouseIndex : i < j /\ MostDistance = apart[<<i, j>>]
      /\ \A i, j \in HouseIndex : i # j => LeastDistance =< apart[<<i, j>>]
      /\ \A i, j \in HouseIndex : i # j => apart[<<i, j>>] =< MostDistance
  BY Extremes DEF OwnIInv
<1>6. L \subseteq Nat /\ Min(L) \in L /\ \A y \in L : Min(L) =< y
  <2>1. PICK T : T = L
    OBVIOUS
  <2> HIDE DEF S, L
  <2>2. T = {house_distance_least[s] : s \in S}
    BY <2>1 DEF L
  <2>3. T \subseteq Nat /\ Min(T) \in T /\ \A y \in T : Min(T) =< y
    BY <1>2, <1>3, <2>2, MinMaxOf, ZenonT(60)
  <2> QED
    BY <2>1, <2>3
<1>7. M \subseteq Nat /\ Max(M) \in M /\ \A y \in M : y =< Max(M)
  <2>1. PICK T : T = M
    OBVIOUS
  <2> HIDE DEF S, M
  <2>2. T = {house_distance_most[s] : s \in S}
    BY <2>1 DEF M
  <2>3. T \subseteq Nat /\ Max(T) \in T /\ \A y \in T : y =< Max(T)
    BY <1>2, <1>3, <2>2, MinMaxOf, ZenonT(60)
  <2> QED
    BY <2>1, <2>3
<1>8. Min(L) = LeastDistance
  <2>1. PICK s \in S : Min(L) = house_distance_least[s]
    BY <1>6
  <2>2. PICK j \in Index(hs) \ {s} : house_distance_least[s] = apart[<<s, j>>]
    BY <1>4 DEF NotedRight, IsNearest
  <2>3. LeastDistance =< Min(L)
    BY <1>1, <1>2, <1>5, <2>1, <2>2
  <2>4. PICK a, b \in HouseIndex : a < b /\ LeastDistance = apart[<<a, b>>]
    BY <1>5
  <2>5. a \in S /\ b # a
    BY <1>1, <2>4 DEF HouseIndex
  <2>6. house_distance_least[a] =< apart[<<a, b>>]
    BY <1>1, <1>4, <2>4, <2>5 DEF NotedRight, IsNearest
  <2>7. house_distance_least[a] \in L
    BY <2>5
  <2>8. Min(L) =< house_distance_least[a] /\ Min(L) \in Nat /\ house_distance_least[a] \in Nat
    BY <1>6, <2>7
  <2> HIDE DEF L
  <2> QED
    BY <1>5, <2>3, <2>4, <2>6, <2>8
<1>9. \E s \in S : MostDistance =< house_distance_most[s]
  <2>1. PICK a, b \in HouseIndex : a < b /\ MostDistance = apart[<<a, b>>]
    BY <1>5
  <2>2. a \in S /\ b \in Behind(hs, a) /\ a \in Nat
    BY <1>1, <2>1 DEF HouseIndex
  <2>3. /\ IsNearest(hs, apart, a, house_distance_least[a])
        /\ \/ \A j \in Behind(hs, a) : apart[<<a, j>>] =< house_distance_most[a]
           \/ \A j \in Behind(hs, a) : apart[<<a, j>>] < MostDistance
           \/ a = Len(hs) - 2 /\ house_distance_least[a] = apart[<<a, a + 1>>]
    BY <1>4, <2>2 DEF NotedRight
  <2>4. CASE \A j \in Behind(hs, a) : apart[<<a, j>>] =< house_distance_most[a]
    BY <2>1, <2>2, <2>4
  <2>5. CASE \A j \in Behind(hs, a) : apart[<<a, j>>] < MostDistance
    <3>1. apart[<<a, b>>] < MostDistance
      BY <2>2, <2>5
    <3> QED
      BY <1>5, <2>1, <3>1
  <2>6. CASE a = Len(hs) - 2 /\ house_distance_least[a] = apart[<<a, a + 1>>]
    <3>1. b = a + 1 /\ 0 \in HouseIndex /\ a # 0 /\ 0 \in S /\ a \in Behind(hs, 0)
      BY <1>1, <2>1, <2>2, <2>6 DEF HouseIndex
    <3>2. MostDistance =< apart[<<a, 0>>]
      BY <1>1, <2>1, <2>3, <2>6, <3>1 DEF IsNearest
    <3>3. apart[<<a, 0>>] = apart[<<0, a>>] /\ apart[<<a, 0>>] \in Nat
          /\ apart[<<a, 0>>] =< MostDistance
      BY <1>1, <1>5, <2>1, <3>1 DEF AllRight
    <3>4. apart[<<0, a>>] = MostDistance
      BY <1>5, <3>2, <3>3
    <3>5. \/ \A j \in Behind(hs, 0) : apart[<<0, j>>] =< house_distance_most[0]
          \/ \A j \in Behind(hs, 0) : apart[<<0, j>>] < MostDistance
          \/ 0 = Len(hs) - 2
      BY <1>4, <3>1 DEF NotedRight
    <3>6. ~ (apart[<<0, a>>] < MostDistance) /\ 0 # Len(hs) - 2
      BY <1>1, <1>5, <3>4
    <3>7. apart[<<0, a>>] =< house_distance_most[0]
      BY <3>1, <3>5, <3>6
    <3> QED
      BY <3>1, <3>4, <3>7
  <2> QED
    BY <2>3, <2>4, <2>5, <2>6
<1>10. Max(M) = MostDistance
  <2>1. PICK s \in S : Max(M) = house_distance_most[s]
    BY <1>7
  <2>2. Max(M) =< MostDistance
    BY <1>4, <2>1 DEF NotedRight
  <2>3. PICK r \in S : MostDistance =< house_distance_most[r]
    BY <1>9
  <2>4. house_distance_most[r] \in M
    OBVIOUS
  <2>5. house_distance_most[r] =< Max(M) /\ Max(M) \in Nat /\ house_distance_most[r] \in Nat
    BY <1>7, <2>4
  <2> HIDE DEF M
  <2> QED
    BY <1>5, <2>2, <2>3, <2>5
<1> QED
  BY <1>8, <1>10

LEMMA AnswerRest ==
  ASSUME OwnIInv, Answer
  PROVE  RestInv'
<1>1. /\ UNCHANGED given /\ UNCHANGED <<g_cnt_global, g_total_max, g_i_max>>
      /\ UNCHANGED <<g_house_distance_i_to_all, results, pc, start_num, my>>
      /\ \A t \in Thread : pc[t] = "end"
      /\ printed' = <<Min({house_distance_least[s] : s \in 0 .. house_num - 2}),
                      Max({house_distance_most[s] : s \in 0 .. house_num - 2})>>
  BY DEF Answer, shared
<1>2. HouseIndex' = HouseIndex /\ Thread' = Thread /\ MostDistance' = MostDistance
      /\ LeastDistance' = LeastDistance /\ input' = input /\ met' = met
  BY <1>1, Frame
<1>3. AnswerRight'
  <2>1. printed' = <<LeastDistance, MostDistance>>
    BY <1>1, AnswerIsRight
  <2> QED
    BY <1>2, <2>1 DEF AnswerRight
<1>4. ValueInv'
  BY <1>1, <1>2 DEF OwnIInv, ValueInv, results
<1>5. SearchInv'
  BY <1>1, <1>2 DEF OwnIInv, SearchInv, Searching
<1>6. HintInv'
  BY <1>1, HintFrame DEF OwnIInv
<1>7. NotedInv'
  BY <1>1, NotedFrame
<1> QED
  BY <1>3, <1>4, <1>5, <1>6, <1>7 DEF RestInv

----------------------------------------------------------------------------
(* The invariant holds.                                                    *)

LEMMA OwnInit ==
  ASSUME Init, WalksRight
  PROVE  OwnIInv
<1>1. DrawIInv
  BY DrawInit
<1>2. /\ house_num \in Nat /\ apart \in [HouseIndex \X HouseIndex -> Nat]
      /\ MostDistance \in Nat
  BY Extremes DEF WalksRight, AllRight, HouseIndex, Index, house_num
<1>3. Locals(0) \in Local
  BY LocalsType
<1>4. ValueInv
  BY <1>3 DEF Init, ValueInv, Local
<1>5. SearchInv
  BY DEF Init, SearchInv, Searching
<1>6. HintInv
  <2>1. \A s \in 0 .. house_num - 3 : s \in HouseIndex
    BY <1>2 DEF HouseIndex
  <2> QED
    BY <1>2, <2>1 DEF Init, HintInv, HintsAreTrue
<1>7. NotedInv
  <2>1. \A s \in 0 .. house_num - 2 : s \in HouseIndex /\ ~ (s < 0)
    BY <1>2 DEF HouseIndex
  <2> QED
    BY <2>1 DEF Init, NotedInv
<1>8. AnswerRight
  BY DEF Init, AnswerRight
<1> QED
  BY <1>1, <1>4, <1>5, <1>6, <1>7, <1>8 DEF OwnIInv

LEMMA OwnNext ==
  ASSUME OwnIInv, [Next]_vars
  PROVE  OwnIInv'
<1>1. DrawIInv' /\ UNCHANGED given
  BY DrawNext DEF OwnIInv
<1>2. WalksRight'
  BY <1>1, Frame DEF OwnIInv
<1>3. RestInv'
  <2>1. CASE UNCHANGED vars
    <3>1. /\ UNCHANGED <<g_cnt_global, g_total_max, g_i_max, g_house_distance_i_to_all>>
          /\ UNCHANGED <<results, pc, start_num, my, printed>>
      BY <2>1 DEF vars, shared
    <3>2. HouseIndex' = HouseIndex /\ Thread' = Thread /\ input' = input /\ met' = met
      BY <1>1, Frame
    <3>3. ValueInv'
      BY <3>1, <3>2 DEF OwnIInv, ValueInv, results
    <3>4. SearchInv'
      BY <3>1, <3>2 DEF OwnIInv, SearchInv, Searching
    <3>5. HintInv' /\ AnswerRight'
      BY <1>1, <3>1, HintFrame, AnswerFrame DEF OwnIInv
    <3>6. NotedInv'
      BY <1>1, <3>1, NotedFrame
    <3> QED
      BY <3>3, <3>4, <3>5, <3>6 DEF RestInv
  <2>2. CASE Next
    BY <2>2, TestRest, DrawRest, MeetRest, PruneRest, PruneEndsRest, ReportRest, RaiseRest,
       SetIMaxRest, AnswerRest DEF Next
  <2> QED
    BY <2>1, <2>2
<1> QED
  BY <1>1, <1>2, <1>3 DEF OwnIInv, RestInv

LEMMA EitherOwn == EitherSpec => [](Own => OwnIInv)
<1> DEFINE I == Own => OwnIInv
<1>1. EitherInit => I
  <2> SUFFICES ASSUME EitherInit, Own PROVE OwnIInv
    OBVIOUS
  <2>1. Init
    BY DEF EitherInit
  <2>2. Presupposed(input)
    BY <2>1, OwnAssumption DEF Init, InputInit, Own
  <2> QED
    BY <2>1, <2>2, WalksAreRight, OwnInit
<1>2. I /\ [EitherNext]_allVars => I'
  <2> SUFFICES ASSUME I, [EitherNext]_allVars, Own' PROVE OwnIInv'
    OBVIOUS
  <2>1. CASE Own /\ [Next]_vars
    BY <2>1, OwnNext
  <2>2. CASE ~Own /\ (Meeting!Next \/ UNCHANGED vars)
    <3>1. input' = input
      BY <2>2, MeetingKeepsInput DEF vars, given
    <3> QED
      BY <2>2, <3>1 DEF Own
  <2> QED
    BY <2>1, <2>2 DEF EitherNext, allVars
<1> QED
  BY <1>1, <1>2, PTL DEF EitherSpec

\* What the threads of Project1.cpp tell each other without a lock is true: the
\* distances, the greatest distance of a house, and g_total_max, which a slow
\* thread may lower but nobody raises above the answer.
THEOREM HintsStayTrue == EitherSpec => []OwnHintsAreTrue
<1>1. (Own => OwnIInv) => OwnHintsAreTrue
  BY DEF OwnIInv, HintInv, OwnHintsAreTrue
<1> QED
  BY <1>1, EitherOwn, PTL

\* Project1.cpp prints the least and the greatest distance of two houses, for
\* every input it presupposes and every order in which the threads draw houses,
\* cut searches short and race for g_total_max.
THEOREM PrintsRight == EitherSpec => []OwnAnswerRight
<1>1. (Own => OwnIInv) => OwnAnswerRight
  BY DEF OwnIInv, OwnAnswerRight
<1> QED
  BY <1>1, EitherOwn, PTL

=============================================================================
