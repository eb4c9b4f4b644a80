-------------------------- MODULE SimpleMVCCProofs --------------------------
(***************************************************************************)
(* Proofs about SimpleMVCC for every number of threads and every bound on  *)
(* the versions: registered readers never meet a freed node and read the   *)
(* version they should, whatever the collector does.  The only hypothesis  *)
(* is that versions fit in an int, which AddRear needs.                    *)
(***************************************************************************)
EXTENDS SimpleMVCC, FiniteSetTheorems, FunctionTheorems, SequenceTheorems,
        WellFoundedInduction, TLAPS

\* The versions that AddRear can store.
Fits == MaxVersion =< IntMax

Busy == {"load", "walk", "update", "finish"}

\* A version is set aside for every thread that is about to draw one.
ReserveInv ==
    g_atomic_counter + Cardinality({t \in Thread : pc[t] = "pick"}) =< MaxVersion

\* A thread is in the active list exactly during its update, and its list
\* ends with the new version once that is inserted.
ActiveInv ==
    \A t \in Thread :
        /\ pc[t] \in Busy <=> g_active_list[t] # NULL
        /\ g_active_list[t] # NULL => 1 =< g_active_list[t] /\ g_active_list[t] =< g_atomic_counter
        /\ pc[t] \in Busy \ {"finish"} => g_singly_list[t] < g_active_list[t]
        /\ pc[t] = "finish" => g_singly_list[t] = g_active_list[t]
        /\ g_singly_list[t] =< g_atomic_counter

\* A version belongs to one thread.
UniqueInv ==
    \A t, u \in Thread : t # u =>
        /\ g_active_list[t] # NULL =>
             g_active_list[t] # g_active_list[u] /\ ~Exists(u, g_active_list[t])
        /\ \A v \in Version \ {0} : ~(Exists(t, v) /\ Exists(u, v))

\* The link of an allocated node leads to the version before it; a list that
\* ends has lost only versions below minimum.
LinkOK(p, v) ==
    IF link[p][v] = NULL
      THEN \A w \in Version : Exists(p, w) /\ w < v => w < minimum[p]
      ELSE /\ Live(p, link[p][v])
           /\ \A w \in Version : Exists(p, w) /\ w < v => w =< link[p][v]

ListInv ==
    \A p \in Thread :
        /\ Exists(p, g_singly_list[p])
        /\ Exists(p, minimum[p])
        /\ \A v \in Version : Exists(p, v) =>
             /\ v =< g_singly_list[p]
             /\ link[p][v] < v
             /\ minimum[p] =< v => Live(p, v)
        /\ \A v \in Version : Live(p, v) => LinkOK(p, v)

\* Thread p has begun version v and none before v is still to come.
Reached(p, v) ==
    /\ g_active_list[p] = v \/ Exists(p, v)
    /\ g_active_list[p] # NULL => v =< g_active_list[p]

QueueInv ==
    \A p \in Thread :
        /\ minimum[p] =< delete_front[p]
        /\ Reached(p, delete_front[p])
        /\ g_active_list[p] # NULL => minimum[p] < g_active_list[p]
        /\ \A n \in 1 .. Len(g_queue[p]) :
             /\ g_queue[p][n] \in Version
             /\ minimum[p] < g_queue[p][n]
             /\ delete_front[p] =< g_queue[p][n]
             /\ Reached(p, g_queue[p][n])
             /\ \A m \in 1 .. n : g_queue[p][m] =< g_queue[p][n]

\* Every registered reader has an entry of its own.
Readers(p) == {t \in Thread : Registered(t) /\ picked_thread_index[t] = p}

Slots(p, slot) ==
    /\ slot \in [Readers(p) -> 1 .. Len(g_queue[p])]
    /\ \A t \in Readers(p) : g_queue[p][slot[t]] = active_thread_version[t]
    /\ \A t, u \in Readers(p) : slot[t] = slot[u] => t = u
    /\ \A n \in 1 .. Len(g_queue[p]) : \E t \in Readers(p) : slot[t] = n

SlotInv == \A p \in Thread : \E slot : Slots(p, slot)

\* A reader stands at or above the newest version it may read.
ReaderInv ==
    \A t \in Thread :
        LET p == picked_thread_index[t]
            v == active_thread_version[t]
            c == cursor_singly_node[t]
        IN  /\ Registered(t) => pc[t] \in Busy
            /\ pc[t] \in Busy => p # t
            /\ pc[t] = "walk" => Registered(t)
            /\ pc[t] \in {"walk", "update"} => c \in Version
            /\ Registered(t) /\ pc[t] \in {"walk", "update"} =>
                 /\ Exists(p, c)
                 /\ c < v => \A w \in Version : Exists(p, w) /\ w < v => w =< c
            /\ Registered(t) /\ pc[t] = "update" => c < v

\* What the collector knows of the list it works on.
GcInv ==
    /\ gc.pc \in {"head", "scan", "free"} => gc.minimum =< minimum[gc.i]
    /\ gc.pc = "scan" /\ gc.tmp # NULL => Live(gc.i, gc.tmp)
    /\ gc.pc = "scan" /\ gc.back # NULL =>
         /\ Live(gc.i, gc.back)
         /\ ~Garbage(gc.back)
         /\ link[gc.i][gc.back] = gc.tmp
    /\ gc.pc = "scan" /\ gc.back = NULL => gc.tmp # NULL /\ ~Garbage(gc.tmp)
    /\ gc.pc = "free" /\ gc.tmp # NULL =>
         /\ Live(gc.i, gc.tmp)
         /\ Garbage(gc.tmp)
         /\ \A v \in Version : Live(gc.i, v) => link[gc.i][v] # gc.tmp

MainInv == main.pc \in {"count", "print"} => main.i < N

IInv ==
    /\ Fits /\ TypeOK /\ ReserveInv /\ ActiveInv /\ UniqueInv /\ ListInv
    /\ QueueInv /\ SlotInv /\ ReaderInv /\ GcInv /\ MainInv

----------------------------------------------------------------------------
\* What the constants and the sets built from them are.
LEMMA Constants ==
    /\ N \in Nat /\ MaxVersion \in Nat /\ 0 \in Version
    /\ WordSize \in Nat /\ MaxVersion < WordSize
    /\ \A v \in Version : v \in Int /\ 0 =< v /\ v =< MaxVersion /\ v # NULL
    /\ \A n \in Node : n \in Int /\ (n # NULL => n \in Version)
    /\ NULL \in Node /\ NULL \in Int /\ NULL < 0
    /\ \A v \in Version : v \in Node
    /\ \A i : i \in Thread <=> i \in Int /\ 0 =< i /\ i < N
  BY NAssumption, VersionAssumption, WordAssumption DEF Version, Node, NULL, Thread

\* The parts of the type invariant.
MainType ==
    /\ g_could_thread_run \in BOOLEAN /\ g_is_verbosing \in BOOLEAN
    /\ main \in [pc : {"sleep", "dump", "count", "print", "join", "done"},
                 tick : 0 .. Ticks, i : 0 .. N, tmp : Node, head : Node]

GcType ==
    gc \in [pc : {"top", "minimum", "head", "scan", "free", "done"},
            i : Thread, minimum : Version, tmp : Node, back : Node]

ListType ==
    /\ g_singly_list \in [Thread -> Version]
    /\ link \in [Thread -> [Version -> Node]]
    /\ memory \in [Thread -> [Version -> {"none", "live", "freed"}]]

SharedType ==
    /\ g_atomic_counter \in Version
    /\ g_active_list \in [Thread -> Node]
    /\ g_queue \in [Thread -> Seq(0 .. WordSize - 1)]
    /\ minimum \in [Thread -> Version] /\ delete_front \in [Thread -> Version]

LocalType ==
    /\ g_thread_throughput \in [Thread -> Nat]
    /\ pc \in [Thread -> {"top", "pick", "load", "walk", "update", "finish", "done"}]
    /\ picked_thread_index \in [Thread -> Thread]
    /\ active_thread_version \in [Thread -> Version]
    /\ cursor_singly_node \in [Thread -> Node]

\* TypeOK is the conjunction of its parts.
LEMMA TypeParts ==
    TypeOK <=> MainType /\ GcType /\ ListType /\ SharedType /\ LocalType
  BY DEF TypeOK, MainType, GcType, ListType, SharedType, LocalType

\* The state in which main starts the threads satisfies the invariant.
LEMMA InductiveInit == Fits /\ Init => IInv
  <1> SUFFICES ASSUME Fits, Init PROVE IInv
    OBVIOUS
  <1> USE Constants DEF Init
  <1>1. TypeOK
    <2>1. 0 \in Thread
      BY NAssumption DEF Thread
    <2>2. <<>> \in Seq(0 .. WordSize - 1)
      OBVIOUS
    <2>3. gc \in [pc : {"top", "minimum", "head", "scan", "free", "done"},
                  i : Thread, minimum : Version, tmp : Node, back : Node]
      BY <2>1
    <2>4. main \in [pc : {"sleep", "dump", "count", "print", "join", "done"},
                    tick : 0 .. Ticks, i : 0 .. N, tmp : Node, head : Node]
      BY TicksAssumption
    <2>5. link \in [Thread -> [Version -> Node]]
      OBVIOUS
    <2>6. memory \in [Thread -> [Version -> {"none", "live", "freed"}]]
      OBVIOUS
    <2>7. g_queue \in [Thread -> Seq(0 .. WordSize - 1)]
      BY <2>2 DEF CreateQueue
    <2> QED  BY <2>3, <2>4, <2>5, <2>6, <2>7 DEF TypeOK
  <1>2. ReserveInv
    <2>1. {t \in Thread : pc[t] = "pick"} = {}
      OBVIOUS
    <2>2. Cardinality({t \in Thread : pc[t] = "pick"}) = 0
      BY <2>1, FS_EmptySet, Zenon
    <2> QED  BY <2>2 DEF ReserveInv
  <1>3. ActiveInv /\ UniqueInv
    BY DEF ActiveInv, UniqueInv, Busy, Exists
  <1>4. ListInv
    BY DEF ListInv, LinkOK, Exists, Live
  <1>5. QueueInv
    BY DEF QueueInv, Reached, Exists, CreateQueue
  <1>6. SlotInv
    <2> SUFFICES ASSUME NEW p \in Thread
                 PROVE  Slots(p, [t \in {} |-> 0])
      BY DEF SlotInv
    <2>1. Readers(p) = {} /\ Len(g_queue[p]) = 0
      BY DEF Readers, Registered, CreateQueue
    <2> QED  BY <2>1 DEF Slots
  <1>7. ReaderInv /\ GcInv /\ MainInv
    BY DEF ReaderInv, GcInv, MainInv, Registered, Busy
  <1> QED  BY <1>1, <1>2, <1>3, <1>4, <1>5, <1>6, <1>7 DEF IInv

\* What only concerns the threads and the lists does not change in a step of
\* main, or of the collector outside GcCut and GcFree.
DataInv ==
    ReserveInv /\ ActiveInv /\ UniqueInv /\ ListInv /\ QueueInv /\ SlotInv /\ ReaderInv

\* Steps that leave lists, queues and threads alone keep DataInv.
LEMMA DataFrame ==
  ASSUME DataInv, UNCHANGED <<lists, shared, locals, pc>> PROVE DataInv'
  <1> USE DEF lists, shared, locals
  <1>1. ReserveInv'  BY DEF DataInv, ReserveInv
  <1>2. ActiveInv'   BY DEF DataInv, ActiveInv
  <1>3. UniqueInv'   BY DEF DataInv, UniqueInv, Exists
  <1>4. ListInv'     BY DEF DataInv, ListInv, LinkOK, Exists, Live
  <1>5. QueueInv'    BY DEF DataInv, QueueInv, Reached, Exists
  <1>6. SlotInv'
    <2> SUFFICES ASSUME NEW p \in Thread PROVE \E slot : Slots(p, slot)'
      BY DEF SlotInv
    <2>1. PICK slot : Slots(p, slot)
      BY DEF DataInv, SlotInv
    <2>2. Slots(p, slot)'
      BY <2>1 DEF Slots, Readers, Registered
    <2> QED  BY <2>2
  <1>7. ReaderInv'   BY DEF DataInv, ReaderInv, Registered, Exists
  <1> QED  BY <1>1, <1>2, <1>3, <1>4, <1>5, <1>6, <1>7 DEF DataInv

----------------------------------------------------------------------------
(* Steps of main.                                                          *)

\* main's loops stay within the lists: i runs up to g_num_thread.
LEMMA MainTypeStep ==
  ASSUME MainType, ListType, MainInv, Main PROVE MainType' /\ MainInv'
  <1> USE Constants, TicksAssumption DEF MainType, MainInv, flags
  <1>1. CASE Tick
    <2>1. main.tick + 1 \in 0 .. Ticks /\ 0 \in 0 .. N
      BY <1>1 DEF Tick
    <2>2. g_could_thread_run' \in BOOLEAN /\ g_is_verbosing' \in BOOLEAN
      BY <1>1, VerboseAssumption, Zenon DEF Tick
    <2>3. \E where \in {"dump", "sleep"} :
            main' = [main EXCEPT !.tick = main.tick + 1, !.i = 0, !.pc = where]
      BY <1>1, Zenon DEF Tick
    <2> QED  BY <2>1, <2>2, <2>3
  <1>2. CASE DumpHead
    <2>1. main.i \in Thread /\ g_singly_list[main.i] \in Node
      BY <1>2 DEF DumpHead, ListType
    <2> QED  BY <1>2, <2>1 DEF DumpHead
  <1>3. CASE DumpNode
    <2>1. PICK next \in LinksSeen(main.i, main.tmp) :
            main' = [main EXCEPT !.tmp = next]
      BY <1>3 DEF DumpNode
    <2>2. main.i \in Thread /\ main.tmp \in Version
      BY <1>3 DEF DumpNode
    <2>3. link[main.i][main.tmp] \in Node
      BY <2>2 DEF ListType
    <2>4. next \in Node
      BY <2>1, <2>3 DEF LinksSeen
    <2> QED  BY <1>3, <2>1, <2>4 DEF DumpNode
  <1>4. CASE DumpRewind
    BY <1>4 DEF DumpRewind
  <1>5. CASE DumpNextList
    <2>1. main.i + 1 \in 0 .. N
      BY <1>5 DEF DumpNextList
    <2> QED  BY <1>5, <2>1 DEF DumpNextList
  <1>6. CASE DumpDone
    <2>1. 0 \in 0 .. N
      OBVIOUS
    <2> QED  BY <1>6, <2>1 DEF DumpDone
  <1>7. CASE StopAll       BY <1>7 DEF StopAll
  <1>8. CASE Join          BY <1>8 DEF Join
  <1> QED  BY <1>1, <1>2, <1>3, <1>4, <1>5, <1>6, <1>7, <1>8 DEF Main

\* main, the dump included, only reads what the threads share.
LEMMA MainStep == IInv /\ Main => IInv'
  <1> SUFFICES ASSUME IInv, Main PROVE IInv'
    OBVIOUS
  <1>1. UNCHANGED <<lists, shared, locals, g_thread_throughput, pc, gc>>
    BY DEF Main, Tick, DumpHead, DumpNode, DumpRewind, DumpNextList, DumpDone,
       StopAll, Join, MainLocal
  <1>2. DataInv'
    BY <1>1, DataFrame DEF IInv, DataInv
  <1>3. MainType' /\ MainInv'
    BY MainTypeStep, TypeParts DEF IInv
  <1>4. TypeOK'
    BY <1>1, <1>3 DEF IInv, TypeOK, MainType, lists, shared, locals
  <1>5. GcInv'
    BY <1>1 DEF IInv, GcInv, Live, Garbage, lists, shared
  <1> QED
    BY <1>2, <1>3, <1>4, <1>5 DEF IInv, DataInv, Fits

----------------------------------------------------------------------------
(* Steps of the collector.                                                 *)

\* Steps that only change the collector's own variables.
LEMMA GcLocalStep ==
  ASSUME IInv, GcLocal, GcType', GcInv' PROVE IInv'
  <1>1. UNCHANGED <<flags, lists, shared, locals, g_thread_throughput, pc, main>>
    BY DEF GcLocal
  <1>2. DataInv'
    BY <1>1, DataFrame DEF IInv, DataInv
  <1>3. TypeOK'
    BY <1>1 DEF IInv, TypeOK, GcType, flags, lists, shared, locals
  <1>4. MainInv'
    BY <1>1 DEF IInv, MainInv
  <1> QED
    BY <1>2, <1>3, <1>4 DEF IInv, DataInv, Fits

\* The collector starts a round with the first list ...
LEMMA GcBeginStep == IInv /\ GcBegin => IInv'
  <1> SUFFICES ASSUME IInv, GcBegin PROVE GcType' /\ GcInv'
    BY GcLocalStep DEF GcBegin
  <1>1. GcType /\ 0 \in Thread
    BY NAssumption, TypeParts DEF Thread, IInv
  <1> QED
    BY <1>1 DEF GcBegin, GcType, GcInv

\* ... or stops.
LEMMA GcStopStep == IInv /\ GcStop => IInv'
  <1> SUFFICES ASSUME IInv, GcStop PROVE GcType' /\ GcInv'
    BY GcLocalStep DEF GcStop
  <1>1. GcType
    BY TypeParts DEF IInv
  <1> QED
    BY <1>1 DEF GcStop, GcType, GcInv

\* It reads minimum without the lock: the value is current at this instant.
LEMMA GcMinimumStep == IInv /\ GcMinimum => IInv'
  <1> SUFFICES ASSUME IInv, GcMinimum PROVE GcType' /\ GcInv'
    BY GcLocalStep DEF GcMinimum
  <1>1. GcType
    BY TypeParts DEF IInv
  <1>2. gc.i \in Thread /\ minimum[gc.i] \in Version
    BY <1>1, TypeParts DEF IInv, GcType, SharedType
  <1>3. /\ gc' = [gc EXCEPT !.pc = "head", !.minimum = minimum[gc.i]]
        /\ minimum' = minimum
    BY DEF GcMinimum, GcLocal, shared
  <1>4. GcType'
    BY <1>1, <1>2, <1>3 DEF GcType
  <1>5. gc'.pc = "head" /\ gc'.minimum = minimum[gc.i] /\ gc'.i = gc.i
    BY <1>1, <1>3 DEF GcType
  <1>6. GcInv'
    BY <1>2, <1>3, <1>5, Constants DEF GcInv
  <1> QED  BY <1>4, <1>6

\* The head is a node of the list, and not below minimum.
LEMMA GcHeadStep == IInv /\ GcHead => IInv'
  <1> SUFFICES ASSUME IInv, GcHead PROVE GcType' /\ GcInv'
    BY GcLocalStep DEF GcHead
  <1>1. GcType
    BY TypeParts DEF IInv
  <1>2. gc.i \in Thread /\ g_singly_list[gc.i] \in Version /\ minimum[gc.i] \in Version
    BY <1>1, TypeParts DEF IInv, GcType, ListType, SharedType
  <1>3. minimum[gc.i] =< g_singly_list[gc.i] /\ Live(gc.i, g_singly_list[gc.i])
    BY <1>2, Constants DEF IInv, ListInv
  <1>4. /\ gc' = [gc EXCEPT !.pc = "scan", !.tmp = g_singly_list[gc.i], !.back = NULL]
        /\ gc.pc = "head" /\ minimum' = minimum /\ memory' = memory
    BY DEF GcHead, GcLocal, shared, lists
  <1>5. gc.minimum =< minimum[gc.i]
    BY <1>4 DEF IInv, GcInv
  <1>6. GcType'
    BY <1>1, <1>2, <1>4, Constants DEF GcType
  <1>7. GcInv'
    BY <1>1, <1>2, <1>3, <1>4, <1>5, Constants DEF GcType, GcInv, Garbage, Live
  <1> QED  BY <1>6, <1>7

\* A node that is kept becomes back; the link leads to an allocated node.
LEMMA GcKeepStep == IInv /\ GcKeep => IInv'
  <1> SUFFICES ASSUME IInv, GcKeep PROVE GcType' /\ GcInv'
    BY GcLocalStep DEF GcKeep
  <1>1. GcType /\ gc.pc = "scan" /\ gc.tmp # NULL /\ ~Garbage(gc.tmp)
    BY TypeParts DEF IInv, GcKeep
  <1>2. gc.i \in Thread /\ gc.tmp \in Version
    BY <1>1, Constants DEF GcType
  <1>3. link[gc.i][gc.tmp] \in Node
    BY <1>2, TypeParts DEF IInv, ListType
  <1>4. /\ gc' = [gc EXCEPT !.back = gc.tmp, !.tmp = link[gc.i][gc.tmp]]
        /\ minimum' = minimum /\ memory' = memory /\ link' = link
    BY DEF GcKeep, GcAdvance, GcLocal, shared, lists
  <1>5. Live(gc.i, gc.tmp) /\ LinkOK(gc.i, gc.tmp) /\ gc.minimum =< minimum[gc.i]
    BY <1>1, <1>2 DEF IInv, GcInv, ListInv
  <1>6. GcType'
    BY <1>1, <1>2, <1>3, <1>4, Constants DEF GcType
  <1>7. GcInv'
    BY <1>1, <1>2, <1>3, <1>4, <1>5, Constants DEF GcType, GcInv, Garbage, Live,
       LinkOK
  <1> QED  BY <1>6, <1>7

\* The end of a list.
LEMMA GcNextListStep == IInv /\ GcNextList => IInv'
  <1> SUFFICES ASSUME IInv, GcNextList PROVE GcType' /\ GcInv'
    BY GcLocalStep DEF GcNextList
  <1>1. GcType /\ 0 \in Thread
    BY NAssumption, TypeParts DEF Thread, IInv
  <1>2. MoreLists => gc.i + 1 \in Thread
    BY <1>1, Constants DEF GcType, MoreLists
  <1> QED
    BY <1>1, <1>2, Constants DEF GcNextList, GcType, GcInv

\* The invariants that see of the lists only the heads and which versions
\* exist; freeing a node does not change them.
ThreadInv ==
    ReserveInv /\ ActiveInv /\ UniqueInv /\ QueueInv /\ SlotInv /\ ReaderInv

\* Steps of the collector that keep the versions known keep ThreadInv.
LEMMA ThreadFrame ==
  ASSUME TypeOK, ThreadInv, UNCHANGED <<shared, locals, pc, g_singly_list>>,
         \A p \in Thread, v \in Version : Exists(p, v)' <=> Exists(p, v)
  PROVE  ThreadInv'
  <1> USE Constants DEF shared, locals, ThreadInv
  <1>0. SharedType /\ LocalType
    BY TypeParts
  <1>1. ReserveInv'  BY DEF ReserveInv
  <1>2. ActiveInv'   BY DEF ActiveInv
  <1>3. UniqueInv'   BY <1>0 DEF UniqueInv, SharedType
  <1>4. QueueInv'    BY <1>0 DEF QueueInv, Reached, SharedType
  <1>5. SlotInv'
    <2> SUFFICES ASSUME NEW p \in Thread PROVE \E slot : Slots(p, slot)'
      BY DEF SlotInv
    <2>1. PICK slot : Slots(p, slot)
      BY DEF SlotInv
    <2>2. Slots(p, slot)'
      BY <2>1 DEF Slots, Readers, Registered
    <2> QED  BY <2>2
  <1>6. ReaderInv'   BY <1>0 DEF ReaderInv, Registered, LocalType
  <1> QED  BY <1>1, <1>2, <1>3, <1>4, <1>5, <1>6

\* Two allocated nodes do not have the same link.
LEMMA LinksDiffer ==
  ASSUME TypeOK, ListInv, NEW p \in Thread, NEW v \in Version, NEW w \in Version,
         Live(p, v), Live(p, w), v # w, link[p][v] # NULL
  PROVE  link[p][v] # link[p][w]
  <1>1. link[p][v] \in Version /\ link[p][w] \in Node
    BY TypeParts, Constants DEF ListType
  <1>2. Exists(p, v) /\ Exists(p, w) /\ LinkOK(p, v) /\ LinkOK(p, w)
    BY DEF ListInv, Live, Exists
  <1>3. link[p][v] < v /\ link[p][w] < w
    BY <1>2 DEF ListInv
  <1> QED
    BY <1>1, <1>2, <1>3, Constants DEF LinkOK

\* back->link = NULL: what follows is below minimum, and now unreachable.
LEMMA GcCutStep == IInv /\ GcCut => IInv'
  <1> SUFFICES ASSUME IInv, GcCut PROVE IInv'
    OBVIOUS
  <1>1. GcType /\ ListType /\ gc.pc = "scan" /\ gc.tmp # NULL /\ Garbage(gc.tmp)
    BY TypeParts DEF IInv, GcCut
  <1>2. gc.i \in Thread /\ gc.tmp \in Version /\ gc.back \in Version
    BY <1>1, Constants DEF GcType, IInv, GcInv
  <1>3. /\ link' = [link EXCEPT ![gc.i][gc.back] = NULL]
        /\ gc' = [gc EXCEPT !.pc = "free"]
        /\ UNCHANGED <<flags, g_singly_list, memory, shared, locals,
                       g_thread_throughput, pc, main>>
    BY DEF GcCut, CutAfter
  <1>4. /\ Live(gc.i, gc.back) /\ link[gc.i][gc.back] = gc.tmp
        /\ Live(gc.i, gc.tmp) /\ LinkOK(gc.i, gc.back)
        /\ gc.minimum =< minimum[gc.i]
    BY <1>1, <1>2, Constants DEF IInv, GcInv, ListInv
  <1>5. \A p \in Thread, v \in Version :
          link'[p][v] = IF p = gc.i /\ v = gc.back THEN NULL ELSE link[p][v]
    BY <1>1, <1>2, <1>3 DEF ListType
  <1>6. ThreadInv'
    BY <1>3, ThreadFrame DEF IInv, ThreadInv, Exists
  <1>7. ListInv'
    <2>1. minimum' = minimum /\ memory' = memory /\ g_singly_list' = g_singly_list
      BY <1>3 DEF shared
    <2>2. minimum[gc.i] \in Version /\ gc.minimum \in Version
      BY <1>1, <1>2, TypeParts DEF IInv, SharedType, GcType
    <2>3. \A w \in Version : Exists(gc.i, w) /\ w < gc.back => w < minimum[gc.i]
      BY <1>1, <1>2, <1>4, <2>2, Constants DEF LinkOK, Garbage
    <2>4. \A p \in Thread, v \in Version : Live(p, v)' => LinkOK(p, v)'
      BY <1>5, <2>1, <2>3 DEF IInv, ListInv, LinkOK, Live, Exists
    <2>5. \A p \in Thread, v \in Version : Exists(p, v) => link'[p][v] < v
      BY <1>5, Constants DEF IInv, ListInv
    <2> QED  BY <2>1, <2>4, <2>5 DEF IInv, ListInv, Exists, Live
  <1>8. TypeOK'
    <2>1. link' \in [Thread -> [Version -> Node]]
      BY <1>1, <1>3, Constants DEF ListType
    <2>2. ListType' /\ GcType'
      BY <1>1, <1>3, <2>1 DEF ListType, GcType
    <2> QED
      BY <1>3, <2>2, TypeParts DEF IInv, TypeOK, ListType, GcType, flags, shared,
         locals
  <1>9. GcInv'
    <2>1. /\ gc'.pc = "free" /\ gc'.i = gc.i /\ gc'.tmp = gc.tmp
          /\ gc'.minimum = gc.minimum /\ gc'.back = gc.back
      BY <1>1, <1>3 DEF GcType
    <2>2. \A v \in Version : Live(gc.i, v) => link'[gc.i][v] # gc.tmp
      BY <1>1, <1>2, <1>4, <1>5, LinksDiffer DEF IInv
    <2>3. minimum' = minimum /\ memory' = memory
      BY <1>3 DEF shared
    <2> QED
      BY <1>1, <1>4, <2>1, <2>2, <2>3 DEF GcInv, Live, Garbage
  <1> QED
    BY <1>3, <1>6, <1>7, <1>8, <1>9 DEF IInv, ThreadInv, MainInv, Fits

\* No allocated node links to the node that is freed; once it is freed, none
\* links to its successor either.
LEMMA GcFreeStep == IInv /\ GcFree => IInv'
  <1> SUFFICES ASSUME IInv, GcFree PROVE IInv'
    OBVIOUS
  <1>1. GcType /\ ListType /\ gc.pc = "free" /\ gc.tmp # NULL
    BY TypeParts DEF IInv, GcFree
  <1>2. gc.i \in Thread /\ gc.tmp \in Version /\ gc.minimum \in Version
    BY <1>1, Constants DEF GcType
  <1>3. link[gc.i][gc.tmp] \in Node /\ minimum[gc.i] \in Version
    BY <1>1, <1>2, TypeParts DEF ListType, SharedType, IInv
  <1>4. /\ memory' = [memory EXCEPT ![gc.i][gc.tmp] = "freed"]
        /\ gc' = [gc EXCEPT !.back = gc.tmp, !.tmp = link[gc.i][gc.tmp]]
        /\ UNCHANGED <<flags, g_singly_list, link, shared, locals,
                       g_thread_throughput, pc, main>>
    BY DEF GcFree, GcAdvance
  <1>5. /\ Live(gc.i, gc.tmp) /\ LinkOK(gc.i, gc.tmp) /\ Garbage(gc.tmp)
        /\ gc.minimum =< minimum[gc.i] /\ link[gc.i][gc.tmp] < gc.tmp
        /\ \A v \in Version : Live(gc.i, v) => link[gc.i][v] # gc.tmp
    BY <1>1, <1>2 DEF IInv, GcInv, ListInv, Live, Exists
  <1>6. \A p \in Thread, v \in Version :
          memory'[p][v] = IF p = gc.i /\ v = gc.tmp THEN "freed" ELSE memory[p][v]
    BY <1>1, <1>2, <1>4 DEF ListType
  <1>7. \A p \in Thread, v \in Version : Exists(p, v)' <=> Exists(p, v)
    BY <1>5, <1>6 DEF Exists, Live
  <1>8. \A p \in Thread, v \in Version :
          Live(p, v)' <=> Live(p, v) /\ ~(p = gc.i /\ v = gc.tmp)
    BY <1>6 DEF Live
  <1>9. ThreadInv'
    BY <1>4, <1>7, ThreadFrame DEF IInv, ThreadInv
  <1>10. ListInv'
    <2>1. minimum' = minimum /\ link' = link /\ g_singly_list' = g_singly_list
      BY <1>4 DEF shared
    <2>2. \A p \in Thread, v \in Version : Live(p, v)' => LinkOK(p, v)'
      <3> SUFFICES ASSUME NEW p \in Thread, NEW v \in Version, Live(p, v)'
                   PROVE  LinkOK(p, v)'
        OBVIOUS
      <3>1. Live(p, v) /\ LinkOK(p, v) /\ link[p][v] \in Node
        BY <1>1, <1>8 DEF IInv, ListInv, ListType
      <3>2. link[p][v] # NULL =>
              link[p][v] \in Version /\ memory'[p][link[p][v]] = "live"
        BY <1>5, <1>6, <3>1, Constants DEF LinkOK, Live
      <3> QED
        BY <1>7, <2>1, <3>1, <3>2 DEF LinkOK, Live
    <2>3. \A p \in Thread, v \in Version :
            Exists(p, v)' /\ minimum[p] =< v => Live(p, v)'
      BY <1>2, <1>3, <1>5, <1>7, <1>8, Constants DEF IInv, ListInv, Garbage
    <2>4. \A p \in Thread : g_singly_list[p] \in Version /\ minimum[p] \in Version
      BY <1>1, TypeParts DEF IInv, ListType, SharedType
    <2> QED  BY <1>7, <2>1, <2>2, <2>3, <2>4 DEF IInv, ListInv
  <1>11. TypeOK'
    <2>1. memory' \in [Thread -> [Version -> {"none", "live", "freed"}]]
      BY <1>1, <1>4 DEF ListType
    <2>2. ListType' /\ GcType'
      BY <1>1, <1>2, <1>3, <1>4, <2>1, Constants DEF ListType, GcType
    <2> QED
      BY <1>4, <2>2, TypeParts DEF IInv, TypeOK, ListType, GcType, flags, shared,
         locals
  <1>12. GcInv'
    <2>1. /\ gc'.pc = "free" /\ gc'.i = gc.i /\ gc'.tmp = link[gc.i][gc.tmp]
          /\ gc'.minimum = gc.minimum
      BY <1>1, <1>4 DEF GcType
    <2>2. minimum' = minimum /\ link' = link
      BY <1>4 DEF shared
    <2>3. ASSUME gc'.tmp # NULL
          PROVE  /\ gc'.tmp \in Version /\ memory'[gc.i][gc'.tmp] = "live"
                 /\ gc'.tmp < gc.minimum
      BY <1>2, <1>3, <1>5, <1>6, <2>1, <2>3, Constants DEF LinkOK, Garbage, Live
    <2>4. ASSUME gc'.tmp # NULL, NEW v \in Version, memory'[gc.i][v] = "live"
          PROVE  link[gc.i][v] # gc'.tmp
      BY <1>2, <1>5, <1>6, <2>1, <2>4, LinksDiffer DEF IInv, Live
    <2> QED
      BY <1>5, <2>1, <2>2, <2>3, <2>4 DEF GcInv, Garbage, Live
  <1> QED
    BY <1>4, <1>9, <1>10, <1>11, <1>12 DEF IInv, ThreadInv, MainInv, Fits

----------------------------------------------------------------------------
(* Steps of the worker threads.                                            *)

\* A worker does not touch what belongs to main and to the collector.
LEMMA WorkerStep ==
  ASSUME IInv, UNCHANGED <<flags, gc, main>>, ListType', SharedType', LocalType',
         DataInv', GcInv'
  PROVE  IInv'
  <1>1. MainType /\ GcType
    BY TypeParts DEF IInv
  <1>2. MainType' /\ GcType'
    BY <1>1 DEF MainType, GcType, flags
  <1>3. TypeOK'
    BY <1>2 DEF TypeOK, MainType, GcType, ListType, SharedType, LocalType
  <1>4. MainInv'
    BY DEF IInv, MainInv
  <1> QED
    BY <1>3, <1>4 DEF IInv, DataInv, Fits

\* Steps outside the critical sections that leave the lists alone: they only
\* move a thread on, before its version, or before its insertion.
LEMMA PcFrame ==
  ASSUME IInv,
         UNCHANGED <<flags, lists, shared, picked_thread_index,
                     active_thread_version, g_thread_throughput, gc, main>>,
         \A u \in Thread : /\ pc'[u] \in Busy <=> pc[u] \in Busy
                           /\ pc'[u] = "finish" <=> pc[u] = "finish",
         LocalType', ReserveInv', ReaderInv'
  PROVE  IInv'
  <1>1. ListType' /\ SharedType'
    BY TypeParts DEF IInv, ListType, SharedType, lists, shared
  <1>2. ActiveInv'   BY DEF IInv, ActiveInv, lists, shared
  <1>3. UniqueInv'   BY DEF IInv, UniqueInv, Exists, lists, shared
  <1>4. ListInv'     BY DEF IInv, ListInv, LinkOK, Exists, Live, lists, shared
  <1>5. QueueInv'    BY DEF IInv, QueueInv, Reached, Exists, lists, shared
  <1>6. SlotInv'
    <2> SUFFICES ASSUME NEW p \in Thread PROVE \E slot : Slots(p, slot)'
      BY DEF SlotInv
    <2>1. PICK slot : Slots(p, slot)
      BY DEF IInv, SlotInv
    <2>2. Slots(p, slot)'
      BY <2>1 DEF Slots, Readers, Registered, shared
    <2> QED  BY <2>2
  <1>7. GcInv'       BY DEF IInv, GcInv, Live, Garbage, lists, shared
  <1> QED
    BY <1>1, <1>2, <1>3, <1>4, <1>5, <1>6, <1>7, WorkerStep DEF DataInv

\* The threads that are about to draw a version are finitely many.
LEMMA PickFinite ==
    /\ IsFiniteSet({t \in Thread : pc[t] = "pick"})
    /\ Cardinality({t \in Thread : pc[t] = "pick"}) \in Nat
  <1>1. IsFiniteSet(Thread)
    BY FS_Interval, NAssumption DEF Thread
  <1>2. {t \in Thread : pc[t] = "pick"} \subseteq Thread
    OBVIOUS
  <1>3. IsFiniteSet({t \in Thread : pc[t] = "pick"})
    BY <1>1, <1>2, FS_Subset, Zenon
  <1> QED  BY <1>3, FS_CardinalityType

\* A thread that starts an update has a version set aside.
LEMMA BeginStep == \A t \in Thread : IInv /\ Begin(t) => IInv'
  <1> SUFFICES ASSUME NEW t \in Thread, IInv, Begin(t) PROVE IInv'
    OBVIOUS
  <1>1. LocalType /\ g_atomic_counter \in Version
    BY TypeParts DEF IInv, SharedType
  <1>2. /\ pc[t] = "top" /\ pc' = [pc EXCEPT ![t] = "pick"]
        /\ UNCHANGED <<flags, lists, shared, locals, g_thread_throughput, gc, main>>
    BY DEF Begin
  <1>3. LocalType'
    BY <1>1, <1>2 DEF LocalType, locals
  <1>4. ReserveInv'
    <2> DEFINE P == {u \in Thread : pc[u] = "pick"}
    <2>1. {u \in Thread : pc'[u] = "pick"} = P \cup {t} /\ t \notin P
      BY <1>1, <1>2 DEF LocalType
    <2>2. IsFiniteSet(P) /\ Cardinality(P) \in Nat
      BY PickFinite
    <2>3. Cardinality(P \cup {t}) = Cardinality(P) + 1
      BY <2>1, <2>2, FS_AddElement
    <2>4. g_atomic_counter + Cardinality(P) < MaxVersion
      BY DEF Begin, VersionsLeft
    <2>5. g_atomic_counter' + Cardinality(P \cup {t}) =< MaxVersion
      BY <1>1, <1>2, <2>2, <2>3, <2>4, Constants DEF shared
    <2> QED  BY <2>1, <2>5 DEF ReserveInv
  <1>5. ReaderInv'
    BY <1>1, <1>2 DEF IInv, ReaderInv, Registered, Exists, Busy, LocalType, locals,
       lists
  <1> QED
    BY <1>1, <1>2, <1>3, <1>4, <1>5, PcFrame DEF LocalType, Busy, locals

\* A thread that stops is not in an update.
LEMMA StopStep == \A t \in Thread : IInv /\ Stop(t) => IInv'
  <1> SUFFICES ASSUME NEW t \in Thread, IInv, Stop(t) PROVE IInv'
    OBVIOUS
  <1>1. LocalType
    BY TypeParts DEF IInv
  <1>2. /\ pc[t] = "top" /\ pc' = [pc EXCEPT ![t] = "done"]
        /\ UNCHANGED <<flags, lists, shared, locals, g_thread_throughput, gc, main>>
    BY DEF Stop
  <1>3. LocalType'
    BY <1>1, <1>2 DEF LocalType, locals
  <1>4. ReserveInv'
    <2>1. {u \in Thread : pc'[u] = "pick"} = {u \in Thread : pc[u] = "pick"}
      BY <1>1, <1>2 DEF LocalType
    <2> QED  BY <1>2, <2>1 DEF IInv, ReserveInv, shared
  <1>5. ReaderInv'
    BY <1>1, <1>2 DEF IInv, ReaderInv, Registered, Exists, Busy, LocalType, locals,
       lists
  <1> QED
    BY <1>1, <1>2, <1>3, <1>4, <1>5, PcFrame DEF LocalType, Busy, locals

\* The version of a registered reader is in the queue of the thread it reads,
\* so it is above that thread's minimum.
LEMMA ReaderEntry ==
  ASSUME TypeOK, QueueInv, SlotInv, NEW t \in Thread, Registered(t)
  PROVE  LET p == picked_thread_index[t]
             v == active_thread_version[t]
         IN  /\ p \in Thread /\ v \in Version
             /\ minimum[p] < v /\ delete_front[p] =< v /\ Reached(p, v)
             /\ \E n \in 1 .. Len(g_queue[p]) : g_queue[p][n] = v
  <1> DEFINE p == picked_thread_index[t]
  <1>1. p \in Thread /\ active_thread_version[t] \in Version
    BY TypeParts DEF LocalType
  <1>2. PICK slot : Slots(p, slot)
    BY <1>1 DEF SlotInv
  <1>3. slot[t] \in 1 .. Len(g_queue[p]) /\ g_queue[p][slot[t]] = active_thread_version[t]
    BY <1>2 DEF Slots, Readers
  <1> QED  BY <1>1, <1>3 DEF QueueInv

\* The head of the picked list is the newest version of it.
LEMMA LoadStep == \A t \in Thread : IInv /\ Load(t) => IInv'
  <1> SUFFICES ASSUME NEW t \in Thread, IInv, Load(t) PROVE IInv'
    OBVIOUS
  <1> DEFINE p == picked_thread_index[t]
             where == IF Registered(t) THEN "walk" ELSE "update"
  <1>1. LocalType /\ ListType /\ p \in Thread /\ g_singly_list[p] \in Version
    BY TypeParts DEF IInv, LocalType, ListType
  <1>2. /\ pc[t] = "load" /\ pc' = [pc EXCEPT ![t] = where]
        /\ cursor_singly_node' = [cursor_singly_node EXCEPT ![t] = g_singly_list[p]]
        /\ UNCHANGED <<flags, lists, shared, picked_thread_index,
                       active_thread_version, g_thread_throughput, gc, main>>
    BY DEF Load
  <1>3. where \in {"walk", "update"} /\ (where = "walk" <=> Registered(t))
    OBVIOUS
  <1> HIDE DEF where
  <1>4. LocalType'
    BY <1>1, <1>2, <1>3, Constants DEF LocalType
  <1>5. ReserveInv'
    <2>1. {u \in Thread : pc'[u] = "pick"} = {u \in Thread : pc[u] = "pick"}
      BY <1>1, <1>2, <1>3 DEF LocalType
    <2> QED  BY <1>2, <2>1 DEF IInv, ReserveInv, shared
  <1>6. ReaderInv'
    <2>1. /\ Exists(p, g_singly_list[p])
          /\ \A w \in Version : Exists(p, w) => w =< g_singly_list[p]
      BY <1>1 DEF IInv, ListInv
    <2>2. memory' = memory
      BY <1>2 DEF lists
    <2> QED
      BY <1>1, <1>2, <1>3, <2>1, <2>2 DEF IInv, ReaderInv, Registered, Exists, Busy,
         LocalType
  <1> QED
    BY <1>1, <1>2, <1>3, <1>4, <1>5, <1>6, PcFrame DEF LocalType, Busy

\* A node that is not below the active version has a link, since the minimum
\* is below it, and no version between is skipped.
LEMMA WalkOn ==
  ASSUME TypeOK, ListInv, NEW p \in Thread, NEW c \in Version,
         Exists(p, c), minimum[p] < c
  PROVE  /\ link[p][c] \in Version /\ Exists(p, link[p][c])
         /\ \A w \in Version : Exists(p, w) /\ w < c => w =< link[p][c]
  <1>1. minimum[p] \in Version /\ link[p][c] \in Node
    BY TypeParts DEF SharedType, ListType
  <1>2. LinkOK(p, c) /\ Exists(p, minimum[p])
    BY <1>1, Constants DEF ListInv
  <1>3. link[p][c] # NULL
    BY <1>1, <1>2, Constants DEF LinkOK
  <1> QED  BY <1>1, <1>2, <1>3, Constants DEF LinkOK, Live, Exists

\* One round of the search keeps the newest visible version ahead.
LEMMA WalkStep == \A t \in Thread : IInv /\ Walk(t) => IInv'
  <1> SUFFICES ASSUME NEW t \in Thread, IInv, Walk(t) PROVE IInv'
    OBVIOUS
  <1> DEFINE p == picked_thread_index[t]
             v == active_thread_version[t]
             c == cursor_singly_node[t]
  <1>1. LocalType /\ p \in Thread /\ v \in Version /\ pc[t] = "walk"
    BY TypeParts DEF IInv, LocalType, Walk
  <1>2. UNCHANGED <<flags, lists, shared, picked_thread_index,
                    active_thread_version, g_thread_throughput, gc, main>>
    BY DEF Walk
  <1>3. /\ Registered(t) /\ c \in Version /\ Exists(p, c)
        /\ c < v => \A w \in Version : Exists(p, w) /\ w < v => w =< c
    BY <1>1 DEF IInv, ReaderInv
  <1>4. memory' = memory
    BY <1>2 DEF lists
  <1>5. CASE c < v
    <2>1. pc' = [pc EXCEPT ![t] = "update"] /\ cursor_singly_node' = cursor_singly_node
      BY <1>5 DEF Walk, VisibleTo
    <2>2. LocalType'
      BY <1>1, <1>2, <2>1 DEF LocalType
    <2>3. {u \in Thread : pc'[u] = "pick"} = {u \in Thread : pc[u] = "pick"}
      BY <1>1, <2>1 DEF LocalType
    <2>4. ReserveInv'
      BY <1>2, <2>3 DEF IInv, ReserveInv, shared
    <2>5. ReaderInv'
      BY <1>1, <1>2, <1>3, <1>4, <1>5, <2>1 DEF IInv, ReaderInv, Registered, Exists,
         Busy, LocalType
    <2> QED
      BY <1>1, <1>2, <2>1, <2>2, <2>4, <2>5, PcFrame DEF LocalType, Busy
  <1>6. CASE ~(c < v)
    <2>1. /\ cursor_singly_node' = [cursor_singly_node EXCEPT ![t] = link[p][c]]
          /\ pc' = pc
      BY <1>6 DEF Walk, VisibleTo
    <2>2. minimum[p] \in Version /\ minimum[p] < v
      BY <1>1, <1>3, ReaderEntry, TypeParts DEF IInv, SharedType
    <2>3. minimum[p] < c
      BY <1>1, <1>3, <1>6, <2>2, Constants
    <2>4. /\ link[p][c] \in Version /\ Exists(p, link[p][c])
          /\ \A w \in Version : Exists(p, w) /\ w < c => w =< link[p][c]
      BY <1>1, <1>3, <2>3, WalkOn DEF IInv
    <2>5. \A w \in Version : Exists(p, w) /\ w < v => w =< link[p][c]
      BY <1>1, <1>3, <1>6, <2>4, Constants
    <2>6. LocalType'
      BY <1>1, <1>2, <2>1, <2>4, Constants DEF LocalType
    <2>7. ReserveInv'
      BY <1>2, <2>1 DEF IInv, ReserveInv, shared
    <2>8. ReaderInv'
      BY <1>1, <1>2, <1>3, <1>4, <2>1, <2>4, <2>5 DEF IInv, ReaderInv, Registered,
         Exists, Busy, LocalType
    <2> QED
      BY <1>1, <1>2, <2>1, <2>6, <2>7, <2>8, PcFrame DEF LocalType, Busy
  <1> QED  BY <1>5, <1>6

\* The insertion of a version above all that the list holds.  The registered
\* readers of this list are not affected: their versions are not above it.
LEMMA UpdateStep == \A t \in Thread : IInv /\ Update(t) => IInv'
  <1> SUFFICES ASSUME NEW t \in Thread, IInv, Update(t) PROVE IInv'
    OBVIOUS
  <1> DEFINE v == g_active_list[t]
             h == g_singly_list[t]
  <1>1. LocalType /\ ListType /\ SharedType /\ GcType
    BY TypeParts DEF IInv
  <1>2. /\ pc[t] = "update" /\ pc' = [pc EXCEPT ![t] = "finish"]
        /\ link' = [link EXCEPT ![t][v] = h]
        /\ memory' = [memory EXCEPT ![t][v] = "live"]
        /\ g_singly_list' = [g_singly_list EXCEPT ![t] = v]
        /\ cursor_singly_node' = [cursor_singly_node EXCEPT ![t] = NULL]
        /\ UNCHANGED <<flags, shared, picked_thread_index, active_thread_version,
                       g_thread_throughput, gc, main>>
    BY DEF Update, InsertSinglyList, CurrentVersion
  <1>3. v \in Version /\ h \in Version /\ h < v /\ minimum[t] \in Version
    BY <1>1, <1>2, Constants DEF IInv, ActiveInv, Busy, SharedType, ListType
  <1>4. /\ Exists(t, h) /\ Exists(t, minimum[t]) /\ minimum[t] =< h /\ Live(t, h)
        /\ \A w \in Version : Exists(t, w) => w =< h
    BY <1>3 DEF IInv, ListInv
  <1>5. ~Exists(t, v)
    BY <1>3, <1>4, Constants
  <1>6. \A p \in Thread, w \in Version :
          /\ memory'[p][w] = IF p = t /\ w = v THEN "live" ELSE memory[p][w]
          /\ link'[p][w] = IF p = t /\ w = v THEN h ELSE link[p][w]
    BY <1>1, <1>2, <1>3 DEF ListType
  <1>7. \A p \in Thread, w \in Version :
          Exists(p, w)' <=> Exists(p, w) \/ (p = t /\ w = v)
    BY <1>6 DEF Exists
  <1>8. \A p \in Thread, w \in Version :
          Live(p, w)' <=> Live(p, w) \/ (p = t /\ w = v)
    BY <1>6 DEF Live
  <1>9. UNCHANGED <<g_atomic_counter, g_active_list, g_queue, minimum, delete_front>>
    BY <1>2 DEF shared
  <1>10. \A u \in Thread : /\ u # t => pc'[u] = pc[u] /\ g_singly_list'[u] = g_singly_list[u]
                           /\ u = t => pc'[u] = "finish" /\ g_singly_list'[u] = v
    BY <1>1, <1>2 DEF LocalType, ListType
  <1>11. ListType' /\ SharedType' /\ LocalType'
    <2>1. link' \in [Thread -> [Version -> Node]]
      BY <1>1, <1>2, <1>3, Constants DEF ListType
    <2>2. memory' \in [Thread -> [Version -> {"none", "live", "freed"}]]
      BY <1>1, <1>2 DEF ListType
    <2>3. ListType'
      BY <1>1, <1>2, <1>3, <2>1, <2>2 DEF ListType
    <2>4. SharedType' /\ LocalType'
      BY <1>1, <1>2, <1>9, Constants DEF SharedType, LocalType
    <2> QED  BY <2>3, <2>4
  <1>12. ReserveInv'
    <2>1. {u \in Thread : pc'[u] = "pick"} = {u \in Thread : pc[u] = "pick"}
      BY <1>2, <1>10
    <2> QED  BY <1>9, <2>1 DEF IInv, ReserveInv
  <1>13. ActiveInv'
    BY <1>2, <1>3, <1>9, <1>10, Constants DEF IInv, ActiveInv, Busy
  <1>14. UniqueInv'
    <2>1. \A a, b \in Thread : a # b => \A w \in Version \ {0} : ~(Exists(a, w)' /\ Exists(b, w)')
      BY <1>3, <1>7, Constants DEF IInv, UniqueInv
    <2>2. ASSUME NEW a \in Thread, NEW b \in Thread, a # b, g_active_list[a] # NULL
          PROVE  /\ g_active_list[a] # g_active_list[b]
                 /\ memory'[b][g_active_list[a]] = "none"
      <3>1. g_active_list[a] \in Version
        BY <1>1, <2>2, Constants DEF SharedType
      <3>2. g_active_list[a] # g_active_list[b] /\ memory[b][g_active_list[a]] = "none"
        BY <2>2 DEF IInv, UniqueInv, Exists
      <3> QED  BY <1>6, <3>1, <3>2
    <2> QED  BY <1>9, <2>1, <2>2 DEF UniqueInv, Exists
  <1>15. ListInv'
    <2> SUFFICES ASSUME NEW p \in Thread
                 PROVE  /\ Exists(p, g_singly_list[p])'
                        /\ Exists(p, minimum[p])'
                        /\ \A w \in Version : Exists(p, w)' =>
                             /\ w =< g_singly_list'[p]
                             /\ link'[p][w] < w
                             /\ minimum'[p] =< w => Live(p, w)'
                        /\ \A w \in Version : Live(p, w)' => LinkOK(p, w)'
      BY DEF ListInv
    <2>1. g_singly_list[p] \in Version /\ minimum[p] \in Version
      BY <1>1 DEF ListType, SharedType
    <2>2. Exists(p, g_singly_list[p])' /\ Exists(p, minimum[p])'
      BY <1>3, <1>6, <1>9, <1>10, <2>1 DEF IInv, ListInv, Exists
    <2>3. ASSUME NEW w \in Version, Exists(p, w)'
          PROVE  /\ w =< g_singly_list'[p]
                 /\ link'[p][w] < w
                 /\ minimum'[p] =< w => Live(p, w)'
      BY <1>3, <1>4, <1>6, <1>7, <1>8, <1>9, <1>10, <2>3, Constants DEF IInv, ListInv
    <2>4. ASSUME NEW w \in Version, Live(p, w)' PROVE LinkOK(p, w)'
      <3>1. CASE p = t /\ w = v
        <4>1. link'[p][w] = h /\ h # NULL /\ memory'[p][h] = "live"
          BY <1>3, <1>4, <1>6, <3>1, Constants DEF Live
        <4>2. \A x \in Version : Exists(p, x)' /\ x < w => x =< h
          BY <1>4, <1>7, <3>1, <1>3, Constants
        <4> QED  BY <1>3, <4>1, <4>2 DEF LinkOK, Live
      <3>2. CASE ~(p = t /\ w = v)
        <4>1. Live(p, w) /\ LinkOK(p, w) /\ link'[p][w] = link[p][w]
          BY <1>6, <1>8, <2>4, <3>2 DEF IInv, ListInv
        <4>2. \A x \in Version : Exists(p, x)' /\ x < w => Exists(p, x)
          BY <1>3, <1>4, <1>7, <4>1, Constants DEF Live, Exists
        <4>3. \A x \in Version : memory[p][x] = "live" => memory'[p][x] = "live"
          BY <1>6
        <4> QED  BY <1>9, <4>1, <4>2, <4>3 DEF LinkOK, Live
      <3> QED  BY <3>1, <3>2
    <2> QED  BY <2>2, <2>3, <2>4
  <1>16. QueueInv'
    BY <1>1, <1>7, <1>9, Constants DEF IInv, QueueInv, Reached, SharedType
  <1>17. SlotInv'
    <2> SUFFICES ASSUME NEW p \in Thread PROVE \E slot : Slots(p, slot)'
      BY DEF SlotInv
    <2>1. PICK slot : Slots(p, slot)
      BY DEF IInv, SlotInv
    <2>2. Slots(p, slot)'
      BY <1>2, <1>9, <2>1 DEF Slots, Readers, Registered
    <2> QED  BY <2>2
  <1>18. ReaderInv'
    <2>1. \A u \in Thread : Registered(u) /\ picked_thread_index[u] = t =>
            active_thread_version[u] \in Version /\ active_thread_version[u] =< v
      BY <1>3, ReaderEntry, Constants DEF IInv, Reached
    <2>2. \A u \in Thread : u # t => cursor_singly_node'[u] = cursor_singly_node[u]
      BY <1>1, <1>2 DEF LocalType
    <2>3. UNCHANGED <<picked_thread_index, active_thread_version>>
      BY <1>2
    <2>4. \A u \in Thread : picked_thread_index[u] \in Thread
      BY <1>1 DEF LocalType
    <2> QED
      BY <1>2, <1>3, <1>7, <1>10, <2>1, <2>2, <2>3, <2>4, Constants DEF IInv, ReaderInv,
         Registered, Busy
  <1>19. GcInv'
    <2>1. gc' = gc /\ gc.i \in Thread /\ gc.tmp \in Node /\ gc.back \in Node
          /\ gc.minimum \in Version
      BY <1>1, <1>2 DEF GcType
    <2>2. gc.pc = "free" /\ gc.tmp # NULL =>
            \A w \in Version : Live(gc.i, w)' => link'[gc.i][w] # gc.tmp
      BY <1>3, <1>4, <1>6, <1>8, <2>1, Constants DEF IInv, GcInv, Garbage
    <2>3. \A w \in Version : memory[gc.i][w] = "live" => memory'[gc.i][w] = "live"
      BY <1>6, <2>1
    <2>4. gc.pc = "scan" /\ gc.back # NULL => link'[gc.i][gc.back] = link[gc.i][gc.back]
      BY <1>5, <1>6, <2>1, Constants DEF IInv, GcInv, Live, Exists
    <2> QED
      BY <1>9, <2>1, <2>2, <2>3, <2>4, Constants DEF IInv, GcInv, Garbage, Live
  <1> QED
    BY <1>2, <1>11, <1>12, <1>13, <1>14, <1>15, <1>16, <1>17, <1>18, <1>19, WorkerStep
       DEF DataInv

\* A new version is above all others, and a reader registers with the newest
\* version of the thread it picked, behind all entries of its queue.
LEMMA RegisterStep == \A t \in Thread : IInv /\ Register(t) => IInv'
  <1> SUFFICES ASSUME NEW t \in Thread, IInv, Register(t) PROVE IInv'
    OBVIOUS
  <1> DEFINE k == g_atomic_counter + 1
  <1>1. LocalType /\ ListType /\ SharedType
    BY TypeParts DEF IInv
  <1>2. PICK p \in Picks[t] \ {t} :
         /\ g_atomic_counter' = k
         /\ g_active_list' = [g_active_list EXCEPT ![t] = k]
         /\ picked_thread_index' = [picked_thread_index EXCEPT ![t] = p]
         /\ IF g_active_list[p] # NULL
              THEN /\ active_thread_version' =
                        [active_thread_version EXCEPT ![t] = g_active_list[p]]
                   /\ g_queue' = AddRear(p, g_active_list[p])
              ELSE UNCHANGED <<active_thread_version, g_queue>>
    BY DEF Register, InsertGlobalActiveList, CaptureActiveList
  <1>3. /\ pc[t] = "pick" /\ pc' = [pc EXCEPT ![t] = "load"]
        /\ UNCHANGED <<flags, lists, minimum, delete_front, cursor_singly_node,
                       g_thread_throughput, gc, main>>
    BY DEF Register
  <1>4. p \in Thread /\ p # t
    BY <1>2, PicksAssumption DEF Thread
  <1>5. ReserveInv' /\ k \in Version
    <2> DEFINE P == {u \in Thread : pc[u] = "pick"}
    <2>1. {u \in Thread : pc'[u] = "pick"} = P \ {t} /\ t \in P
      BY <1>1, <1>3 DEF LocalType
    <2>2. IsFiniteSet(P) /\ Cardinality(P) \in Nat
      BY PickFinite
    <2>3. Cardinality(P \ {t}) = Cardinality(P) - 1 /\ Cardinality(P \ {t}) \in Nat
      BY <2>1, <2>2, FS_RemoveElement, FS_CardinalityType
    <2>4. g_atomic_counter + Cardinality(P) =< MaxVersion /\ g_atomic_counter \in Nat
      BY <1>1 DEF IInv, ReserveInv, SharedType, Version
    <2> HIDE DEF P
    <2>5. k + Cardinality(P \ {t}) =< MaxVersion /\ k \in Version
      BY <2>2, <2>3, <2>4, Constants DEF Version
    <2> QED  BY <1>2, <2>1, <2>5 DEF ReserveInv
  <1>6. ~Registered(t) /\ g_active_list[t] = NULL
    BY <1>3 DEF IInv, ReaderInv, ActiveInv, Busy
  <1>7. \A u \in Thread :
          /\ g_singly_list[u] \in Version /\ g_active_list[u] \in Node
          /\ g_singly_list[u] < k /\ g_active_list[u] < k
          /\ \A w \in Version : Exists(u, w) => w < k
    <2>1. g_atomic_counter \in Int /\ g_atomic_counter < k /\ NULL < k
      BY <1>1, Constants DEF SharedType
    <2>2. \A u \in Thread : g_singly_list[u] \in Version /\ g_active_list[u] \in Node
      BY <1>1 DEF ListType, SharedType
    <2>3. ASSUME NEW u \in Thread
          PROVE  g_singly_list[u] < k /\ g_active_list[u] < k
      <3>1. /\ g_singly_list[u] =< g_atomic_counter
            /\ g_active_list[u] # NULL => g_active_list[u] =< g_atomic_counter
        BY DEF IInv, ActiveInv
      <3>2. g_singly_list[u] \in Int /\ g_active_list[u] \in Int
        BY <2>2, Constants
      <3> QED  BY <2>1, <3>1, <3>2
    <2>4. \A u \in Thread : \A w \in Version : Exists(u, w) => w =< g_singly_list[u]
      BY DEF IInv, ListInv
    <2> QED  BY <1>5, <2>2, <2>3, <2>4, Constants
  <1>8. \A u \in Thread : /\ u # t => pc'[u] = pc[u] /\ g_active_list'[u] = g_active_list[u]
                          /\ u = t => pc'[u] = "load" /\ g_active_list'[u] = k
    BY <1>1, <1>2, <1>3 DEF LocalType, SharedType
  <1>9. g_singly_list' = g_singly_list /\ link' = link /\ memory' = memory
    BY <1>3 DEF lists
  <1>10. g_active_list[p] # NULL =>
           /\ g_active_list[p] \in Version
           /\ 1 =< g_active_list[p]
           /\ g_queue' = [g_queue EXCEPT ![p] = Append(@, g_active_list[p])]
           /\ active_thread_version' = [active_thread_version EXCEPT ![t] = g_active_list[p]]
    <2> SUFFICES ASSUME g_active_list[p] # NULL PROVE
           /\ g_active_list[p] \in Version
           /\ 1 =< g_active_list[p]
           /\ g_queue' = [g_queue EXCEPT ![p] = Append(@, g_active_list[p])]
           /\ active_thread_version' = [active_thread_version EXCEPT ![t] = g_active_list[p]]
      OBVIOUS
    <2>1. g_active_list[p] \in Version /\ 1 =< g_active_list[p]
      BY <1>4, <1>7, Constants DEF IInv, ActiveInv
    <2>2. StoredVersion(g_active_list[p]) = g_active_list[p]
      BY <2>1, WordAssumption, Constants DEF IInv, Fits, StoredVersion
    <2> QED  BY <1>2, <2>1, <2>2 DEF AddRear
  <1>11. g_active_list[p] = NULL => UNCHANGED <<active_thread_version, g_queue>>
    BY <1>2
  <1>12. ListType' /\ SharedType' /\ LocalType'
    <2>1. ListType'
      BY <1>1, <1>9 DEF ListType
    <2>2. g_queue' \in [Thread -> Seq(0 .. WordSize - 1)]
      <3>1. CASE g_active_list[p] = NULL
        BY <1>1, <1>11, <3>1 DEF SharedType
      <3>2. CASE g_active_list[p] # NULL
        <4>1. g_active_list[p] \in 0 .. WordSize - 1
          BY <1>10, <3>2, Constants DEF Version
        <4>2. g_queue[p] \in Seq(0 .. WordSize - 1)
          BY <1>1, <1>4 DEF SharedType
        <4>3. Append(g_queue[p], g_active_list[p]) \in Seq(0 .. WordSize - 1)
          BY <4>1, <4>2
        <4> QED  BY <1>1, <1>10, <3>2, <4>3 DEF SharedType
      <3> QED  BY <3>1, <3>2
    <2>3. SharedType'
      BY <1>1, <1>2, <1>3, <1>5, <2>2, Constants DEF SharedType
    <2>4. active_thread_version' \in [Thread -> Version]
      BY <1>1, <1>10, <1>11 DEF LocalType
    <2>5. LocalType'
      BY <1>1, <1>2, <1>3, <1>4, <2>4 DEF LocalType
    <2> QED  BY <2>1, <2>3, <2>5
  <1>13. ActiveInv'
    <2>1. 1 =< k /\ k \in Int /\ g_atomic_counter \in Int
      BY <1>1, Constants DEF SharedType
    <2> HIDE DEF k
    <2> SUFFICES ASSUME NEW u \in Thread
          PROVE  /\ pc'[u] \in Busy <=> g_active_list'[u] # NULL
                 /\ g_active_list'[u] # NULL => 1 =< g_active_list'[u] /\ g_active_list'[u] =< k
                 /\ pc'[u] \in Busy \ {"finish"} => g_singly_list[u] < g_active_list'[u]
                 /\ pc'[u] = "finish" => g_singly_list[u] = g_active_list'[u]
                 /\ g_singly_list[u] =< k
      BY <1>2, <1>9 DEF ActiveInv
    <2>2. /\ g_singly_list[u] \in Int /\ g_active_list[u] \in Int
          /\ g_singly_list[u] < k /\ g_active_list[u] < k
      BY <1>7, Constants
    <2>3. CASE u = t
      BY <1>5, <1>8, <2>1, <2>2, <2>3, Constants DEF Busy
    <2>4. CASE u # t
      BY <1>8, <2>1, <2>2, <2>4 DEF IInv, ActiveInv
    <2> QED  BY <2>3, <2>4
  <1>14. UniqueInv'
    <2>1. ASSUME NEW a \in Thread, NEW b \in Thread, a # b, g_active_list'[a] # NULL
          PROVE  /\ g_active_list'[a] # g_active_list'[b]
                 /\ memory[b][g_active_list'[a]] = "none"
      <3>1. CASE a = t
        BY <1>5, <1>7, <1>8, <2>1, <3>1, Constants DEF Exists
      <3>2. CASE a # t
        <4>1. /\ g_active_list[a] # g_active_list[b]
              /\ memory[b][g_active_list[a]] = "none"
          BY <1>8, <2>1, <3>2 DEF IInv, UniqueInv, Exists
        <4> QED  BY <1>5, <1>7, <1>8, <2>1, <3>2, <4>1, Constants
      <3> QED  BY <3>1, <3>2
    <2>2. \A a, b \in Thread : a # b =>
            \A w \in Version \ {0} : ~(memory[a][w] # "none" /\ memory[b][w] # "none")
      BY DEF IInv, UniqueInv, Exists
    <2> QED  BY <1>9, <2>1, <2>2 DEF UniqueInv, Exists
  <1>15. ListInv'
    BY <1>3, <1>9 DEF IInv, ListInv, LinkOK, Exists, Live
  <1>16. ReaderInv'
    <2>1. \A u \in Thread : u # t => /\ picked_thread_index'[u] = picked_thread_index[u]
                                     /\ active_thread_version'[u] = active_thread_version[u]
      BY <1>1, <1>2, <1>10, <1>11 DEF LocalType
    <2>2. picked_thread_index'[t] = p
      BY <1>1, <1>2 DEF LocalType
    <2>3. Registered(t)' => pc'[t] \in Busy
      BY <1>8 DEF Busy
    <2> QED
      BY <1>3, <1>4, <1>8, <1>9, <2>1, <2>2, <2>3 DEF IInv, ReaderInv, Registered,
         Exists, Busy
  <1>17. GcInv'
    BY <1>3, <1>9 DEF IInv, GcInv, Live, Garbage
  <1>18. QueueInv'
    <2> SUFFICES ASSUME NEW q \in Thread
                 PROVE  /\ minimum[q] =< delete_front[q]
                        /\ Reached(q, delete_front[q])'
                        /\ g_active_list'[q] # NULL => minimum[q] < g_active_list'[q]
                        /\ \A n \in 1 .. Len(g_queue'[q]) :
                             /\ g_queue'[q][n] \in Version
                             /\ minimum[q] < g_queue'[q][n]
                             /\ delete_front[q] =< g_queue'[q][n]
                             /\ Reached(q, g_queue[q][n])'
                             /\ \A m \in 1 .. n : g_queue'[q][m] =< g_queue'[q][n]
      BY <1>3 DEF QueueInv
    <2>1. \A x \in Version : Reached(q, x) => Reached(q, x)'
      BY <1>5, <1>6, <1>7, <1>8, <1>9, Constants DEF Reached, Exists
    <2>2. /\ minimum[q] =< delete_front[q] /\ delete_front[q] \in Version
          /\ Reached(q, delete_front[q]) /\ Exists(q, minimum[q])
          /\ minimum[q] \in Version
      BY <1>1 DEF IInv, QueueInv, ListInv, SharedType
    <2>3. Reached(q, delete_front[q])'
      BY <1>3, <2>1, <2>2 DEF Reached
    <2>4. g_active_list'[q] # NULL => minimum[q] < g_active_list'[q]
      BY <1>7, <1>8, <2>2 DEF IInv, QueueInv
    <2>5. CASE g_queue'[q] = g_queue[q]
      <3>1. \A n \in 1 .. Len(g_queue[q]) :
              /\ g_queue[q][n] \in Version /\ minimum[q] < g_queue[q][n]
              /\ delete_front[q] =< g_queue[q][n] /\ Reached(q, g_queue[q][n])
              /\ \A m \in 1 .. n : g_queue[q][m] =< g_queue[q][n]
        BY DEF IInv, QueueInv
      <3>2. \A n \in 1 .. Len(g_queue[q]) : Reached(q, g_queue[q][n])'
        BY <2>1, <2>5, <3>1 DEF Reached
      <3> QED  BY <2>2, <2>3, <2>4, <2>5, <3>1, <3>2
    <2>6. CASE q = p /\ g_active_list[p] # NULL
      <3> DEFINE a == g_active_list[p]
                 s == g_queue[p]
      <3>1. a \in Version /\ g_queue'[p] = Append(s, a) /\ s \in Seq(0 .. WordSize - 1)
        BY <1>1, <1>4, <1>10, <2>6 DEF SharedType
      <3>2. /\ minimum[p] < a /\ delete_front[p] =< a
        BY <2>2, <2>6 DEF IInv, QueueInv, Reached
      <3>3. \A n \in 1 .. Len(s) :
              /\ s[n] \in Version /\ minimum[p] < s[n]
              /\ delete_front[p] =< s[n] /\ Reached(p, s[n])
              /\ \A m \in 1 .. n : s[m] =< s[n]
        BY <1>4 DEF IInv, QueueInv
      <3>4. \A n \in 1 .. Len(s) : s[n] =< a
        BY <2>6, <3>3 DEF Reached
      <3>5. Reached(p, a)
        BY <3>1, Constants DEF Reached
      <3> HIDE DEF a, s
      <3>6. /\ Len(g_queue'[p]) = Len(s) + 1
            /\ \A n \in 1 .. Len(s) : g_queue'[p][n] = s[n]
            /\ g_queue'[p][Len(s) + 1] = a
            /\ Len(s) \in Nat
        BY <3>1
      <3>7. \A n \in 1 .. Len(s) + 1 :
              /\ g_queue'[p][n] \in Version /\ minimum[p] < g_queue'[p][n]
              /\ delete_front[p] =< g_queue'[p][n]
              /\ \A m \in 1 .. n : g_queue'[p][m] =< g_queue'[p][n]
        <4> SUFFICES ASSUME NEW n \in 1 .. Len(s) + 1
              PROVE  /\ g_queue'[p][n] \in Version /\ minimum[p] < g_queue'[p][n]
                     /\ delete_front[p] =< g_queue'[p][n]
                     /\ \A m \in 1 .. n : g_queue'[p][m] =< g_queue'[p][n]
          OBVIOUS
        <4>1. CASE n \in 1 .. Len(s)
          BY <3>3, <3>6, <4>1
        <4>2. CASE n = Len(s) + 1
          <5>1. \A m \in 1 .. n : m \in 1 .. Len(s) \/ m = n
            BY <3>6, <4>2
          <5> QED  BY <3>1, <3>2, <3>4, <3>6, <4>2, <5>1, Constants
        <4> QED  BY <3>6, <4>1, <4>2
      <3>8. \A x \in Version : (x = a \/ \E n \in 1 .. Len(s) : x = s[n]) => Reached(p, x)'
        BY <2>1, <2>6, <3>3, <3>5
      <3>9. \A n \in 1 .. Len(s) + 1 : Reached(p, g_queue[p][n])'
        <4> SUFFICES ASSUME NEW n \in 1 .. Len(s) + 1 PROVE Reached(p, g_queue[p][n])'
          OBVIOUS
        <4>1. g_queue'[p][n] = a \/ \E j \in 1 .. Len(s) : g_queue'[p][n] = s[j]
          BY <3>6
        <4>2. g_queue'[p][n] \in Version
          BY <3>7
        <4> QED  BY <3>8, <4>1, <4>2 DEF Reached
      <3> QED  BY <2>2, <2>3, <2>4, <2>6, <3>6, <3>7, <3>9
    <2> QED
      <3>1. g_queue'[q] = g_queue[q] \/ (q = p /\ g_active_list[p] # NULL)
        BY <1>1, <1>10, <1>11 DEF SharedType
      <3> QED  BY <2>5, <2>6, <3>1
  <1>19. SlotInv'
    <2> SUFFICES ASSUME NEW q \in Thread PROVE \E slot : Slots(q, slot)'
      BY DEF SlotInv
    <2>1. PICK slot : Slots(q, slot)
      BY DEF IInv, SlotInv
    <2>2. /\ \A u \in Thread \ {t} :
               /\ picked_thread_index'[u] = picked_thread_index[u]
               /\ active_thread_version'[u] = active_thread_version[u]
          /\ picked_thread_index'[t] = p
      BY <1>1, <1>2, <1>10, <1>11 DEF LocalType
    <2>3. CASE q # p \/ g_active_list[p] = NULL
      <3>1. Readers(q)' = Readers(q)
        BY <1>4, <1>6, <1>11, <2>2, <2>3 DEF Readers, Registered
      <3>2. g_queue'[q] = g_queue[q]
        BY <1>1, <1>10, <1>11, <2>3 DEF SharedType
      <3>3. \A u \in Readers(q) : active_thread_version'[u] = active_thread_version[u]
        BY <1>6, <2>2 DEF Readers
      <3>4. Slots(q, slot)'
        BY <2>1, <3>1, <3>2, <3>3 DEF Slots
      <3> QED  BY <3>4
    <2>4. CASE q = p /\ g_active_list[p] # NULL
      <3>0. PICK L, R : L = Len(g_queue[p]) /\ R = Readers(p)
        OBVIOUS
      <3> DEFINE new == [u \in R \cup {t} |-> IF u = t THEN L + 1 ELSE slot[u]]
      <3>1. g_queue[p] \in Seq(0 .. WordSize - 1) /\ g_queue'[p] = Append(g_queue[p], g_active_list[p])
        BY <1>1, <1>4, <1>10, <2>4 DEF SharedType
      <3>2. /\ L \in Nat /\ Len(g_queue'[p]) = L + 1
            /\ \A n \in 1 .. L : g_queue'[p][n] = g_queue[p][n]
            /\ g_queue'[p][L + 1] = g_active_list[p]
        BY <3>0, <3>1
      <3>3. active_thread_version'[t] = g_active_list[p]
        BY <1>1, <1>10, <2>4 DEF LocalType
      <3>4. Readers(p)' = R \cup {t} /\ t \notin R
        BY <1>6, <1>10, <2>2, <2>4, <3>0, <3>3, Constants DEF Readers, Registered
      <3>5. \A u \in R : active_thread_version'[u] = active_thread_version[u]
        BY <2>2, <3>0, <3>4 DEF Readers
      <3>6. /\ slot \in [R -> 1 .. L]
            /\ \A u \in R : g_queue[p][slot[u]] = active_thread_version[u]
            /\ \A u, w \in R : slot[u] = slot[w] => u = w
            /\ \A n \in 1 .. L : \E u \in R : slot[u] = n
        BY <2>1, <2>4, <3>0 DEF Slots
      <3>7. new \in [R \cup {t} -> 1 .. L + 1]
        BY <3>2, <3>6
      <3>8. \A u \in R \cup {t} : g_queue'[p][new[u]] = active_thread_version'[u]
        BY <3>2, <3>3, <3>4, <3>5, <3>6
      <3>9. \A u, w \in R \cup {t} : new[u] = new[w] => u = w
        BY <3>2, <3>4, <3>6
      <3>10. \A n \in 1 .. L + 1 : \E u \in R \cup {t} : new[u] = n
        <4> SUFFICES ASSUME NEW n \in 1 .. L + 1 PROVE \E u \in R \cup {t} : new[u] = n
          OBVIOUS
        <4>1. CASE n = L + 1
          BY <4>1
        <4>2. CASE n \in 1 .. L
          BY <3>4, <3>6, <4>2
        <4>3. n = L + 1 \/ n \in 1 .. L
          BY <3>2
        <4> QED  BY <4>1, <4>2, <4>3
      <3> HIDE DEF new
      <3>11. Slots(q, new)'
        BY <2>4, <3>2, <3>4, <3>7, <3>8, <3>9, <3>10 DEF Slots
      <3> QED  BY <3>11
    <2> QED  BY <2>3, <2>4
  <1> QED
    BY <1>3, <1>5, <1>12, <1>13, <1>14, <1>15, <1>16, <1>17, <1>18, <1>19, WorkerStep
       DEF DataInv

----------------------------------------------------------------------------
(* What RemoveFront and RemoveVersion leave of a queue.                    *)

\* r is s without its element at position f.
CutAt(s, f, r) ==
    /\ Len(r) = Len(s) - 1
    /\ \A n \in 1 .. Len(s) - 1 : r[n] = IF n < f THEN s[n] ELSE s[n + 1]

\* A set of naturals has a least element.
LEMMA Least ==
  ASSUME NEW T, T \subseteq Nat, T # {}
  PROVE  \E x \in T : \A y \in T : x =< y
  <1> DEFINE R == OpToRel(<, Nat)
  <1>1. PICK x \in T : \A y \in T : ~(<<y, x>> \in R)
    BY NatLessThanWellFounded, WFMin, Zenon
  <1>2. \A y \in Nat : y < x => <<y, x>> \in R
    BY DEF OpToRel
  <1>3. \A y \in T : ~(y < x)
    BY <1>1, <1>2, Zenon
  <1> HIDE DEF R
  <1> QED  BY <1>3

\* RemoveFront takes the element at position 1 out.
LEMMA RemoveFrontCuts ==
  ASSUME NEW S, NEW s \in Seq(S), Len(s) > 0
  PROVE  RemoveFront(s) \in Seq(S) /\ CutAt(s, 1, RemoveFront(s)) /\ Head(s) = s[1]
  BY DEF CutAt, RemoveFront

\* What is before position f and what is after it, joined.
LEMMA JoinCuts ==
  ASSUME NEW S, NEW s \in Seq(S), NEW f \in 1 .. Len(s)
  PROVE  LET r == SubSeq(s, 1, f - 1) \o SubSeq(s, f + 1, Len(s))
         IN  r \in Seq(S) /\ CutAt(s, f, r)
  <1>1. /\ SubSeq(s, 1, f - 1) \in Seq(S) /\ Len(SubSeq(s, 1, f - 1)) = f - 1
        /\ \A n \in 1 .. f - 1 : SubSeq(s, 1, f - 1)[n] = s[n]
    OBVIOUS
  <1>2. /\ SubSeq(s, f + 1, Len(s)) \in Seq(S)
        /\ Len(SubSeq(s, f + 1, Len(s))) = Len(s) - f
        /\ \A n \in 1 .. Len(s) - f : SubSeq(s, f + 1, Len(s))[n] = s[n + f]
    OBVIOUS
  <1>3. PICK a, b : a = SubSeq(s, 1, f - 1) /\ b = SubSeq(s, f + 1, Len(s))
    OBVIOUS
  <1>4. /\ a \in Seq(S) /\ b \in Seq(S) /\ Len(a) = f - 1 /\ Len(b) = Len(s) - f
        /\ \A n \in 1 .. f - 1 : a[n] = s[n]
        /\ \A n \in 1 .. Len(s) - f : b[n] = s[n + f]
    BY <1>1, <1>2, <1>3
  <1>5. Len(s) \in Nat /\ f \in Nat /\ f >= 1 /\ f =< Len(s)
    OBVIOUS
  <1>6. /\ a \o b \in Seq(S)
        /\ Len(a \o b) = Len(a) + Len(b)
        /\ \A n \in 1 .. Len(a) + Len(b) :
             (a \o b)[n] = IF n =< Len(a) THEN a[n] ELSE b[n - Len(a)]
    BY <1>4, ConcatProperties
  <1>7. \A n \in 1 .. Len(s) - 1 : (a \o b)[n] = IF n < f THEN s[n] ELSE s[n + 1]
    <2> SUFFICES ASSUME NEW n \in 1 .. Len(s) - 1
                 PROVE  (a \o b)[n] = IF n < f THEN s[n] ELSE s[n + 1]
      OBVIOUS
    <2>1. CASE n < f
      BY <1>4, <1>5, <1>6, <2>1
    <2>2. CASE ~(n < f)
      <3>1. (a \o b)[n] = b[n - (f - 1)] /\ n - (f - 1) \in 1 .. Len(s) - f
        BY <1>4, <1>5, <1>6, <2>2
      <3>2. (n - (f - 1)) + f = n + 1
        BY <1>5
      <3> QED  BY <1>4, <2>2, <3>1, <3>2
    <2> QED  BY <2>1, <2>2
  <1>8. Len(a \o b) = Len(s) - 1
    BY <1>4, <1>5, <1>6
  <1>9. CutAt(s, f, a \o b)
    BY <1>7, <1>8 DEF CutAt
  <1> QED  BY <1>3, <1>6, <1>9

\* RemoveVersion takes out one element, which has that version.
LEMMA RemoveVersionCuts ==
  ASSUME NEW S, NEW s \in Seq(S), NEW v, \E n \in 1 .. Len(s) : s[n] = v
  PROVE  /\ RemoveVersion(s, v) \in Seq(S)
         /\ \E f \in 1 .. Len(s) : s[f] = v /\ CutAt(s, f, RemoveVersion(s, v))
  <1> DEFINE at == {n \in 1 .. Len(s) : s[n] = v}
             first == CHOOSE n \in at : \A m \in at : n =< m
  <1>1. at # {} /\ at \subseteq Nat
    OBVIOUS
  <1>2. \E n \in at : \A m \in at : n =< m
    <2> HIDE DEF at
    <2> QED  BY <1>1, Least
  <1>3. first \in at
    BY <1>2
  <1>4. RemoveVersion(s, v) = SubSeq(s, 1, first - 1) \o SubSeq(s, first + 1, Len(s))
    BY <1>1 DEF RemoveVersion
  <1>5. first \in 1 .. Len(s) /\ s[first] = v
    BY <1>3
  <1> HIDE DEF first, at
  <1> QED  BY <1>4, <1>5, JoinCuts

\* Slots, for any set of readers, queue and versions.
Matches(R, s, ver, slot) ==
    /\ slot \in [R -> 1 .. Len(s)]
    /\ \A u \in R : s[slot[u]] = ver[u]
    /\ \A u, w \in R : slot[u] = slot[w] => u = w
    /\ \A n \in 1 .. Len(s) : \E u \in R : slot[u] = n

\* When one of several equal entries is taken out, the reader that leaves can
\* be taken for its owner: whoever owned it takes over the leaver's entry.
LEMMA SlotsAfterCut ==
  ASSUME NEW R, NEW t \in R, NEW s, NEW r, NEW ver, NEW slot,
         Len(s) \in Nat, NEW f \in 1 .. Len(s), CutAt(s, f, r), s[f] = ver[t],
         Matches(R, s, ver, slot)
  PROVE  \E new : Matches(R \ {t}, r, ver, new)
  <1>0. /\ slot \in [R -> 1 .. Len(s)]
        /\ \A u \in R : s[slot[u]] = ver[u]
        /\ \A u, w \in R : slot[u] = slot[w] => u = w
        /\ \A n \in 1 .. Len(s) : \E u \in R : slot[u] = n
    BY DEF Matches
  <1>1. PICK L, j : L = Len(s) /\ j = slot[t]
    OBVIOUS
  <1>2. /\ L \in Nat /\ f \in 1 .. L /\ j \in 1 .. L /\ s[j] = ver[t] /\ Len(r) = L - 1
        /\ \A n \in 1 .. L - 1 : r[n] = IF n < f THEN s[n] ELSE s[n + 1]
    BY <1>0, <1>1 DEF CutAt
  <1> DEFINE old(u) == IF slot[u] = f THEN j ELSE slot[u]
             shift(n) == IF n < f THEN n ELSE n - 1
             new == [u \in R \ {t} |-> shift(old(u))]
  <1>3. \A u \in R \ {t} : /\ old(u) \in 1 .. L /\ old(u) # f
                           /\ s[old(u)] = ver[u]
    BY <1>0, <1>1, <1>2
  <1>4. \A u, w \in R \ {t} : old(u) = old(w) => u = w
    BY <1>0, <1>1, <1>2
  <1>5. \A n \in 1 .. L : n # f => \E u \in R \ {t} : old(u) = n
    <2> SUFFICES ASSUME NEW n \in 1 .. L, n # f PROVE \E u \in R \ {t} : old(u) = n
      OBVIOUS
    <2>1. PICK u \in R : slot[u] = n
      BY <1>0, <1>1
    <2>2. PICK w \in R : slot[w] = f
      BY <1>0, <1>1
    <2>3. CASE u # t
      BY <2>1, <2>3
    <2>4. CASE u = t
      BY <1>0, <1>1, <2>1, <2>2, <2>4
    <2> QED  BY <2>3, <2>4
  <1> HIDE DEF old
  <1>6. \A n \in 1 .. L : n # f => shift(n) \in 1 .. L - 1 /\ r[shift(n)] = s[n]
    <2> SUFFICES ASSUME NEW n \in 1 .. L, n # f
                 PROVE  shift(n) \in 1 .. L - 1 /\ r[shift(n)] = s[n]
      OBVIOUS
    <2>1. CASE n < f
      BY <1>2, <2>1
    <2>2. CASE ~(n < f)
      <3>1. n - 1 \in 1 .. L - 1 /\ ~(n - 1 < f) /\ (n - 1) + 1 = n
        BY <1>2, <2>2
      <3> QED  BY <1>2, <2>2, <3>1
    <2> QED  BY <2>1, <2>2
  <1>7. \A n, m \in 1 .. L : n # f /\ m # f /\ shift(n) = shift(m) => n = m
    BY <1>2
  <1>8. \A n \in 1 .. L - 1 : \E m \in 1 .. L : m # f /\ shift(m) = n
    <2> SUFFICES ASSUME NEW n \in 1 .. L - 1
                 PROVE  \E m \in 1 .. L : m # f /\ shift(m) = n
      OBVIOUS
    <2>1. CASE n < f
      <3>1. n \in 1 .. L /\ n # f /\ shift(n) = n
        BY <1>2, <2>1
      <3> QED  BY <3>1
    <2>2. CASE ~(n < f)
      <3>1. n + 1 \in 1 .. L /\ n + 1 # f /\ shift(n + 1) = n
        BY <1>2, <2>2
      <3> QED  BY <3>1
    <2> QED  BY <2>1, <2>2
  <1> HIDE DEF shift
  <1>9. new \in [R \ {t} -> 1 .. L - 1] /\ \A u \in R \ {t} : new[u] = shift(old(u))
    BY <1>3, <1>6
  <1> HIDE DEF new
  <1>10. \A u \in R \ {t} : r[new[u]] = ver[u]
    BY <1>3, <1>6, <1>9
  <1>11. \A u, w \in R \ {t} : new[u] = new[w] => u = w
    BY <1>3, <1>4, <1>7, <1>9
  <1>12. \A n \in 1 .. L - 1 : \E u \in R \ {t} : new[u] = n
    BY <1>5, <1>8, <1>9
  <1>13. /\ new \in [R \ {t} -> 1 .. Len(r)]
         /\ \A n \in 1 .. Len(r) : \E u \in R \ {t} : new[u] = n
    BY <1>2, <1>9, <1>12
  <1>14. Matches(R \ {t}, r, ver, new)
    BY <1>10, <1>11, <1>13 DEF Matches
  <1> QED  BY <1>14

\* What a reader that leaves does to the queue of p.  Its new minimum is below
\* every entry that is left: either a newer version has come to the front, so
\* that nobody reads the older one any more and p has committed it, or it is a
\* version that left the front before.
LEMMA DeregisterEffect ==
  ASSUME IInv, NEW p \in Thread, NEW v \in Version,
         \E n \in 1 .. Len(g_queue[p]) : g_queue[p][n] = v, Deregister(p, v)
  PROVE  /\ \A q \in Thread \ {p} : /\ g_queue'[q] = g_queue[q]
                                    /\ minimum'[q] = minimum[q]
                                    /\ delete_front'[q] = delete_front[q]
         /\ g_queue' \in [Thread -> Seq(0 .. WordSize - 1)]
         /\ minimum' \in [Thread -> Version] /\ delete_front' \in [Thread -> Version]
         /\ minimum[p] =< minimum'[p] /\ minimum'[p] =< delete_front'[p]
         /\ Exists(p, minimum'[p]) /\ Reached(p, delete_front'[p])
         /\ g_active_list[p] # NULL => minimum'[p] < g_active_list[p]
         /\ \E f \in 1 .. Len(g_queue[p]) :
              /\ g_queue[p][f] = v
              /\ CutAt(g_queue[p], f, g_queue'[p])
              /\ \A n \in 1 .. Len(g_queue[p]) : n # f =>
                   minimum'[p] < g_queue[p][n] /\ delete_front'[p] =< g_queue[p][n]
  <1>1. SharedType
    BY TypeParts DEF IInv
  <1>2. PICK s : s = g_queue[p]
    OBVIOUS
  <1>3. s \in Seq(0 .. WordSize - 1) /\ Len(s) \in Nat /\ Len(s) > 0
    BY <1>1, <1>2 DEF SharedType
  <1>4. /\ minimum[p] \in Version /\ delete_front[p] \in Version
        /\ g_active_list[p] \in Node
    BY <1>1 DEF SharedType
  <1>5. /\ minimum[p] =< delete_front[p] /\ Reached(p, delete_front[p])
        /\ g_active_list[p] # NULL => minimum[p] < g_active_list[p]
        /\ \A n \in 1 .. Len(s) :
             /\ s[n] \in Version /\ minimum[p] < s[n]
             /\ delete_front[p] =< s[n] /\ Reached(p, s[n])
             /\ \A m \in 1 .. n : s[m] =< s[n]
    BY <1>2 DEF IInv, QueueInv
  <1>6. Exists(p, minimum[p])
    BY DEF IInv, ListInv
  <1>7. PICK a \in 1 .. Len(s) : s[a] = v
    BY <1>2
  <1>0. /\ v \in Int /\ delete_front[p] \in Int /\ g_active_list[p] \in Int
        /\ \A n \in 1 .. Len(s) : s[n] \in Int
    BY <1>4, <1>5, Constants
  <1>8. CASE Head(s) = v
    <2> DEFINE r == RemoveFront(s)
               m == NewMinimum(p, v, r)
    <2>1. /\ r \in Seq(0 .. WordSize - 1) /\ CutAt(s, 1, r) /\ s[1] = v
          /\ 1 \in 1 .. Len(s)
      BY <1>3, <1>8, RemoveFrontCuts
    <2>2. /\ g_queue' = [g_queue EXCEPT ![p] = r]
          /\ minimum' = [minimum EXCEPT ![p] = m]
          /\ delete_front' = [delete_front EXCEPT ![p] = v]
      BY <1>2, <1>8 DEF Deregister
    <2>3. minimum[p] < v /\ delete_front[p] =< v /\ Reached(p, v)
      BY <1>5, <2>1
    <2>4. \A n \in 1 .. Len(s) : v =< s[n]
      BY <1>3, <1>5, <2>1
    <2>5. /\ m \in Version /\ minimum[p] =< m /\ m =< v /\ Exists(p, m)
          /\ g_active_list[p] # NULL => m < g_active_list[p]
          /\ \A n \in 1 .. Len(s) : n # 1 => m < s[n]
      <3>1. CASE r # <<>> /\ Head(r) # v
        <4>1. m = v
          BY <3>1 DEF NewMinimum
        <4>2. Len(r) > 0
          BY <2>1, <3>1
        <4>3. Head(r) = r[1] /\ r[1] = s[2] /\ 2 \in 1 .. Len(s)
          BY <1>3, <2>1, <4>2 DEF CutAt
        <4>4. s[2] \in Version /\ v < s[2] /\ Reached(p, s[2])
          BY <1>5, <2>4, <3>1, <4>3, Constants
        <4>5. g_active_list[p] # NULL => v < g_active_list[p]
          <5>1. g_active_list[p] # NULL => s[2] =< g_active_list[p]
            BY <4>4 DEF Reached
          <5> QED  BY <1>0, <4>3, <4>4, <5>1
        <4>6. \A n \in 1 .. Len(s) : n # 1 => v < s[n]
          <5> SUFFICES ASSUME NEW n \in 1 .. Len(s), n # 1 PROVE v < s[n]
            OBVIOUS
          <5>1. 2 \in 1 .. n
            BY <1>3
          <5>2. s[2] =< s[n]
            BY <1>5, <5>1
          <5> QED  BY <1>0, <4>3, <4>4, <5>2
        <4>7. Exists(p, v)
          BY <1>4, <2>3, <4>5, Constants DEF Reached
        <4> QED  BY <2>3, <4>1, <4>5, <4>6, <4>7, <1>4, Constants
      <3>2. CASE r = <<>> /\ delete_front[p] # v
        <4>1. m = delete_front[p] /\ Len(s) = 1
          BY <1>3, <2>1, <3>2 DEF NewMinimum, CutAt
        <4>2. delete_front[p] < v
          BY <1>4, <2>3, <3>2, Constants
        <4>3. g_active_list[p] # NULL => delete_front[p] < g_active_list[p]
          <5>1. g_active_list[p] # NULL => v =< g_active_list[p]
            BY <2>3 DEF Reached
          <5> QED  BY <1>0, <4>2, <5>1
        <4>4. Exists(p, delete_front[p])
          BY <1>4, <1>5, <4>3, Constants DEF Reached
        <4> QED  BY <1>4, <1>5, <4>1, <4>2, <4>3, <4>4, Constants
      <3>3. CASE ~(r # <<>> /\ Head(r) # v) /\ ~(r = <<>> /\ delete_front[p] # v)
        <4>1. m = minimum[p]
          BY <3>3 DEF NewMinimum
        <4> QED  BY <1>4, <1>5, <1>6, <2>3, <4>1, Constants
      <3> QED  BY <3>1, <3>2, <3>3
    <2> HIDE DEF r, m
    <2>6. g_queue'[p] = r /\ minimum'[p] = m /\ delete_front'[p] = v
      BY <1>1, <2>2 DEF SharedType
    <2>7. /\ \A q \in Thread \ {p} : /\ g_queue'[q] = g_queue[q]
                                     /\ minimum'[q] = minimum[q]
                                     /\ delete_front'[q] = delete_front[q]
          /\ g_queue' \in [Thread -> Seq(0 .. WordSize - 1)]
          /\ minimum' \in [Thread -> Version] /\ delete_front' \in [Thread -> Version]
      BY <1>1, <2>1, <2>2, <2>5 DEF SharedType
    <2>8. \A n \in 1 .. Len(g_queue[p]) : n # 1 =>
            minimum'[p] < g_queue[p][n] /\ delete_front'[p] =< g_queue[p][n]
      BY <1>2, <2>4, <2>5, <2>6
    <2> QED  BY <1>2, <2>1, <2>3, <2>5, <2>6, <2>7, <2>8
  <1>9. CASE Head(s) # v
    <2>1. /\ g_queue' = [g_queue EXCEPT ![p] = RemoveVersion(s, v)]
          /\ minimum' = minimum /\ delete_front' = delete_front
      BY <1>2, <1>9 DEF Deregister
    <2>2. RemoveVersion(s, v) \in Seq(0 .. WordSize - 1)
      BY <1>3, <1>7, RemoveVersionCuts
    <2>3. PICK f \in 1 .. Len(s) : s[f] = v /\ CutAt(s, f, RemoveVersion(s, v))
      BY <1>3, <1>7, RemoveVersionCuts
    <2>4. g_queue'[p] = RemoveVersion(s, v)
      BY <1>1, <2>1 DEF SharedType
    <2>5. /\ \A q \in Thread \ {p} : g_queue'[q] = g_queue[q]
          /\ g_queue' \in [Thread -> Seq(0 .. WordSize - 1)]
      BY <1>1, <2>1, <2>2 DEF SharedType
    <2>6. /\ g_queue[p][f] = v /\ CutAt(g_queue[p], f, g_queue'[p])
          /\ f \in 1 .. Len(g_queue[p])
      BY <1>2, <2>3, <2>4
    <2>7. \A n \in 1 .. Len(g_queue[p]) : n # f =>
            minimum'[p] < g_queue[p][n] /\ delete_front'[p] =< g_queue[p][n]
      BY <1>2, <1>5, <2>1
    <2>8. minimum[p] =< minimum'[p] /\ minimum' \in [Thread -> Version] /\ delete_front' \in [Thread -> Version]
      BY <1>1, <1>4, <2>1, Constants DEF SharedType
    <2> QED  BY <1>5, <1>6, <2>1, <2>5, <2>6, <2>7, <2>8
  <1> QED  BY <1>8, <1>9

\* The end of an update, for a reader that registered and for one that did not.
LEMMA FinishStep == \A t \in Thread : IInv /\ Finish(t) => IInv'
  <1> SUFFICES ASSUME NEW t \in Thread, IInv, Finish(t) PROVE IInv'
    OBVIOUS
  <1> DEFINE p == picked_thread_index[t]
             v == active_thread_version[t]
  <1>1. LocalType /\ ListType /\ SharedType /\ p \in Thread /\ v \in Version
    BY TypeParts DEF IInv, LocalType
  <1>2. /\ pc[t] = "finish" /\ pc' = [pc EXCEPT ![t] = "top"]
        /\ g_active_list' = [g_active_list EXCEPT ![t] = NULL]
        /\ g_thread_throughput' = [g_thread_throughput EXCEPT ![t] = @ + 1]
        /\ picked_thread_index' = [picked_thread_index EXCEPT ![t] = t]
        /\ active_thread_version' = [active_thread_version EXCEPT ![t] = 0]
        /\ UNCHANGED <<flags, lists, g_atomic_counter, cursor_singly_node, gc, main>>
    BY DEF Finish, DeleteGlobalActiveList
  <1>3. UNCHANGED <<g_singly_list, link, memory>>
    BY <1>2 DEF lists
  <1>4. \A u \in Thread :
          /\ u # t => /\ pc'[u] = pc[u] /\ g_active_list'[u] = g_active_list[u]
                      /\ picked_thread_index'[u] = picked_thread_index[u]
                      /\ active_thread_version'[u] = active_thread_version[u]
          /\ u = t => /\ pc'[u] = "top" /\ g_active_list'[u] = NULL
                      /\ picked_thread_index'[u] = t /\ active_thread_version'[u] = 0
    BY <1>1, <1>2 DEF LocalType, SharedType
  <1>5. p # t /\ g_singly_list[t] = g_active_list[t] /\ Exists(t, g_active_list[t])
    BY <1>2 DEF IInv, ReaderInv, ActiveInv, ListInv, Busy
  <1>6. \A q \in Thread, x \in Version : Reached(q, x) => Reached(q, x)'
    BY <1>3, <1>4, <1>5 DEF Reached, Exists
  <1>7. LocalType'
    <2>1. g_thread_throughput' \in [Thread -> Nat]
      BY <1>1, <1>2 DEF LocalType
    <2> QED  BY <1>1, <1>2, <2>1, Constants DEF LocalType
  <1>8. ListType'
    BY <1>1, <1>3 DEF ListType
  <1>9. ReserveInv'
    <2>1. {u \in Thread : pc'[u] = "pick"} = {u \in Thread : pc[u] = "pick"}
      BY <1>2, <1>4
    <2> QED  BY <1>2, <2>1 DEF IInv, ReserveInv
  <1>10. ActiveInv'
    BY <1>2, <1>3, <1>4 DEF IInv, ActiveInv, Busy
  <1>11. UniqueInv'
    BY <1>3, <1>4 DEF IInv, UniqueInv, Exists
  <1>12. ReaderInv'
    BY <1>2, <1>3, <1>4, Constants DEF IInv, ReaderInv, Registered, Exists, Busy
  <1>13. CASE ~Registered(t)
    <2>1. UNCHANGED <<g_queue, minimum, delete_front>>
      BY <1>13 DEF Finish
    <2>2. SharedType'
      BY <1>1, <1>2, <2>1, Constants DEF SharedType
    <2>3. ListInv'
      BY <1>3, <2>1 DEF IInv, ListInv, LinkOK, Exists, Live
    <2>4. GcInv'
      BY <1>2, <1>3, <2>1 DEF IInv, GcInv, Live, Garbage
    <2>5. QueueInv'
      <3>1. \A q \in Thread : g_active_list'[q] # NULL => minimum[q] < g_active_list'[q]
        BY <1>4 DEF IInv, QueueInv
      <3>2. \A q \in Thread : delete_front[q] \in Version
        BY <1>1 DEF SharedType
      <3>3. \A q \in Thread : Reached(q, delete_front[q])'
        BY <1>6, <2>1, <3>2 DEF IInv, QueueInv, Reached
      <3>4. \A q \in Thread : \A n \in 1 .. Len(g_queue[q]) : Reached(q, g_queue[q][n])'
        BY <1>6, <2>1 DEF IInv, QueueInv, Reached
      <3> QED  BY <2>1, <3>1, <3>3, <3>4 DEF IInv, QueueInv
    <2>6. SlotInv'
      <3> SUFFICES ASSUME NEW q \in Thread PROVE \E slot : Slots(q, slot)'
        BY DEF SlotInv
      <3>1. PICK slot : Slots(q, slot)
        BY DEF IInv, SlotInv
      <3>2. Readers(q)' = Readers(q)
        BY <1>4, <1>13, Constants DEF Readers, Registered
      <3>3. \A u \in Readers(q) : active_thread_version'[u] = active_thread_version[u]
        BY <1>4, <1>13 DEF Readers
      <3>4. Slots(q, slot)'
        BY <2>1, <3>1, <3>2, <3>3 DEF Slots
      <3> QED  BY <3>4
    <2> QED
      BY <1>2, <1>7, <1>8, <1>9, <1>10, <1>11, <1>12, <2>2, <2>3, <2>4, <2>5, <2>6,
         WorkerStep DEF DataInv
  <1>14. CASE Registered(t)
    <2>0. \E n \in 1 .. Len(g_queue[p]) : g_queue[p][n] = v
      BY <1>14, ReaderEntry DEF IInv
    <2>1. Deregister(p, v)
      BY <1>14 DEF Finish
    <2>2. /\ \A q \in Thread \ {p} : /\ g_queue'[q] = g_queue[q]
                                     /\ minimum'[q] = minimum[q]
                                     /\ delete_front'[q] = delete_front[q]
          /\ g_queue' \in [Thread -> Seq(0 .. WordSize - 1)]
          /\ minimum' \in [Thread -> Version] /\ delete_front' \in [Thread -> Version]
          /\ minimum[p] =< minimum'[p] /\ minimum'[p] =< delete_front'[p]
          /\ Exists(p, minimum'[p]) /\ Reached(p, delete_front'[p])
          /\ g_active_list[p] # NULL => minimum'[p] < g_active_list[p]
      BY <1>1, <2>0, <2>1, DeregisterEffect
    <2>3. PICK f \in 1 .. Len(g_queue[p]) :
              /\ g_queue[p][f] = v
              /\ CutAt(g_queue[p], f, g_queue'[p])
              /\ \A n \in 1 .. Len(g_queue[p]) : n # f =>
                   minimum'[p] < g_queue[p][n] /\ delete_front'[p] =< g_queue[p][n]
      BY <1>1, <2>0, <2>1, DeregisterEffect
    <2>4. SharedType'
      BY <1>1, <1>2, <2>2, Constants DEF SharedType
    <2>5. \A q \in Thread : /\ minimum[q] \in Version /\ minimum'[q] \in Version
                            /\ minimum[q] =< minimum'[q] /\ Exists(q, minimum'[q])
      <3> SUFFICES ASSUME NEW q \in Thread
                   PROVE  /\ minimum[q] \in Version /\ minimum'[q] \in Version
                          /\ minimum[q] =< minimum'[q] /\ Exists(q, minimum'[q])
        OBVIOUS
      <3>1. minimum[q] \in Version /\ minimum'[q] \in Version /\ Exists(q, minimum[q])
        BY <1>1, <2>2 DEF IInv, ListInv, SharedType
      <3>2. CASE q = p
        BY <2>2, <3>1, <3>2
      <3>3. CASE q # p
        BY <2>2, <3>1, <3>3, Constants
      <3> QED  BY <3>2, <3>3
    <2>6. ListInv'
      <3> SUFFICES ASSUME NEW q \in Thread
                   PROVE  /\ Exists(q, g_singly_list[q])'
                          /\ Exists(q, minimum[q])'
                          /\ \A w \in Version : Exists(q, w)' =>
                               /\ w =< g_singly_list'[q]
                               /\ link'[q][w] < w
                               /\ minimum'[q] =< w => Live(q, w)'
                          /\ \A w \in Version : Live(q, w)' => LinkOK(q, w)'
        BY DEF ListInv
      <3>1. \A w \in Version : minimum'[q] =< w => minimum[q] =< w
        BY <2>5, Constants
      <3>2. \A w \in Version : w < minimum[q] => w < minimum'[q]
        BY <2>5, Constants
      <3>3. \A w \in Version : Exists(q, w) =>
              w =< g_singly_list[q] /\ link[q][w] < w /\ (minimum[q] =< w => Live(q, w))
        BY DEF IInv, ListInv
      <3>4. \A w \in Version : Live(q, w) => LinkOK(q, w)
        BY DEF IInv, ListInv
      <3>5. \A w \in Version : Live(q, w)' => LinkOK(q, w)'
        BY <1>3, <3>2, <3>4 DEF LinkOK, Live, Exists
      <3>6. Exists(q, g_singly_list[q])' /\ Exists(q, minimum[q])'
        BY <1>3, <2>5 DEF IInv, ListInv, Exists
      <3> QED  BY <1>3, <3>1, <3>3, <3>5, <3>6 DEF Exists, Live
    <2>7. GcInv'
      <3>1. GcType
        BY TypeParts DEF IInv
      <3>2. gc.i \in Thread /\ gc.minimum \in Version
        BY <3>1 DEF GcType
      <3>3. gc.minimum =< minimum[gc.i] => gc.minimum =< minimum'[gc.i]
        BY <2>5, <3>2, Constants
      <3> QED  BY <1>2, <1>3, <3>3 DEF IInv, GcInv, Live, Garbage
    <2>8. QueueInv'
      <3> SUFFICES ASSUME NEW q \in Thread
            PROVE  /\ minimum'[q] =< delete_front'[q]
                   /\ Reached(q, delete_front[q])'
                   /\ g_active_list'[q] # NULL => minimum'[q] < g_active_list'[q]
                   /\ \A n \in 1 .. Len(g_queue'[q]) :
                        /\ g_queue'[q][n] \in Version
                        /\ minimum'[q] < g_queue'[q][n]
                        /\ delete_front'[q] =< g_queue'[q][n]
                        /\ Reached(q, g_queue[q][n])'
                        /\ \A m \in 1 .. n : g_queue'[q][m] =< g_queue'[q][n]
        BY DEF QueueInv
      <3>1. PICK s, r : s = g_queue[q] /\ r = g_queue'[q]
        OBVIOUS
      <3>2. \A n \in 1 .. Len(s) :
              /\ s[n] \in Version /\ minimum[q] < s[n] /\ delete_front[q] =< s[n]
              /\ Reached(q, s[n]) /\ \A m \in 1 .. n : s[m] =< s[n]
        BY <3>1 DEF IInv, QueueInv
      <3>3. \A n \in 1 .. Len(s) : Reached(q, s[n])'
        BY <1>6, <3>2
      <3>4. CASE q # p
        <4>1. r = s /\ minimum'[q] = minimum[q] /\ delete_front'[q] = delete_front[q]
          BY <2>2, <3>1, <3>4
        <4>2. /\ minimum[q] =< delete_front[q] /\ Reached(q, delete_front[q])
              /\ delete_front[q] \in Version
              /\ g_active_list'[q] # NULL => minimum[q] < g_active_list'[q]
          BY <1>1, <1>4 DEF IInv, QueueInv, SharedType
        <4>3. Reached(q, delete_front[q])'
          BY <1>6, <4>1, <4>2 DEF Reached
        <4>4. \A n \in 1 .. Len(r) : Reached(q, g_queue[q][n])'
          BY <3>1, <3>3, <4>1 DEF Reached
        <4> QED  BY <3>1, <3>2, <4>1, <4>2, <4>3, <4>4
      <3>5. CASE q = p
        <4>1. PICK d \in Version : d = delete_front'[q]
          BY <2>2
        <4>2. Reached(q, d)'
          BY <1>6, <2>2, <3>5, <4>1
        <4>3. Reached(q, delete_front[q])'
          BY <4>1, <4>2 DEF Reached
        <4>4. g_active_list'[q] # NULL => minimum'[q] < g_active_list'[q]
          BY <1>4, <2>2, <3>5
        <4>5. /\ Len(s) \in Nat /\ Len(r) = Len(s) - 1 /\ f \in 1 .. Len(s)
              /\ \A n \in 1 .. Len(s) - 1 : r[n] = IF n < f THEN s[n] ELSE s[n + 1]
              /\ \A n \in 1 .. Len(s) : n # f => minimum'[q] < s[n] /\ d =< s[n]
          <5>1. Len(s) \in Nat
            BY <1>1, <3>1 DEF SharedType
          <5>2. f \in 1 .. Len(s) /\ CutAt(s, f, r)
            BY <2>3, <3>1, <3>5
          <5>3. \A n \in 1 .. Len(s) : n # f => minimum'[q] < s[n] /\ d =< s[n]
            BY <2>3, <3>1, <3>5, <4>1
          <5> QED  BY <5>1, <5>2, <5>3 DEF CutAt
        <4>6. \A n \in 1 .. Len(r) : \E j \in 1 .. Len(s) :
                /\ j # f /\ r[n] = s[j]
                /\ \A m \in 1 .. n : \E i \in 1 .. j : r[m] = s[i]
          <5> SUFFICES ASSUME NEW n \in 1 .. Len(r)
                       PROVE  \E j \in 1 .. Len(s) :
                                /\ j # f /\ r[n] = s[j]
                                /\ \A m \in 1 .. n : \E i \in 1 .. j : r[m] = s[i]
            OBVIOUS
          <5>1. n \in 1 .. Len(s) - 1 /\ n + 1 \in 1 .. Len(s) /\ n \in 1 .. Len(s)
            BY <4>5
          <5>2. CASE n < f
            <6>1. r[n] = s[n] /\ n # f
              BY <4>5, <5>1, <5>2
            <6>2. \A m \in 1 .. n : r[m] = s[m]
              BY <4>5, <5>1, <5>2
            <6> QED  BY <5>1, <6>1, <6>2
          <5>3. CASE ~(n < f)
            <6>1. r[n] = s[n + 1] /\ n + 1 # f
              BY <4>5, <5>1, <5>3
            <6>2. \A m \in 1 .. n : /\ m \in 1 .. n + 1 /\ m + 1 \in 1 .. n + 1
                                    /\ (r[m] = s[m] \/ r[m] = s[m + 1])
              BY <4>5, <5>1
            <6>3. \A m \in 1 .. n : \E i \in 1 .. n + 1 : r[m] = s[i]
              BY <6>2
            <6> QED  BY <5>1, <6>1, <6>3
          <5> QED  BY <5>2, <5>3
        <4>7. \A n \in 1 .. Len(r) :
                /\ r[n] \in Version /\ minimum'[q] < r[n] /\ d =< r[n]
                /\ Reached(q, r[n])'
                /\ \A m \in 1 .. n : r[m] =< r[n]
          <5> SUFFICES ASSUME NEW n \in 1 .. Len(r)
                PROVE  /\ r[n] \in Version /\ minimum'[q] < r[n] /\ d =< r[n]
                       /\ Reached(q, r[n])'
                       /\ \A m \in 1 .. n : r[m] =< r[n]
            OBVIOUS
          <5>1. PICK j \in 1 .. Len(s) :
                  /\ j # f /\ r[n] = s[j]
                  /\ \A m \in 1 .. n : \E i \in 1 .. j : r[m] = s[i]
            BY <4>6
          <5>2. \A i \in 1 .. j : s[i] =< s[j]
            BY <3>2
          <5>3. \A m \in 1 .. n : r[m] =< r[n]
            BY <5>1, <5>2
          <5> QED  BY <3>2, <3>3, <4>5, <5>1, <5>3
        <4>8. \A n \in 1 .. Len(r) : Reached(q, g_queue[q][n])'
          BY <3>1, <4>7 DEF Reached
        <4>9. minimum'[q] =< delete_front'[q]
          BY <2>2, <3>5
        <4> QED  BY <3>1, <4>1, <4>3, <4>4, <4>7, <4>8, <4>9
      <3> QED  BY <3>4, <3>5
    <2>9. SlotInv'
      <3> SUFFICES ASSUME NEW q \in Thread PROVE \E slot : Slots(q, slot)'
        BY DEF SlotInv
      <3>1. PICK slot : Slots(q, slot)
        BY DEF IInv, SlotInv
      <3>2. CASE q # p
        <4>1. Readers(q)' = Readers(q) /\ t \notin Readers(q)
          BY <1>4, <3>2, Constants DEF Readers, Registered
        <4>2. \A u \in Readers(q) : active_thread_version'[u] = active_thread_version[u]
          BY <1>4, <4>1 DEF Readers
        <4>3. g_queue'[q] = g_queue[q]
          BY <2>2, <3>2
        <4>4. Slots(q, slot)'
          BY <3>1, <4>1, <4>2, <4>3 DEF Slots
        <4> QED  BY <4>4
      <3>3. CASE q = p
        <4>1. PICK R, s, r, ver : /\ R = Readers(p) /\ s = g_queue[p] /\ r = g_queue'[p]
                                  /\ ver = active_thread_version
          OBVIOUS
        <4>2. Readers(q)' = R \ {t} /\ t \in R
          BY <1>4, <1>14, <3>3, <4>1, Constants DEF Readers, Registered
        <4>3. Matches(R, s, ver, slot)
          BY <3>1, <3>3, <4>1 DEF Slots, Matches
        <4>4. /\ Len(s) \in Nat /\ f \in 1 .. Len(s) /\ CutAt(s, f, r)
              /\ s[f] = ver[t]
          BY <1>1, <2>3, <4>1 DEF SharedType
        <4>5. PICK new : Matches(R \ {t}, r, ver, new)
          BY <4>2, <4>3, <4>4, SlotsAfterCut
        <4>6. \A u \in R \ {t} : active_thread_version'[u] = ver[u]
          BY <1>4, <4>1 DEF Readers
        <4>7. Slots(q, new)'
          BY <3>3, <4>1, <4>2, <4>5, <4>6 DEF Slots, Matches
        <4> QED  BY <4>7
      <3> QED  BY <3>2, <3>3
    <2> QED
      BY <1>2, <1>7, <1>8, <1>9, <1>10, <1>11, <1>12, <2>4, <2>6, <2>7, <2>8, <2>9,
         WorkerStep DEF DataInv
  <1> QED  BY <1>13, <1>14

----------------------------------------------------------------------------
(* The inductive invariant, and what follows from it.                      *)

\* A step that changes nothing.
LEMMA StutterStep == IInv /\ UNCHANGED vars => IInv'
  <1> SUFFICES ASSUME IInv, UNCHANGED vars PROVE IInv'
    OBVIOUS
  <1>1. GcLocal /\ gc' = gc
    BY DEF vars, GcLocal
  <1>2. GcType'
    BY <1>1, TypeParts DEF IInv, GcType
  <1>3. GcInv'
    BY <1>1 DEF IInv, GcInv, Live, Garbage, GcLocal, lists, shared
  <1> QED  BY <1>1, <1>2, <1>3, GcLocalStep

\* Every step keeps the inductive invariant.
LEMMA InductiveStep == IInv /\ [Next]_vars => IInv'
  <1> SUFFICES ASSUME IInv, [Next]_vars PROVE IInv'
    OBVIOUS
  <1>1. ASSUME NEW t \in Thread, ThreadFunc(t) PROVE IInv'
    BY <1>1, BeginStep, StopStep, RegisterStep, LoadStep, WalkStep, UpdateStep,
       FinishStep DEF ThreadFunc
  <1>2. CASE GarvageCollector
    BY <1>2, GcBeginStep, GcStopStep, GcMinimumStep, GcHeadStep, GcKeepStep, GcCutStep,
       GcFreeStep, GcNextListStep DEF GarvageCollector
  <1>3. CASE Main
    BY <1>3, MainStep
  <1>4. CASE Ended \/ UNCHANGED vars
    BY <1>4, StutterStep DEF Ended
  <1> QED  BY <1>1, <1>2, <1>3, <1>4 DEF Next

\* The inductive invariant holds in every state.
THEOREM Inductive ==
  ASSUME Fits PROVE Spec => []IInv
  <1>1. Init => IInv
    BY InductiveInit
  <1> QED  BY <1>1, InductiveStep, PTL DEF Spec

\* Every variable keeps its type; in particular the versions that the code
\* stores in an int and in a uint64_t stay in range.
THEOREM TypeCorrect ==
  ASSUME Fits PROVE Spec => []TypeOK
  <1>1. IInv => TypeOK
    BY DEF IInv
  <1> QED  BY <1>1, Inductive, PTL

\* A registered reader stands at or above the newest version it may read, and
\* that one is not below the minimum of the list, so it is allocated.
LEMMA ReadersLive == IInv => RegisteredReadersOnLiveNodes
  <1> SUFFICES ASSUME IInv, NEW t \in Thread, pc[t] \in {"walk", "update"}, Registered(t)
               PROVE  Live(picked_thread_index[t], cursor_singly_node[t])
    BY DEF RegisteredReadersOnLiveNodes
  <1> DEFINE p == picked_thread_index[t]
             v == active_thread_version[t]
             c == cursor_singly_node[t]
  <1>1. p \in Thread /\ v \in Version /\ minimum[p] < v
    BY ReaderEntry DEF IInv
  <1>2. /\ c \in Version /\ Exists(p, c)
        /\ c < v => \A w \in Version : Exists(p, w) /\ w < v => w =< c
    BY DEF IInv, ReaderInv
  <1>3. minimum[p] \in Version /\ Exists(p, minimum[p])
    BY <1>1, TypeParts DEF IInv, SharedType, ListInv
  <1>4. minimum[p] =< c
    <2>1. CASE c < v
      BY <1>1, <1>2, <1>3, <2>1
    <2>2. CASE ~(c < v)
      BY <1>1, <1>2, <1>3, <2>2, Constants
    <2> QED  BY <2>1, <2>2
  <1> QED  BY <1>1, <1>2, <1>4 DEF IInv, ListInv

\* However many threads run and however the collector is scheduled, a reader
\* that registered in the queue never stands on memory that was freed.
THEOREM ReadersOnLive ==
  ASSUME Fits PROVE Spec => []RegisteredReadersOnLiveNodes
  BY Inductive, ReadersLive, PTL

\* It reads the newest version below the one it was seen working on: nothing
\* that is still visible is cut off.
THEOREM ReadersSnapshot ==
  ASSUME Fits PROVE Spec => []RegisteredReadersSeeSnapshot
  <1>1. IInv => RegisteredReadersSeeSnapshot
    <2> SUFFICES ASSUME IInv, NEW t \in Thread, pc[t] = "update", Registered(t)
          PROVE  /\ cursor_singly_node[t] < active_thread_version[t]
                 /\ \A w \in Version :
                      Exists(picked_thread_index[t], w) /\ w < active_thread_version[t]
                         => w =< cursor_singly_node[t]
      BY DEF RegisteredReadersSeeSnapshot
    <2> QED  BY DEF IInv, ReaderInv
  <1> QED  BY <1>1, Inductive, PTL

\* Versions are unique, and the lists are sorted from new to old.
THEOREM Descending ==
  ASSUME Fits PROVE Spec => []VersionsDescend
  <1>1. IInv => VersionsDescend
    BY DEF IInv, UniqueInv, ListInv, VersionsDescend
  <1> QED  BY <1>1, Inductive, PTL

\* No allocated node links to a freed one.
THEOREM NoDangling ==
  ASSUME Fits PROVE Spec => []NoDanglingLink
  <1>1. IInv => NoDanglingLink
    BY DEF IInv, ListInv, LinkOK, NoDanglingLink
  <1> QED  BY <1>1, Inductive, PTL

\* The collector never writes through back while it is NULL.
THEOREM KeepsHead ==
  ASSUME Fits PROVE Spec => []CollectorKeepsHead
  <1>1. IInv => CollectorKeepsHead
    BY DEF IInv, GcInv, CollectorKeepsHead
  <1> QED  BY <1>1, Inductive, PTL

\* The queues stay sorted and above minimum.
THEOREM QueueSorted ==
  ASSUME Fits PROVE Spec => []QueueSortedAboveMinimum
  <1>1. IInv => QueueSortedAboveMinimum
    <2> SUFFICES ASSUME IInv, NEW p \in Thread, NEW n \in 1 .. Len(g_queue[p])
          PROVE  /\ minimum[p] < g_queue[p][n] /\ delete_front[p] =< g_queue[p][n]
                 /\ n > 1 => g_queue[p][n - 1] =< g_queue[p][n]
      BY DEF QueueSortedAboveMinimum
    <2>1. Len(g_queue[p]) \in Nat
      BY TypeParts DEF IInv, SharedType
    <2>2. n > 1 => n - 1 \in 1 .. n
      BY <2>1
    <2> QED  BY <2>2 DEF IInv, QueueInv
  <1> QED  BY <1>1, Inductive, PTL

\* What the collector frees is below the minimum of that moment, although it
\* read minimum earlier and without the lock.
THEOREM FreesBelow ==
  ASSUME Fits PROVE Spec => FreesOnlyBelowMinimum
  <1>1. ASSUME IInv, [Next]_vars, memory' # memory, NEW p \in Thread, NEW v \in Version,
               Live(p, v), ~Live(p, v)'
        PROVE  v < minimum[p]
    <2>0. ListType /\ GcType /\ SharedType
      BY <1>1, TypeParts DEF IInv
    <2>1. ASSUME NEW t \in Thread, ThreadFunc(t) PROVE Update(t)
      <3>1. memory' # memory
        BY <1>1
      <3> QED  BY <2>1, <3>1 DEF ThreadFunc, Begin, Stop, Register, Load, Walk, Finish, lists
    <2>2. ASSUME NEW t \in Thread, Update(t) PROVE Live(p, v)'
      BY <1>1, <2>0, <2>2 DEF Update, InsertSinglyList, Live, ListType
    <2>3. GcFree
      <3>1. ~Main /\ ~Ended /\ ~(UNCHANGED vars)
        BY <1>1 DEF Main, Tick, DumpHead, DumpNode, DumpRewind, DumpNextList, DumpDone,
           StopAll, Join, MainLocal, Ended, vars, lists
      <3>2. GarvageCollector
        BY <1>1, <2>1, <2>2, <3>1 DEF Next
      <3> QED
        BY <1>1, <3>2 DEF GarvageCollector, GcBegin, GcStop, GcMinimum, GcHead, GcKeep,
           GcCut, GcNextList, GcLocal, lists
    <2>4. gc.i \in Thread /\ gc.tmp \in Version /\ gc.minimum \in Version /\ minimum[gc.i] \in Version
      BY <2>0, <2>3, Constants DEF GcType, GcFree, SharedType
    <2>5. p = gc.i /\ v = gc.tmp
      BY <1>1, <2>0, <2>3, <2>4 DEF GcFree, Live, ListType
    <2>6. gc.tmp < gc.minimum /\ gc.minimum =< minimum[gc.i]
      BY <1>1, <2>3 DEF IInv, GcInv, GcFree, Garbage
    <2> QED  BY <2>4, <2>5, <2>6, Constants
  <1>2. IInv /\ [Next]_vars =>
          [\A p \in Thread : \A v \in Version :
              Live(p, v) /\ ~Live(p, v)' => v < minimum[p]]_memory
    BY <1>1
  <1> QED  BY <1>2, Inductive, PTL DEF Spec, FreesOnlyBelowMinimum

\* minimum never goes back.
THEOREM MinimumMonotone ==
  ASSUME Fits PROVE Spec => MinimumGrows
  <1>1. ASSUME IInv, [Next]_vars, minimum' # minimum, NEW p \in Thread
        PROVE  minimum'[p] >= minimum[p]
    <2>1. PICK t \in Thread : Finish(t)
      <3>1. ~Main /\ ~Ended /\ ~(UNCHANGED vars) /\ ~GarvageCollector
        BY <1>1 DEF Main, Tick, DumpHead, DumpNode, DumpRewind, DumpNextList, DumpDone,
           StopAll, Join, MainLocal, Ended, vars, shared, GarvageCollector, GcBegin,
           GcStop, GcMinimum, GcHead, GcKeep, GcCut, GcFree, GcNextList, GcLocal
      <3>2. PICK t \in Thread : ThreadFunc(t)
        BY <1>1, <3>1 DEF Next
      <3>3. Finish(t)
        BY <1>1, <3>2 DEF ThreadFunc, Begin, Stop, Register, Load, Walk, Update, shared
      <3> QED  BY <3>3
    <2>2. Registered(t) /\ Deregister(picked_thread_index[t], active_thread_version[t])
      BY <1>1, <2>1 DEF Finish
    <2>3. PICK q \in Thread, v \in Version : /\ q = picked_thread_index[t]
                                             /\ v = active_thread_version[t]
      BY <1>1, <2>2, ReaderEntry DEF IInv
    <2>4. \E n \in 1 .. Len(g_queue[q]) : g_queue[q][n] = v
      BY <1>1, <2>2, <2>3, ReaderEntry DEF IInv
    <2>5. /\ minimum[q] =< minimum'[q] /\ minimum' \in [Thread -> Version]
          /\ \A r \in Thread \ {q} : minimum'[r] = minimum[r]
      BY <1>1, <2>2, <2>3, <2>4, DeregisterEffect
    <2>6. minimum[p] \in Int /\ minimum'[p] \in Int
      BY <1>1, <2>5, TypeParts, Constants DEF IInv, SharedType
    <2> QED  BY <2>5, <2>6
  <1>2. IInv /\ [Next]_vars => [\A p \in Thread : minimum'[p] >= minimum[p]]_minimum
    BY <1>1
  <1> QED  BY <1>2, Inductive, PTL DEF Spec, MinimumGrows

\* A queue holds one entry for each registered reader and no other, also when
\* readers with the same version leave in another order than they came.
THEOREM QueueTracks ==
  ASSUME Fits PROVE Spec => []QueueTracksReaders
  <1>1. IInv => QueueTracksReaders
    <2> SUFFICES ASSUME IInv, NEW p \in Thread, NEW v \in 0 .. WordSize - 1
          PROVE  Cardinality({n \in 1 .. Len(g_queue[p]) : g_queue[p][n] = v}) =
                 Cardinality({t \in Thread : /\ Registered(t)
                                             /\ picked_thread_index[t] = p
                                             /\ active_thread_version[t] = v})
      BY DEF QueueTracksReaders
    <2>1. PICK slot : Slots(p, slot)
      BY DEF IInv, SlotInv
    <2> DEFINE E == {n \in 1 .. Len(g_queue[p]) : g_queue[p][n] = v}
               R == {t \in Thread : /\ Registered(t)
                                    /\ picked_thread_index[t] = p
                                    /\ active_thread_version[t] = v}
               at == [t \in R |-> slot[t]]
    <2>2. at \in [R -> E] /\ \A t \in R : at[t] = slot[t]
      BY <2>1 DEF Slots, Readers
    <2>3. \A t, u \in R : at[t] = at[u] => t = u
      BY <2>1 DEF Slots, Readers
    <2>4. \A n \in E : \E t \in R : at[t] = n
      BY <2>1 DEF Slots, Readers
    <2>5. IsFiniteSet(R)
      <3>1. IsFiniteSet(Thread)
        BY FS_Interval, NAssumption DEF Thread
      <3>2. R \subseteq Thread
        OBVIOUS
      <3> HIDE DEF R
      <3> QED  BY <3>1, <3>2, FS_Subset, Zenon
    <2> HIDE DEF E, R, at
    <2>6. at \in Bijection(R, E)
      BY <2>2, <2>3, <2>4, Fun_IsBij
    <2>7. ExistsBijection(R, E)
      BY <2>6 DEF ExistsBijection
    <2>8. Cardinality(E) = Cardinality(R)
      BY <2>5, <2>7, FS_Bijection
    <2> QED  BY <2>8 DEF E, R
  <1> QED  BY <1>1, Inductive, PTL

----------------------------------------------------------------------------
(* The program implements VersionStore.                                    *)

Committed == [t \in Thread |-> {v \in Version : Exists(t, v)}]
Result == [t \in Thread |-> IF pc[t] = "update" THEN cursor_singly_node[t] ELSE NULL]

\* The newest of a set of versions is its greatest element.
LEMMA NewestIs ==
  ASSUME NEW S, NEW c \in S, S \subseteq Int, \A w \in S : w =< c
  PROVE  Store!Newest(S) = c
  <1>1. \A x \in S : (\A w \in S : w =< x) => x = c
    OBVIOUS
  <1> QED  BY <1>1 DEF Store!Newest

\* The first state is one of the abstract store.
LEMMA RefinesInit == Init => Store!Init
  <1> SUFFICES ASSUME Init PROVE Store!Init
    OBVIOUS
  <1>1. Committed = [t \in Thread |-> {0}]
    BY Constants DEF Committed, Init, Exists
  <1>2. Result = [t \in Thread |-> NULL]
    BY DEF Result, Init
  <1> QED  BY <1>1, <1>2 DEF Init, Store!Init, Committed, Result

\* Steps that leave the counter, the active list, the picks and the results
\* alone and neither add nor lose a version.
LEMMA RefinesStutter ==
  ASSUME UNCHANGED <<g_atomic_counter, g_active_list, picked_thread_index,
                     active_thread_version>>,
         \A p \in Thread, v \in Version : Exists(p, v)' <=> Exists(p, v),
         \A t \in Thread : (IF pc'[t] = "update" THEN cursor_singly_node'[t] ELSE NULL) =
                           (IF pc[t] = "update" THEN cursor_singly_node[t] ELSE NULL)
  PROVE  UNCHANGED Store!vars
  <1>1. Committed' = Committed
    BY DEF Committed
  <1>2. Result' = Result
    BY DEF Result
  <1> QED  BY <1>1, <1>2 DEF Store!vars, Committed, Result

\* The first critical section is Start.
LEMMA RefinesRegister ==
  ASSUME IInv, NEW t \in Thread, Register(t) PROVE Store!Start(t)
  <1>1. PICK p \in Picks[t] \ {t} :
         /\ g_atomic_counter' = g_atomic_counter + 1
         /\ g_active_list' = [g_active_list EXCEPT ![t] = g_atomic_counter + 1]
         /\ picked_thread_index' = [picked_thread_index EXCEPT ![t] = p]
         /\ IF g_active_list[p] # NULL
              THEN active_thread_version' =
                        [active_thread_version EXCEPT ![t] = g_active_list[p]]
              ELSE active_thread_version' = active_thread_version
    BY DEF Register, InsertGlobalActiveList, CaptureActiveList
  <1>2. pc[t] = "pick" /\ pc' = [pc EXCEPT ![t] = "load"] /\ UNCHANGED <<lists, cursor_singly_node>>
    BY DEF Register
  <1>3. p \in Thread \ {t} /\ g_active_list[t] = NULL /\ ~Registered(t)
    BY <1>1, <1>2, PicksAssumption DEF Thread, IInv, ReaderInv, ActiveInv, Busy
  <1>4. LocalType
    BY TypeParts DEF IInv
  <1>5. active_thread_version[t] = 0
    BY <1>3, <1>4, Constants DEF Registered, LocalType
  <1>6. active_thread_version' =
          [active_thread_version EXCEPT ![t] = IF g_active_list[p] = NULL THEN 0
                                               ELSE g_active_list[p]]
    BY <1>1, <1>4, <1>5 DEF LocalType
  <1>7. Committed' = Committed
    BY <1>2 DEF Committed, Exists, lists
  <1>8. Result' = Result
    BY <1>2, <1>4 DEF Result, LocalType
  <1> QED  BY <1>1, <1>3, <1>6, <1>7, <1>8 DEF Store!Start, Committed, Result

\* A thread that comes to rest on the newest visible version does Read.
LEMMA RefinesRead ==
  ASSUME IInv, NEW t \in Thread, pc[t] \in {"load", "walk"},
         pc' = [pc EXCEPT ![t] = "update"],
         UNCHANGED <<lists, g_atomic_counter, g_active_list, picked_thread_index,
                     active_thread_version>>,
         NEW c \in Version, cursor_singly_node' = [cursor_singly_node EXCEPT ![t] = c],
         Exists(picked_thread_index[t], c),
         Registered(t) => c < active_thread_version[t],
         \A w \in Version :
            /\ Exists(picked_thread_index[t], w)
            /\ Registered(t) => w < active_thread_version[t]
            => w =< c
  PROVE  Store!Read(t)
  <1>1. LocalType /\ ListType /\ SharedType
    BY TypeParts DEF IInv
  <1> DEFINE p == picked_thread_index[t]
             S == {v \in Committed[p] :
                     active_thread_version[t] = 0 \/ v < active_thread_version[t]}
  <1>2. p \in Thread /\ active_thread_version[t] \in Version
    BY <1>1 DEF LocalType
  <1>3. Registered(t) <=> active_thread_version[t] # 0
    BY <1>2, Constants DEF Registered
  <1>4. S \subseteq Int /\ c \in S /\ \A w \in S : w =< c
    BY <1>2, <1>3, Constants DEF Committed
  <1>5. S = Store!Visible(t)
    BY DEF Store!Visible, Committed
  <1>6. Store!Newest(Store!Visible(t)) = c
    <2> HIDE DEF S
    <2> QED  BY <1>4, <1>5, NewestIs
  <1>7. Committed' = Committed
    BY DEF Committed, Exists, lists
  <1>8. Result[t] = NULL /\ Result' = [Result EXCEPT ![t] = c]
    BY <1>1 DEF Result, LocalType
  <1>9. g_active_list[t] # NULL /\ g_active_list[t] \notin Committed[t]
    <2>1. g_active_list[t] # NULL /\ g_singly_list[t] < g_active_list[t]
      BY DEF IInv, ActiveInv, Busy
    <2>2. g_active_list[t] \in Version /\ g_singly_list[t] \in Version
      BY <1>1, <2>1, Constants DEF SharedType, ListType
    <2>3. ~Exists(t, g_active_list[t])
      BY <2>1, <2>2, Constants DEF IInv, ListInv
    <2> QED  BY <2>1, <2>3 DEF Committed
  <1> QED
    BY <1>6, <1>7, <1>8, <1>9 DEF Store!Read, Committed, Result

\* The insertion is Commit.
LEMMA RefinesUpdate ==
  ASSUME IInv, NEW t \in Thread, Update(t) PROVE Store!Commit(t)
  <1>1. LocalType /\ ListType /\ SharedType
    BY TypeParts DEF IInv
  <1>2. /\ pc[t] = "update" /\ pc' = [pc EXCEPT ![t] = "finish"]
        /\ memory' = [memory EXCEPT ![t][g_active_list[t]] = "live"]
        /\ cursor_singly_node' = [cursor_singly_node EXCEPT ![t] = NULL]
        /\ UNCHANGED <<shared, picked_thread_index, active_thread_version>>
    BY DEF Update, InsertSinglyList, CurrentVersion
  <1>3. g_active_list[t] \in Version /\ cursor_singly_node[t] \in Version
    BY <1>1, <1>2, Constants DEF IInv, ActiveInv, ReaderInv, Busy, SharedType
  <1>4. \A p \in Thread, v \in Version :
          Exists(p, v)' <=> Exists(p, v) \/ (p = t /\ v = g_active_list[t])
    BY <1>1, <1>2, <1>3 DEF Exists, ListType
  <1>5. Committed' = [Committed EXCEPT ![t] = @ \cup {g_active_list[t]}]
    BY <1>3, <1>4 DEF Committed
  <1>6. Result[t] # NULL /\ Result' = [Result EXCEPT ![t] = NULL]
    BY <1>1, <1>2, <1>3, Constants DEF Result, LocalType
  <1> QED  BY <1>2, <1>5, <1>6 DEF Store!Commit, Committed, Result, shared

\* The second critical section is End.
LEMMA RefinesFinish ==
  ASSUME IInv, NEW t \in Thread, Finish(t) PROVE Store!End(t)
  <1>1. LocalType
    BY TypeParts DEF IInv
  <1>2. /\ pc[t] = "finish" /\ pc' = [pc EXCEPT ![t] = "top"]
        /\ g_active_list' = [g_active_list EXCEPT ![t] = NULL]
        /\ picked_thread_index' = [picked_thread_index EXCEPT ![t] = t]
        /\ active_thread_version' = [active_thread_version EXCEPT ![t] = 0]
        /\ UNCHANGED <<lists, g_atomic_counter, cursor_singly_node>>
    BY DEF Finish, DeleteGlobalActiveList
  <1>3. g_active_list[t] # NULL /\ g_active_list[t] \in Committed[t]
    <2>1. g_active_list[t] # NULL /\ g_singly_list[t] = g_active_list[t]
      BY <1>2 DEF IInv, ActiveInv, Busy
    <2>2. g_active_list[t] \in Version /\ Exists(t, g_active_list[t])
      BY <2>1, TypeParts DEF IInv, ListInv, ListType
    <2> QED  BY <2>1, <2>2 DEF Committed
  <1>4. Committed' = Committed
    BY <1>2 DEF Committed, Exists, lists
  <1>5. Result' = Result
    BY <1>1, <1>2 DEF Result, LocalType
  <1> QED  BY <1>2, <1>3, <1>4, <1>5 DEF Store!End, Committed, Result

\* Every other step is a stuttering step of the abstract store.
LEMMA RefinesStep == IInv /\ [Next]_vars => [Store!Next]_Store!vars
  <1> SUFFICES ASSUME IInv, [Next]_vars PROVE Store!Next \/ UNCHANGED Store!vars
    OBVIOUS
  <1>0. LocalType /\ ListType /\ GcType
    BY TypeParts DEF IInv
  <1>1. ASSUME NEW t \in Thread, Begin(t) \/ Stop(t) PROVE UNCHANGED Store!vars
    BY <1>0, <1>1, RefinesStutter DEF Begin, Stop, LocalType, Exists, lists, shared, locals
  <1>2. ASSUME NEW t \in Thread, Register(t) PROVE Store!Next
    BY <1>2, RefinesRegister DEF Store!Next
  <1>3. ASSUME NEW t \in Thread, Load(t) PROVE Store!Next \/ UNCHANGED Store!vars
    <2> DEFINE p == picked_thread_index[t]
    <2>1. /\ pc[t] = "load"
          /\ cursor_singly_node' = [cursor_singly_node EXCEPT ![t] = g_singly_list[p]]
          /\ pc' = [pc EXCEPT ![t] = IF Registered(t) THEN "walk" ELSE "update"]
          /\ UNCHANGED <<lists, shared, picked_thread_index, active_thread_version>>
      BY <1>3 DEF Load
    <2>2. CASE Registered(t)
      BY <1>0, <2>1, <2>2, RefinesStutter DEF LocalType, Exists, lists, shared
    <2>3. CASE ~Registered(t)
      <3>1. p \in Thread /\ g_singly_list[p] \in Version
        BY <1>0 DEF LocalType, ListType
      <3>2. /\ Exists(p, g_singly_list[p])
            /\ \A w \in Version : Exists(p, w) => w =< g_singly_list[p]
        BY <3>1 DEF IInv, ListInv
      <3>3. pc' = [pc EXCEPT ![t] = "update"]
        BY <2>1, <2>3
      <3>4. UNCHANGED <<lists, g_atomic_counter, g_active_list, picked_thread_index,
                        active_thread_version>>
        BY <2>1 DEF shared
      <3>5. PICK c \in Version : c = g_singly_list[p]
        BY <3>1
      <3>6. Store!Read(t)
        BY <2>1, <2>3, <3>2, <3>3, <3>4, <3>5, RefinesRead
      <3> QED  BY <3>6 DEF Store!Next
    <2> QED  BY <2>2, <2>3
  <1>4. ASSUME NEW t \in Thread, Walk(t) PROVE Store!Next \/ UNCHANGED Store!vars
    <2> DEFINE p == picked_thread_index[t]
               v == active_thread_version[t]
    <2>1. /\ pc[t] = "walk"
          /\ UNCHANGED <<lists, shared, picked_thread_index, active_thread_version>>
      BY <1>4 DEF Walk
    <2>2. PICK c \in Version : c = cursor_singly_node[t]
      BY <2>1 DEF IInv, ReaderInv
    <2>3. CASE c < v
      <3>1. pc' = [pc EXCEPT ![t] = "update"] /\ cursor_singly_node' = cursor_singly_node
        BY <1>4, <2>2, <2>3 DEF Walk, VisibleTo
      <3>2. cursor_singly_node' = [cursor_singly_node EXCEPT ![t] = c]
        BY <1>0, <2>2, <3>1 DEF LocalType
      <3>3. Registered(t) /\ Exists(p, c)
            /\ \A w \in Version : Exists(p, w) /\ w < v => w =< c
        BY <2>1, <2>2, <2>3 DEF IInv, ReaderInv
      <3>4. UNCHANGED <<lists, g_atomic_counter, g_active_list, picked_thread_index,
                        active_thread_version>>
        BY <2>1 DEF shared
      <3>5. Store!Read(t)
        BY <2>1, <2>3, <3>1, <3>2, <3>3, <3>4, RefinesRead
      <3> QED  BY <3>5 DEF Store!Next
    <2>4. CASE ~(c < v)
      <3>1. pc' = pc /\ \A u \in Thread : u # t => cursor_singly_node'[u] = cursor_singly_node[u]
        BY <1>0, <1>4, <2>2, <2>4 DEF Walk, VisibleTo, LocalType
      <3> QED  BY <2>1, <3>1, RefinesStutter DEF Exists, lists, shared
    <2> QED  BY <2>3, <2>4
  <1>5. ASSUME NEW t \in Thread, Update(t) PROVE Store!Next
    BY <1>5, RefinesUpdate DEF Store!Next
  <1>6. ASSUME NEW t \in Thread, Finish(t) PROVE Store!Next
    BY <1>6, RefinesFinish DEF Store!Next
  <1>7. CASE GarvageCollector
    <2>1. UNCHANGED <<shared, locals, pc>>
      BY <1>7 DEF GarvageCollector, GcBegin, GcStop, GcMinimum, GcHead, GcKeep, GcCut,
         GcFree, GcNextList, GcLocal
    <2>2. \A p \in Thread, v \in Version : Exists(p, v)' <=> Exists(p, v)
      <3>1. CASE GcFree
        <4>1. gc.i \in Thread /\ gc.tmp \in Version /\ Live(gc.i, gc.tmp)
          BY <1>0, <3>1, Constants DEF GcType, GcFree, IInv, GcInv
        <4> QED  BY <1>0, <3>1, <4>1 DEF GcFree, Exists, Live, ListType
      <3>2. CASE ~GcFree
        BY <1>7, <3>2 DEF GarvageCollector, GcBegin, GcStop, GcMinimum, GcHead, GcKeep,
           GcCut, GcNextList, GcLocal, lists, Exists
      <3> QED  BY <3>1, <3>2
    <2> QED  BY <2>1, <2>2, RefinesStutter DEF shared, locals
  <1>8. CASE Main \/ Ended \/ UNCHANGED vars
    <2>1. UNCHANGED <<lists, shared, locals, pc>>
      BY <1>8 DEF Main, Tick, DumpHead, DumpNode, DumpRewind, DumpNextList, DumpDone,
         StopAll, Join, MainLocal, Ended, vars
    <2> QED  BY <2>1, RefinesStutter DEF Exists, lists, shared, locals
  <1> QED
    BY <1>1, <1>2, <1>3, <1>4, <1>5, <1>6, <1>7, <1>8 DEF Next, ThreadFunc

\* The lists, the queues and the collector implement the abstract store, in
\* which no version ever disappears: the version that a registered reader ends
\* at is the one it would find without a collector.  For a reader that did not
\* register only the version is meant; its node may be freed before it reads.
THEOREM Refinement ==
  ASSUME Fits PROVE Spec => ImplementsVersionStore
  BY RefinesInit, RefinesStep, Inductive, PTL DEF Spec, ImplementsVersionStore, Store!Spec
=============================================================================
