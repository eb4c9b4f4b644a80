----------------------------- MODULE SimpleMVCC -----------------------------
(***************************************************************************)
(* Project2.cpp: worker threads that update their own version list after   *)
(* reading a version of another thread's list (ThreadFunc), a garbage      *)
(* collector that cuts and frees the old ends of the lists                 *)
(* (ThreadGarvageCollectionFunc), and main, which starts the threads,      *)
(* dumps the lists when the verbose option is given, and stops everybody.  *)
(*                                                                         *)
(* The two critical sections of ThreadFunc are one action each: all they   *)
(* touch is touched only under g_mutex, except `minimum`, which each       *)
(* writes at most once and the collector reads at any time.  Everything    *)
(* outside them runs without a lock and is one action per access that      *)
(* another thread could disturb.                                           *)
(*                                                                         *)
(* A node of a version list is named by its version: thread p inserts a    *)
(* version at most once.  A and B of a node are left out.  An update adds  *)
(* to A what it takes from B (the -Ofast build loads cursor->A once), so   *)
(* A + B is preserved whatever was read, and what was read is told by the  *)
(* version it came from.                                                   *)
(***************************************************************************)
EXTENDS Integers, Sequences, FiniteSets

CONSTANTS N,           \* g_num_thread
          Ticks,       \* 10 * duration, the iterations of the loop of main
          Verbose,     \* g_verbose_flag
          IntMax,      \* the largest int
          WordSize,    \* the number of values of uint64_t
          Picks,       \* bound of the model: whom a thread's rand() can pick
          MaxVersion   \* bound of the model: the versions that are handed out

ASSUME NAssumption == N \in Nat \ {0}
ASSUME TicksAssumption == Ticks \in Nat
ASSUME VerboseAssumption == Verbose \in BOOLEAN
ASSUME WordAssumption ==
    IntMax \in Nat /\ WordSize \in Nat /\ 2 * (IntMax + 1) =< WordSize
ASSUME PicksAssumption == Picks \in [0 .. N - 1 -> SUBSET (0 .. N - 1)]
ASSUME VersionAssumption == MaxVersion \in Nat /\ MaxVersion < WordSize

Thread  == 0 .. N - 1
Version == 0 .. MaxVersion
NULL    == -1
Node    == Version \cup {NULL}   \* the values of a SinglyNode pointer

VARIABLES
    g_could_thread_run, g_is_verbosing,
    g_atomic_counter,
    g_active_list,   \* the version of a thread's node in the list, or NULL
    g_queue,         \* the versions in a thread's queue, front first
    minimum, delete_front,  \* these fields of the thread's queue
    g_singly_list,   \* the head of the thread's version list
    link, memory,    \* of each node: its link, and if it is allocated
    g_thread_throughput,
    pc, picked_thread_index,
    active_thread_version,  \* 0 while is_thread_active is false
    cursor_singly_node,
    gc,              \* the collector's control point and locals
    main             \* main's control point and locals

flags == <<g_could_thread_run, g_is_verbosing>>
lists == <<g_singly_list, link, memory>>
shared == <<g_atomic_counter, g_active_list, g_queue, minimum, delete_front>>
locals == <<picked_thread_index, active_thread_version, cursor_singly_node>>
vars == <<flags, lists, shared, locals, g_thread_throughput, pc, gc, main>>

Exists(p, v) == memory[p][v] # "none"
Live(p, n) == n \in Version /\ memory[p][n] = "live"

\* is_thread_active
Registered(t) == active_thread_version[t] > 0

\* Mutant: the insertion reads the shared counter again.
LatestVersion(t) == g_atomic_counter

\* current_version: what the thread put in its node of g_active_list.
CurrentVersion(t) == g_active_list[t]

\* A queue as CreateQueue returns it; its other fields are in fresh memory of
\* the C library, which is zero.
CreateQueue == <<>>

Init ==
    /\ g_could_thread_run = TRUE
    /\ g_is_verbosing = FALSE
    /\ g_atomic_counter = 0
    /\ g_active_list = [t \in Thread |-> NULL]
    /\ g_queue = [t \in Thread |-> CreateQueue]
    /\ minimum = [t \in Thread |-> 0]
    /\ delete_front = [t \in Thread |-> 0]
    /\ g_singly_list = [t \in Thread |-> 0]
    /\ link = [t \in Thread |-> [v \in Version |-> NULL]]
    /\ memory = [t \in Thread |->
                   [v \in Version |-> IF v = 0 THEN "live" ELSE "none"]]
    /\ g_thread_throughput = [t \in Thread |-> 0]
    /\ pc = [t \in Thread |-> "top"]
    /\ picked_thread_index = [t \in Thread |-> t]
    /\ active_thread_version = [t \in Thread |-> 0]
    /\ cursor_singly_node = [t \in Thread |-> NULL]
    /\ gc = [pc |-> "top", i |-> 0, minimum |-> 0, tmp |-> NULL, back |-> NULL]
    /\ main = [pc |-> "sleep", tick |-> 0, i |-> 0, tmp |-> NULL,
               head |-> NULL]

----------------------------------------------------------------------------
(* ThreadFunc                                                              *)

\* Bound: a thread starts an update only if a version is left for it.
VersionsLeft ==
    g_atomic_counter + Cardinality({t \in Thread : pc[t] = "pick"}) < MaxVersion

\* The two tests at the top of the loop.  They read two flags, but between
\* the reads main can only clear g_is_verbosing before it clears
\* g_could_thread_run, so the pair of values existed at one instant.
Begin(t) ==
    /\ pc[t] = "top"
    /\ g_could_thread_run
    /\ ~g_is_verbosing
    /\ VersionsLeft
    /\ pc' = [pc EXCEPT ![t] = "pick"]
    /\ UNCHANGED <<flags, lists, shared, locals, g_thread_throughput, gc, main>>

Stop(t) ==
    /\ pc[t] = "top"
    /\ ~g_could_thread_run
    /\ pc' = [pc EXCEPT ![t] = "done"]
    /\ UNCHANGED <<flags, lists, shared, locals, g_thread_throughput, gc, main>>

\* A thread has at most one node in the active list: it inserts one, then
\* deletes it.
InsertGlobalActiveList(t, v) == [g_active_list EXCEPT ![t] = v]
DeleteGlobalActiveList(t) == [g_active_list EXCEPT ![t] = NULL]

\* The capture is a copy, which the thread searches for the picked thread.
CaptureActiveList == g_active_list

\* AddRear takes the version as an int and stores it in a uint64_t.
StoredVersion(v) ==
    IF v =< IntMax THEN v
    ELSE LET low == v % (2 * (IntMax + 1))
         IN  IF low =< IntMax THEN low
             ELSE low + (WordSize - 2 * (IntMax + 1))

\* Mutant: the version goes to the front.
AddFront(p, v) == [g_queue EXCEPT ![p] = <<StoredVersion(v)>> \o @]

AddRear(p, v) == [g_queue EXCEPT ![p] = Append(@, StoredVersion(v))]

\* The loop that picks another thread, and the first critical section: a new
\* version, this thread's node in the active list, the capture of the list
\* and, if the picked thread is in it, the registration in its queue.
Register(t) ==
    /\ pc[t] = "pick"
    /\ \E p \in Picks[t] \ {t} :
         /\ g_atomic_counter' = g_atomic_counter + 1
         /\ g_active_list' = InsertGlobalActiveList(t, g_atomic_counter + 1)
         /\ picked_thread_index' = [picked_thread_index EXCEPT ![t] = p]
         /\ IF CaptureActiveList[p] # NULL
              THEN /\ active_thread_version' =
                        [active_thread_version EXCEPT ![t] = CaptureActiveList[p]]
                   /\ g_queue' = AddRear(p, CaptureActiveList[p])
              ELSE UNCHANGED <<active_thread_version, g_queue>>
    /\ pc' = [pc EXCEPT ![t] = "load"]
    /\ UNCHANGED <<flags, lists, minimum, delete_front, cursor_singly_node,
                   g_thread_throughput, gc, main>>

\* cursor_singly_node = g_singly_list[picked_thread_index]
Load(t) ==
    /\ pc[t] = "load"
    /\ cursor_singly_node' =
         [cursor_singly_node EXCEPT ![t] = g_singly_list[picked_thread_index[t]]]
    /\ pc' = [pc EXCEPT ![t] = IF Registered(t) THEN "walk" ELSE "update"]
    /\ UNCHANGED <<flags, lists, shared, picked_thread_index,
                   active_thread_version, g_thread_throughput, gc, main>>

\* Mutant: the version under way counts as visible.
VisibleUpTo(t, v) == v =< active_thread_version[t]

\* cursor_singly_node->version < active_thread_version
VisibleTo(t, v) == v < active_thread_version[t]

\* One round of the search for a version below the active one.
Walk(t) ==
    /\ pc[t] = "walk"
    /\ IF VisibleTo(t, cursor_singly_node[t])
         THEN /\ pc' = [pc EXCEPT ![t] = "update"]
              /\ UNCHANGED cursor_singly_node
         ELSE /\ cursor_singly_node' =
                   [cursor_singly_node EXCEPT
                      ![t] = link[picked_thread_index[t]][@]]
              /\ UNCHANGED pc
    /\ UNCHANGED <<flags, lists, shared, picked_thread_index,
                   active_thread_version, g_thread_throughput, gc, main>>

\* A new node in front of the thread's own list.
InsertSinglyList(t, v) ==
    /\ link' = [link EXCEPT ![t][v] = g_singly_list[t]]
    /\ memory' = [memory EXCEPT ![t][v] = "live"]
    /\ g_singly_list' = [g_singly_list EXCEPT ![t] = v]

\* The read of cursor_singly_node->A and the insertion, which touches only the
\* thread's own list, so that nothing is lost by taking the two together.
Update(t) ==
    /\ pc[t] = "update"
    /\ InsertSinglyList(t, CurrentVersion(t))
    /\ cursor_singly_node' = [cursor_singly_node EXCEPT ![t] = NULL]
    /\ pc' = [pc EXCEPT ![t] = "finish"]
    /\ UNCHANGED <<flags, shared, picked_thread_index, active_thread_version,
                   g_thread_throughput, gc, main>>

RemoveFront(q) == Tail(q)

\* RemoveVersion: the first node with this version, if there is one.
RemoveVersion(q, v) ==
    LET at == {n \in 1 .. Len(q) : q[n] = v}
        first == CHOOSE n \in at : \A m \in at : n =< m
    IN  IF at = {} THEN q
        ELSE SubSeq(q, 1, first - 1) \o SubSeq(q, first + 1, Len(q))

\* Mutants: other readers of v may be left, and an empty queue counts as proof
\* that the thread is done with v.
MinimumIgnoresReaders(p, v, q) ==
    IF q # <<>> THEN v
    ELSE IF delete_front[p] # v THEN delete_front[p] ELSE minimum[p]
MinimumAtEmptyQueue(p, v, q) ==
    IF q # <<>> /\ Head(q) = v THEN minimum[p] ELSE v

\* The new minimum of a queue whose front v has just been removed and that
\* now holds q: the reads of v are over once another version is in front; a
\* queue that runs empty shows only that the reads before v are.
NewMinimum(p, v, q) ==
    IF q # <<>>
      THEN IF Head(q) # v THEN v ELSE minimum[p]
      ELSE IF delete_front[p] # v THEN delete_front[p] ELSE minimum[p]

\* Mutants: the front is removed whoever leaves, and delete_front is not set.
RemoveAnyFront(p, v) ==
    /\ g_queue' = [g_queue EXCEPT ![p] = RemoveFront(@)]
    /\ minimum' = [minimum EXCEPT ![p] = NewMinimum(p, v, RemoveFront(g_queue[p]))]
    /\ delete_front' = [delete_front EXCEPT ![p] = v]
StaleDeleteFront(p, v) ==
    /\ g_queue' = [g_queue EXCEPT ![p] = RemoveVersion(@, v)]
    /\ minimum' = IF Head(g_queue[p]) # v THEN minimum
                  ELSE [minimum EXCEPT ![p] = NewMinimum(p, v, RemoveFront(g_queue[p]))]
    /\ UNCHANGED delete_front

\* The second critical section for a thread that registered with version v in
\* the queue of p.
Deregister(p, v) ==
    IF Head(g_queue[p]) = v
      THEN /\ g_queue' = [g_queue EXCEPT ![p] = RemoveFront(@)]
           /\ minimum' = [minimum EXCEPT ![p] = NewMinimum(p, v, RemoveFront(g_queue[p]))]
           /\ delete_front' = [delete_front EXCEPT ![p] = v]
      ELSE /\ g_queue' = [g_queue EXCEPT ![p] = RemoveVersion(@, v)]
           /\ UNCHANGED <<minimum, delete_front>>

\* The second critical section, then the captured list is deleted and the
\* thread's own throughput counter goes up.
Finish(t) ==
    /\ pc[t] = "finish"
    /\ g_active_list' = DeleteGlobalActiveList(t)
    /\ IF Registered(t)
         THEN Deregister(picked_thread_index[t], active_thread_version[t])
         ELSE UNCHANGED <<g_queue, minimum, delete_front>>
    /\ g_thread_throughput' = [g_thread_throughput EXCEPT ![t] = @ + 1]
    /\ picked_thread_index' = [picked_thread_index EXCEPT ![t] = t]
    /\ active_thread_version' = [active_thread_version EXCEPT ![t] = 0]
    /\ pc' = [pc EXCEPT ![t] = "top"]
    /\ UNCHANGED <<flags, lists, g_atomic_counter, cursor_singly_node, gc, main>>

ThreadFunc(t) ==
    \/ Begin(t) \/ Stop(t) \/ Register(t) \/ Load(t) \/ Walk(t) \/ Update(t)
    \/ Finish(t)

----------------------------------------------------------------------------
(* ThreadGarvageCollectionFunc.  delete_flag is the control point: it is   *)
(* false in "scan" and true in "free".                                     *)

GcLocal == UNCHANGED <<flags, lists, shared, locals, g_thread_throughput, pc, main>>

GcBegin ==
    /\ gc.pc = "top"
    /\ g_could_thread_run
    /\ ~g_is_verbosing
    /\ gc' = [gc EXCEPT !.pc = "minimum", !.i = 0]
    /\ GcLocal

GcStop ==
    /\ gc.pc = "top"
    /\ ~g_could_thread_run
    /\ gc' = [gc EXCEPT !.pc = "done"]
    /\ GcLocal

\* minimum = g_queue[i]->minimum, without the lock.
GcMinimum ==
    /\ gc.pc = "minimum"
    /\ gc' = [gc EXCEPT !.pc = "head", !.minimum = minimum[gc.i]]
    /\ GcLocal

\* tmp = g_singly_list[i]
GcHead ==
    /\ gc.pc = "head"
    /\ gc' = [gc EXCEPT !.pc = "scan", !.tmp = g_singly_list[gc.i], !.back = NULL]
    /\ GcLocal

\* Mutant: the version that is the minimum counts as garbage too.
GarbageUpTo(v) == v =< gc.minimum

\* tmp->version < minimum
Garbage(v) == v < gc.minimum

\* The rest of a round of the loop: back = tmp, tmp = tmp->link.
GcAdvance == gc' = [gc EXCEPT !.back = gc.tmp, !.tmp = link[gc.i][gc.tmp]]

GcKeep ==
    /\ gc.pc = "scan"
    /\ gc.tmp # NULL
    /\ ~Garbage(gc.tmp)
    /\ GcAdvance
    /\ GcLocal

\* Mutant: the list is not cut before its end is freed.
NoCut(n) == link

\* back->link = NULL
CutAfter(n) == [link EXCEPT ![gc.i][n] = NULL]

GcCut ==
    /\ gc.pc = "scan"
    /\ gc.tmp # NULL
    /\ Garbage(gc.tmp)
    /\ link' = CutAfter(gc.back)
    /\ gc' = [gc EXCEPT !.pc = "free"]
    /\ UNCHANGED <<flags, g_singly_list, memory, shared, locals,
                   g_thread_throughput, pc, main>>

GcFree ==
    /\ gc.pc = "free"
    /\ gc.tmp # NULL
    /\ memory' = [memory EXCEPT ![gc.i][gc.tmp] = "freed"]
    /\ GcAdvance
    /\ UNCHANGED <<flags, g_singly_list, link, shared, locals,
                   g_thread_throughput, pc, main>>

\* Mutant: the loop runs only over the first list.
FirstListOnly == FALSE

MoreLists == gc.i + 1 < N

\* The end of a list: on to the next thread's, or to the top of the loop.
GcNextList ==
    /\ gc.pc \in {"scan", "free"}
    /\ gc.tmp = NULL
    /\ gc' = IF MoreLists
               THEN [gc EXCEPT !.pc = "minimum", !.i = @ + 1, !.back = NULL]
               ELSE [gc EXCEPT !.pc = "top", !.i = 0, !.back = NULL, !.minimum = 0]
    /\ GcLocal

GarvageCollector ==
    \/ GcBegin \/ GcStop \/ GcMinimum \/ GcHead \/ GcKeep \/ GcCut
    \/ GcFree \/ GcNextList

----------------------------------------------------------------------------
(* main, from the start of the timed loop.                                 *)

MainLocal == UNCHANGED <<lists, shared, locals, g_thread_throughput, pc, gc>>

\* One round of the loop: usleep, and the dump when the option is given.
Tick ==
    /\ main.pc = "sleep"
    /\ main.tick < Ticks
    /\ main' = [main EXCEPT !.tick = @ + 1, !.i = 0,
                             !.pc = IF Verbose THEN "dump" ELSE "sleep"]
    /\ g_is_verbosing' = Verbose
    /\ UNCHANGED g_could_thread_run
    /\ MainLocal

\* tmp = g_singly_list[i] and tmp2 = tmp
DumpHead ==
    /\ main.pc = "dump"
    /\ main.i < N
    /\ main' = [main EXCEPT !.pc = "count", !.tmp = g_singly_list[main.i],
                             !.head = g_singly_list[main.i]]
    /\ UNCHANGED flags
    /\ MainLocal

\* What main finds in tmp->link: of a node that is no longer allocated, the
\* old link, or NULL if the memory has a new use.
LinksSeen(p, v) == {link[p][v]} \cup IF Live(p, v) THEN {} ELSE {NULL}

\* A round of the loop that counts the nodes and of the one that prints them.
DumpNode ==
    /\ main.pc \in {"count", "print"}
    /\ main.tmp # NULL
    /\ \E next \in LinksSeen(main.i, main.tmp) : main' = [main EXCEPT !.tmp = next]
    /\ UNCHANGED flags
    /\ MainLocal

DumpRewind ==
    /\ main.pc = "count"
    /\ main.tmp = NULL
    /\ main' = [main EXCEPT !.pc = "print", !.tmp = main.head]
    /\ UNCHANGED flags
    /\ MainLocal

\* Mutant: the loop over the lists does not advance.
DumpSameList ==
    /\ main.pc = "print"
    /\ main.tmp = NULL
    /\ main' = [main EXCEPT !.pc = "dump", !.head = NULL]
    /\ UNCHANGED flags
    /\ MainLocal

DumpNextList ==
    /\ main.pc = "print"
    /\ main.tmp = NULL
    /\ main' = [main EXCEPT !.pc = "dump", !.i = @ + 1, !.head = NULL]
    /\ UNCHANGED flags
    /\ MainLocal

DumpDone ==
    /\ main.pc = "dump"
    /\ main.i = N
    /\ main' = [main EXCEPT !.pc = "sleep", !.i = 0]
    /\ g_is_verbosing' = FALSE
    /\ UNCHANGED g_could_thread_run
    /\ MainLocal

\* The duration is over.
StopAll ==
    /\ main.pc = "sleep"
    /\ main.tick = Ticks
    /\ main' = [main EXCEPT !.pc = "join"]
    /\ g_could_thread_run' = FALSE
    /\ UNCHANGED g_is_verbosing
    /\ MainLocal

\* The threads and the collector are joined; the results are printed.
Join ==
    /\ main.pc = "join"
    /\ \A t \in Thread : pc[t] = "done"
    /\ gc.pc = "done"
    /\ main' = [main EXCEPT !.pc = "done"]
    /\ UNCHANGED flags
    /\ MainLocal

Main ==
    \/ Tick \/ DumpHead \/ DumpNode \/ DumpRewind \/ DumpNextList \/ DumpDone
    \/ StopAll \/ Join

----------------------------------------------------------------------------
\* The program has ended.
Ended == main.pc = "done" /\ UNCHANGED vars

Next == (\E t \in Thread : ThreadFunc(t)) \/ GarvageCollector \/ Main \/ Ended

Spec == Init /\ [][Next]_vars

\* The threads and the collector keep being scheduled, main may sleep on.
RunningSpec ==
    /\ Spec
    /\ \A t \in Thread : WF_vars(ThreadFunc(t))
    /\ WF_vars(GarvageCollector)

\* Main in the middle of a dump, or waiting for the threads.
MainAwake == main.pc # "sleep" /\ Main

\* Main keeps being scheduled too; how long it sleeps is left open.
FairSpec == RunningSpec /\ WF_vars(MainAwake)

----------------------------------------------------------------------------
(* Properties.                                                             *)

\* Every variable keeps its type.
TypeOK ==
    /\ g_could_thread_run \in BOOLEAN /\ g_is_verbosing \in BOOLEAN
    /\ g_atomic_counter \in Version
    /\ g_active_list \in [Thread -> Node]
    /\ g_queue \in [Thread -> Seq(0 .. WordSize - 1)]
    /\ minimum \in [Thread -> Version] /\ delete_front \in [Thread -> Version]
    /\ g_singly_list \in [Thread -> Version]
    /\ link \in [Thread -> [Version -> Node]]
    /\ memory \in [Thread -> [Version -> {"none", "live", "freed"}]]
    /\ g_thread_throughput \in [Thread -> Nat]
    /\ pc \in [Thread -> {"top", "pick", "load", "walk", "update", "finish", "done"}]
    /\ picked_thread_index \in [Thread -> Thread]
    /\ active_thread_version \in [Thread -> Version]
    /\ cursor_singly_node \in [Thread -> Node]
    /\ gc \in [pc : {"top", "minimum", "head", "scan", "free", "done"},
               i : Thread, minimum : Version, tmp : Node, back : Node]
    /\ main \in [pc : {"sleep", "dump", "count", "print", "join", "done"},
                 tick : 0 .. Ticks, i : 0 .. N, tmp : Node, head : Node]

\* A reader that registered in the queue of the picked thread only ever
\* stands on nodes that are allocated, however the collector runs, ...
RegisteredReadersOnLiveNodes ==
    \A t \in Thread : pc[t] \in {"walk", "update"} /\ Registered(t) =>
        Live(picked_thread_index[t], cursor_singly_node[t])

\* ... and it reads the newest version the picked thread had made before the
\* one it was seen working on: the collector frees none that is still visible.
RegisteredReadersSeeSnapshot ==
    \A t \in Thread : pc[t] = "update" /\ Registered(t) =>
        LET p == picked_thread_index[t]
            v == active_thread_version[t]
        IN  /\ cursor_singly_node[t] < v
            /\ \A w \in Version : Exists(p, w) /\ w < v => w =< cursor_singly_node[t]

\* Versions are unique among all threads but for the initial 0, and a list
\* runs from newer to older versions (README 1.4).
VersionsDescend ==
    /\ \A p, q \in Thread : \A v \in Version \ {0} :
         Exists(p, v) /\ Exists(q, v) => p = q
    /\ \A p \in Thread : \A v \in Version : Exists(p, v) =>
         link[p][v] < v /\ v =< g_singly_list[p]

\* A node that is allocated never links to one that has been freed, so the
\* lists that later readers walk are sound.
NoDanglingLink ==
    \A p \in Thread : \A v \in Version :
        Live(p, v) /\ link[p][v] # NULL => Live(p, link[p][v])

\* The head of a list is never garbage: the collector always has a node to
\* cut after, so back is not NULL in back->link = NULL.
CollectorKeepsHead ==
    gc.pc = "scan" /\ gc.tmp # NULL /\ Garbage(gc.tmp) => gc.back # NULL

\* A queue holds the version of every registered reader, once for each, and
\* nothing else: what was put in is taken out again.
QueueTracksReaders ==
    \A p \in Thread : \A v \in 0 .. WordSize - 1 :
        Cardinality({n \in 1 .. Len(g_queue[p]) : g_queue[p][n] = v}) =
        Cardinality({t \in Thread : /\ Registered(t)
                                    /\ picked_thread_index[t] = p
                                    /\ active_thread_version[t] = v})

\* The queue stays sorted although readers leave in any order (README 2), and
\* minimum stays below every version a reader is registered with.
QueueSortedAboveMinimum ==
    \A p \in Thread : \A n \in 1 .. Len(g_queue[p]) :
        /\ minimum[p] < g_queue[p][n] /\ delete_front[p] =< g_queue[p][n]
        /\ n > 1 => g_queue[p][n - 1] =< g_queue[p][n]

\* minimum only grows, so the limit that the collector read without the lock
\* may be old but is never too high ...
MinimumGrows == [][\A p \in Thread : minimum'[p] >= minimum[p]]_minimum

\* ... and what the collector frees is below the limit of that moment.
FreesOnlyBelowMinimum ==
    [][\A p \in Thread : \A v \in Version :
         Live(p, v) /\ ~Live(p, v)' => v < minimum[p]]_memory

\* The lists, the queues and the collector together keep the promise of
\* VersionStore: freeing old versions is never noticed by a registered reader.
Store == INSTANCE VersionStore WITH
    clock <- g_atomic_counter,
    committed <- [t \in Thread |-> {v \in Version : Exists(t, v)}],
    running <- g_active_list,
    peer <- picked_thread_index,
    seen <- active_thread_version,
    result <- [t \in Thread |->
                 IF pc[t] = "update" THEN cursor_singly_node[t] ELSE NULL]

ImplementsVersionStore == Store!Spec

\* While the threads run, versions below minimum are freed in the end.  The
\* threads create MaxVersion versions, so a time comes when none is left.
GarbageIsFreed ==
    (\E p \in Thread : \E v \in Version : Live(p, v) /\ v < minimum[p]) ~>
        \/ \A p \in Thread : \A v \in Version : Live(p, v) => v >= minimum[p]
        \/ ~g_could_thread_run

\* A dump comes to an end although the lists change under it, and once the
\* duration is over every thread sees the stop flag and is joined.
Termination == main.pc # "sleep" ~> main.pc \in {"sleep", "done"}

\* What the documents say and the code does not keep.

\* README 1.2: with the capture of the active list, reads and writes of
\* several threads never conflict.  Said of the collector: no reader stands on
\* a node that has been freed, registered or not.
ReadersOnLiveNodes ==
    \A t \in Thread : pc[t] \in {"walk", "update"} =>
        Live(picked_thread_index[t], cursor_singly_node[t])

\* Comment on g_is_verbosing: it stops the other threads while main writes
\* the text files, so the lists it walks do not change.
ListsFrozenWhileVerbosing ==
    [][g_is_verbosing /\ g_is_verbosing' => UNCHANGED lists]_vars
=============================================================================
