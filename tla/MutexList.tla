----------------------------- MODULE MutexList ------------------------------
(***************************************************************************)
(* The global list of InnoDB mutexes (mutex_list of sync0sync.cc; the list *)
(* of rw-locks in sync0rw.cc is used the same way).  Project3 took the     *)
(* latch away from mutex_create_func and rw_lock_create_func and made      *)
(* ut_list_prepend exchange the list start with one atomic instruction;    *)
(* mutex_free_func and the functions that walk the list still hold         *)
(* mutex_list_mutex.  Each access to a word another thread may touch is a  *)
(* step; accesses are sequentially consistent.  The memory of a mutex is   *)
(* zero before it is created (mem_zalloc of the instances, mmap of the     *)
(* blocks).  pc[m] is the call that creates or frees mutex m.  sync_init   *)
(* creates the first one before there is another thread, and that one      *)
(* stays until sync_close, which is not modelled.  ListSpecification lets  *)
(* all other calls overlap at will; BufPoolStart composes them with the    *)
(* threads that make them when the server starts and stops.                *)
(***************************************************************************)
EXTENDS Integers, FiniteSets

CONSTANTS Mutexes,  \* the mutexes that are created
          First,    \* the first of them, rw_lock_list_mutex
          Walker,   \* a thread that walks the list
          NULL      \* the null pointer, and the owner of a free latch

ASSUME MutexesAssumption ==
    /\ IsFiniteSet(Mutexes)
    /\ First \in Mutexes
    /\ Walker \notin Mutexes
    /\ NULL \notin Mutexes \cup {Walker}

VARIABLES start, end, count,  \* mutex_list
          prev, next,         \* mutex->list
          latch,              \* who holds mutex_list_mutex
          pc,                 \* where each call is
          old,                \* the local prev of ut_list_free_prepend
          tmp,                \* the count a remover loaded to decrement it
          cur, seen,          \* mutex and count of mutex_list_print_info
          ticket,             \* history: the place of each exchange in time
          listed, half        \* history: what was in the list when the walk
                              \* began, and had no next of its own yet

list == <<start, end, count>>
links == <<prev, next>>
walk == <<cur, seen, listed, half>>
listVars == <<list, links, latch, pc, old, tmp, walk, ticket>>

Goto(t, where) == pc' = [pc EXCEPT ![t] = where]

\* How many mutexes have been exchanged in.
Exchanged == Cardinality({m \in Mutexes : ticket[m] > 0})

ListInit ==
    /\ start = NULL /\ end = NULL /\ count = 0
    /\ prev = [m \in Mutexes |-> NULL] /\ next = [m \in Mutexes |-> NULL]
    /\ latch = NULL
    /\ pc = [t \in Mutexes \cup {Walker} |-> "new"]
    /\ old = [m \in Mutexes |-> NULL] /\ tmp = [m \in Mutexes |-> 0]
    /\ cur = NULL /\ seen = 0 /\ listed = {} /\ half = {}
    /\ ticket = [m \in Mutexes |-> 0]

----------------------------------------------------------------------------
(* mutex_create_func, after the fields of the mutex itself are set:        *)
(* ut_list_free_prepend without the latch.                                 *)

\* elem_node.prev = 0
PrevOfNew(m) == NULL

\* elem_node.prev = 0, on a node no other thread can see, and the exchange.
Exchange(m) ==
    /\ pc[m] = "new"
    /\ prev' = [prev EXCEPT ![m] = PrevOfNew(m)]
    /\ start' = m
    /\ old' = [old EXCEPT ![m] = start]
    /\ ticket' = [ticket EXCEPT ![m] = Exchanged + 1]
    /\ Goto(m, "set_next")
    /\ UNCHANGED <<end, count, next, latch, tmp, walk>>

\* Mutant: the new node is not linked to the old start.
ForgetOld(m) == NULL

\* elem_node.next = prev
Behind(m) == old[m]

SetNext(m) ==
    /\ pc[m] = "set_next"
    /\ next' = [next EXCEPT ![m] = Behind(m)]
    /\ Goto(m, "set_prev")
    /\ UNCHANGED <<list, prev, latch, old, tmp, walk, ticket>>

\* if (prev != 0) prev_node.prev = &elem
SetPrev(m) ==
    /\ pc[m] = "set_prev"
    /\ prev' = IF old[m] = NULL THEN prev ELSE [prev EXCEPT ![old[m]] = m]
    /\ Goto(m, "test_end")
    /\ UNCHANGED <<list, next, latch, old, tmp, walk, ticket>>

\* Mutant: the last creation takes the end.
AlwaysEnd == TRUE

\* if (list.end == 0)
NoEnd == end = NULL

TestEnd(m) ==
    /\ pc[m] = "test_end"
    /\ Goto(m, IF NoEnd THEN "set_end" ELSE "add")
    /\ UNCHANGED <<list, links, latch, old, tmp, walk, ticket>>

\* list.end = &elem
SetEnd(m) ==
    /\ pc[m] = "set_end"
    /\ end' = m
    /\ Goto(m, "add")
    /\ UNCHANGED <<start, count, links, latch, old, tmp, walk, ticket>>

\* Mutant: the element is not counted.
NotCounted == count

\* __sync_fetch_and_add(&list.count, 1)
CountWithNew == count + 1

Add(m) ==
    /\ pc[m] = "add"
    /\ count' = CountWithNew
    /\ Goto(m, "created")
    /\ UNCHANGED <<start, end, links, latch, old, tmp, walk, ticket>>

Create(m) ==
    \/ Exchange(m) \/ SetNext(m) \/ SetPrev(m)
    \/ TestEnd(m) \/ SetEnd(m) \/ Add(m)

----------------------------------------------------------------------------
(* mutex_free_func: ut_list_remove under mutex_list_mutex.  The links of   *)
(* the removed node's neighbours are read and written in one step where    *)
(* no thread without the latch can come between to any effect.             *)

\* Mutant: the latch is not taken.
FreeWithoutLatch(m) == UNCHANGED latch

\* mutex_enter(&mutex_list_mutex)
EnterFree(m) == latch = NULL /\ latch' = m

\* The mutex is entered; ut_a(list.count > 0).
FreeBegin(m) ==
    /\ pc[m] = "created"
    /\ EnterFree(m)
    /\ Goto(m, IF count > 0 THEN "unlink_next" ELSE "aborted")
    /\ UNCHANGED <<list, links, old, tmp, walk, ticket>>

\* next_node.prev = elem_node.prev, or list.end = elem_node.prev.
UnlinkNext(m) ==
    /\ pc[m] = "unlink_next"
    /\ IF next[m] # NULL
         THEN prev' = [prev EXCEPT ![next[m]] = prev[m]] /\ UNCHANGED end
         ELSE end' = prev[m] /\ UNCHANGED prev
    /\ Goto(m, "test_prev")
    /\ UNCHANGED <<start, count, next, latch, old, tmp, walk, ticket>>

\* prev_node.next = elem_node.next; or elem_node.prev was NULL when read.
UnlinkPrev(m) ==
    /\ pc[m] = "test_prev"
    /\ IF prev[m] # NULL
         THEN /\ next' = [next EXCEPT ![prev[m]] = next[m]]
              /\ Goto(m, "load_count")
         ELSE Goto(m, "set_start") /\ UNCHANGED next
    /\ UNCHANGED <<list, prev, latch, old, tmp, walk, ticket>>

\* list.start = elem_node.next, a plain store.
SetStart(m) ==
    /\ pc[m] = "set_start"
    /\ start' = next[m]
    /\ Goto(m, "load_count")
    /\ UNCHANGED <<end, count, links, latch, old, tmp, walk, ticket>>

\* --list.count, a load and a store.
LoadCount(m) ==
    /\ pc[m] = "load_count"
    /\ tmp' = [tmp EXCEPT ![m] = count]
    /\ Goto(m, "store_count")
    /\ UNCHANGED <<list, links, latch, old, walk, ticket>>

\* The store, and mutex_exit(&mutex_list_mutex).
StoreCount(m) ==
    /\ pc[m] = "store_count"
    /\ count' = tmp[m] - 1
    /\ latch' = NULL
    /\ Goto(m, "freed")
    /\ UNCHANGED <<start, end, links, old, tmp, walk, ticket>>

Free(m) ==
    \/ FreeBegin(m) \/ UnlinkNext(m) \/ UnlinkPrev(m) \/ SetStart(m)
    \/ LoadCount(m) \/ StoreCount(m)

----------------------------------------------------------------------------
(* mutex_list_print_info: a walk under mutex_list_mutex.                   *)

WalkBegin ==
    /\ pc[Walker] = "new"
    /\ latch = NULL
    /\ latch' = Walker
    /\ cur' = start
    /\ listed' = {m \in Mutexes : ticket[m] > 0 /\ pc[m] # "freed"}
    /\ half' = {m \in Mutexes : pc[m] = "set_next"}
    /\ Goto(Walker, "walking")
    /\ UNCHANGED <<list, links, old, tmp, seen, ticket>>

\* One turn of the loop: count the mutex, go to the next one.
WalkNext ==
    /\ pc[Walker] = "walking"
    /\ cur \in Mutexes
    /\ seen' = seen + 1
    /\ cur' = next[cur]
    /\ UNCHANGED <<list, links, latch, pc, old, tmp, listed, half, ticket>>

\* The end of the list, or a node whose next is not written yet.
WalkEnd ==
    /\ pc[Walker] = "walking"
    /\ cur = NULL
    /\ latch' = NULL
    /\ Goto(Walker, "walked")
    /\ UNCHANGED <<list, links, old, tmp, walk, ticket>>

----------------------------------------------------------------------------
(* sync_init, and what runs beside each other after it.                    *)

\* sync_init has put the first mutex into the list.
Initialized == pc[First] = "created"

ListNext ==
    \/ Create(First)
    \/ /\ Initialized
       /\ \/ \E m \in Mutexes \ {First} : Create(m) \/ Free(m)
          \/ WalkBegin \/ WalkNext \/ WalkEnd

ListSpecification == ListInit /\ [][ListNext]_listVars

----------------------------------------------------------------------------
(* Properties.                                                             *)

\* The values of the variables.
TypeOK ==
    /\ start \in Mutexes \cup {NULL} /\ end \in Mutexes \cup {NULL}
    /\ count \in Nat
    /\ prev \in [Mutexes -> Mutexes \cup {NULL}]
    /\ next \in [Mutexes -> Mutexes \cup {NULL}]
    /\ latch \in Mutexes \cup {Walker, NULL}
    /\ old \in [Mutexes -> Mutexes \cup {NULL}] /\ tmp \in [Mutexes -> Nat]
    /\ cur \in Mutexes \cup {NULL} /\ seen \in Nat
    /\ ticket \in [Mutexes -> Nat]
    /\ listed \subseteq Mutexes /\ half \subseteq Mutexes

\* The mutexes that were created and are not being freed.
Live == {m \in Mutexes : pc[m] = "created"}

\* No call is under way.
Quiet == \A m \in Mutexes : pc[m] \in {"new", "created", "freed"}

\* The live mutex that was exchanged in before m and is nearest to it.
Predecessor(m) ==
    LET older == {n \in Live : ticket[n] < ticket[m]}
    IN  IF older = {} THEN NULL
        ELSE CHOOSE n \in older : \A k \in older : ticket[k] =< ticket[n]

\* "Global list of database mutexes (not OS mutexes) created": when no call
\* is under way the start is the youngest mutex, and each one leads to the
\* next older one and is pointed back to by it.  A call that cut off another
\* one's mutex would break the chain.
AllChained ==
    Quiet =>
      /\ start = NULL <=> Live = {}
      /\ \A m \in Live :
           /\ (\A n \in Live : ticket[n] =< ticket[m]) => start = m /\ prev[m] = NULL
           /\ next[m] = Predecessor(m)
           /\ Predecessor(m) # NULL => prev[Predecessor(m)] = m

\* When no call is under way count is the number of mutexes in the list,
\* the first assertion of ut_list_validate.
CountExact == Quiet => count = Cardinality(Live)

\* Those in the list when the walk began that no unlinked one hid from it.
InSight == {m \in listed : \A h \in half : ticket[h] =< ticket[m]}

\* A walk under the latch counts no mutex twice, none that is being freed and
\* none that came after it began; and it counts all that were there, but for
\* those older than one that was then published and not yet linked.  What is
\* created while it runs does not disturb it.
WalkCounts ==
    pc[Walker] = "walked" =>
      Cardinality(InSight) =< seen /\ seen =< Cardinality(listed)

\* "Total number of mutexes": a walk counts all that were in the list when it
\* began.
WalkCountsAll == pc[Walker] = "walked" => seen = Cardinality(listed)

\* "pointer to list end, NULL if empty": when no call is under way the end is
\* the oldest mutex, although creations test and set it in two steps.
EndIsOldest ==
    Quiet =>
      \/ Live = {} /\ end = NULL
      \/ end \in Live /\ Predecessor(end) = NULL
=============================================================================
