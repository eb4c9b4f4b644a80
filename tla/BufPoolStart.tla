---------------------------- MODULE BufPoolStart ----------------------------
(***************************************************************************)
(* buf_pool_init as Project3 made it parallel (buf0buf.cc): one thread per *)
(* buffer pool instance, RunThread, fills its element of buf_pool_ptr and  *)
(* on the way creates the mutexes of the instance and of its blocks, each  *)
(* by the steps of MutexList; main joins the threads and adds up the       *)
(* sizes.  buf_pool_free takes everything apart at shutdown.               *)
(*                                                                         *)
(* The first mutex of an instance stands for those created before its      *)
(* chunk is allocated, the others for its blocks.  The free list of an     *)
(* instance belongs to its thread and is in UtList.  A start that runs out *)
(* of memory frees what it must not: damaged marks the first time, and     *)
(* what the program does after it is not described.                        *)
(***************************************************************************)
EXTENDS MutexList

CONSTANTS N,        \* n_instances
          PerInst,  \* how many mutexes each instance creates
          MayFail   \* the instances whose chunk may not be allocated

ASSUME PoolAssumption ==
    /\ N \in Nat \ {0}
    /\ PerInst \in [0 .. N - 1 -> Nat \ {0}]
    /\ Mutexes = {First} \cup UNION {{t} \X (1 .. PerInst[t]) : t \in 0 .. N - 1}
    /\ \A t \in 0 .. N - 1 : First \notin {t} \X (1 .. PerInst[t])
    /\ MayFail \subseteq 0 .. N - 1

Instance == 0 .. N - 1

VARIABLES array,    \* the memory behind buf_pool_ptr
          inst,     \* what is in each element of it
          thread,   \* where each RunThread is
          main,     \* where main is
          i,        \* the loop variable of main
          size,     \* curr_size of buf_pool_set_sizes, in instances
          damaged

poolVars == <<array, inst, thread, main, i, size, damaged>>
vars == <<listVars, poolVars>>

Init ==
    /\ ListInit
    /\ array = "none"
    /\ inst = [t \in Instance |-> "zero"]
    /\ thread = [t \in Instance |-> "none"]
    /\ main = "init" /\ i = 0 /\ size = 0
    /\ damaged = FALSE

----------------------------------------------------------------------------
(* sync_init, long before the pool, and buf_pool_init up to the joins.     *)

\* A step of mutex_create for the first mutex.
SyncInit ==
    /\ main = "init"
    /\ Create(First)
    /\ UNCHANGED poolVars

\* mem_zalloc of the array.
AllocateArray ==
    /\ main = "init"
    /\ Initialized
    /\ array' = "live"
    /\ main' = "create"
    /\ UNCHANGED <<listVars, inst, thread, i, size, damaged>>

\* pthread_create.  Its errors are positive numbers and pass the test < 0.
CreateThread ==
    /\ main = "create"
    /\ i < N
    /\ thread' = [thread EXCEPT ![i] = "fill"]
    /\ i' = i + 1
    /\ UNCHANGED <<listVars, array, inst, main, size, damaged>>

\* The loop ends; main goes on to the joins.
CreatedThreads ==
    /\ main = "create"
    /\ i = N
    /\ main' = "join" /\ i' = 0
    /\ UNCHANGED <<listVars, array, inst, thread, size, damaged>>

\* Mutant: the last thread is not joined.
JoinAllButOne == {t \in Instance : t < N - 1}

\* The threads main waits for.
Joined == Instance

\* pthread_join of every thread, then the loop of buf_pool_set_sizes: it adds
\* what it finds in each element, ready or not.
SetSizes ==
    /\ main = "join"
    /\ \A t \in Joined : thread[t] = "done"
    /\ size' = Cardinality({t \in Instance : inst[t] = "ready"})
    /\ main' = "up"
    /\ UNCHANGED <<listVars, array, inst, thread, i, damaged>>

----------------------------------------------------------------------------
(* RunThread and buf_pool_init_instance.                                   *)

\* The next mutex of the instance that is not created yet, and a step of its
\* creation.
CreateMutex(t) ==
    /\ thread[t] = "fill"
    /\ \E k \in 1 .. PerInst[t] :
         /\ \A l \in 1 .. k - 1 : pc[<<t, l>>] = "created"
         /\ Create(<<t, k>>)
    /\ UNCHANGED poolVars

\* buf_chunk_init returns NULL: mem_free(chunk) and mem_free(buf_pool).  The
\* instance is an element of the array, so this frees the array if it is the
\* first one, and else memory that was never allocated by itself.
ChunkFails(t) ==
    /\ thread[t] = "fill"
    /\ t \in MayFail
    /\ pc[<<t, 1>>] = "created"
    /\ \A k \in 2 .. PerInst[t] : pc[<<t, k>>] = "new"
    /\ thread' = [thread EXCEPT ![t] = "failed"]
    /\ IF t = 0 /\ array = "live"
         THEN array' = "freed" /\ UNCHANGED damaged
         ELSE damaged' = TRUE /\ UNCHANGED array
    /\ UNCHANGED <<listVars, inst, main, i, size>>

\* buf_pool_free(t) of RunThread.  Another thread's element was damaged by the
\* free above; the first one gets here, has no instance before it to free, and
\* frees the array a second time.
FreeAgain(t) ==
    /\ thread[t] = "failed"
    /\ damaged' = TRUE
    /\ UNCHANGED <<listVars, array, inst, thread, main, i, size>>

\* A thread goes on filling its element of an array that was freed.
FillFreed(t) ==
    /\ thread[t] = "fill"
    /\ array = "freed"
    /\ damaged' = TRUE
    /\ UNCHANGED <<listVars, array, inst, thread, main, i, size>>

\* All blocks are in place and the rest of the fields is set.
FinishInstance(t) ==
    /\ thread[t] = "fill"
    /\ array = "live"
    /\ \A k \in 1 .. PerInst[t] : pc[<<t, k>>] = "created"
    /\ inst' = [inst EXCEPT ![t] = "ready"]
    /\ thread' = [thread EXCEPT ![t] = "done"]
    /\ UNCHANGED <<listVars, array, main, i, size, damaged>>

RunThread(t) ==
    \/ CreateMutex(t) \/ ChunkFails(t) \/ FreeAgain(t) \/ FillFreed(t)
    \/ FinishInstance(t)

----------------------------------------------------------------------------
(* Shutdown: buf_pool_free(srv_buf_pool_instances).                        *)

Shutdown ==
    /\ main = "up"
    /\ main' = "free"
    /\ i' = 0
    /\ UNCHANGED <<listVars, array, inst, thread, size, damaged>>

\* A step of mutex_free for the next mutex of instance i.
FreeMutex ==
    /\ main = "free"
    /\ i < N
    /\ \E k \in 1 .. PerInst[i] :
         /\ \A l \in 1 .. k - 1 : pc[<<i, l>>] = "freed"
         /\ Free(<<i, k>>)
    /\ UNCHANGED poolVars

\* Mutant: the first instance is skipped.
OneInstanceLess == N - 1

\* i < n_instances
InstancesToFree == N

\* buf_pool_free_instance has freed its mutexes and the rest.
FreedInstance ==
    /\ main = "free"
    /\ i < InstancesToFree
    /\ \A k \in 1 .. PerInst[i] : pc[<<i, k>>] = "freed"
    /\ inst' = [inst EXCEPT ![i] = "freed"]
    /\ i' = i + 1
    /\ UNCHANGED <<listVars, array, thread, main, size, damaged>>

\* mem_free(buf_pool_ptr), buf_pool_ptr = NULL.
FreeArray ==
    /\ main = "free"
    /\ i = InstancesToFree
    /\ array' = "freed"
    /\ main' = "down"
    /\ UNCHANGED <<listVars, inst, thread, i, size, damaged>>

Next ==
    /\ ~damaged
    /\ \/ SyncInit \/ AllocateArray \/ CreateThread \/ CreatedThreads \/ SetSizes
       \/ \E t \in Instance : RunThread(t)
       \/ Shutdown \/ FreeMutex \/ FreedInstance \/ FreeArray
       \/ Initialized /\ (WalkBegin \/ WalkNext \/ WalkEnd) /\ UNCHANGED poolVars

Spec == Init /\ [][Next]_vars

----------------------------------------------------------------------------
(* Properties.                                                             *)

\* buf_pool_init never returns with an instance that is not ready or a mutex
\* that is not in the list, and the size it reports counts every instance,
\* whichever thread ran first.
StartComplete ==
    main = "up" => /\ size = N
                   /\ \A t \in Instance : inst[t] = "ready"
                   /\ Live = Mutexes

\* "DB_ERROR if not enough memory or error": a start that runs out of memory
\* frees and uses only memory that is its own, so that it gets to return.
FailsCleanly == ~damaged

\* After shutdown nothing is left of the pool, and nothing of its mutexes in
\* the global list: the first mutex is alone there, with no link to another.
NothingLeft ==
    main = "down" => /\ \A t \in Instance : inst[t] = "freed"
                     /\ start = First /\ end = First /\ count = 1
                     /\ prev[First] = NULL /\ next[First] = NULL
=============================================================================
