# Verification of multicore-project

TLA+ modules, TLC configurations and TLAPS proofs for the concurrent programs of
this repository. Paths below are relative to the repository.

The repository holds three projects and some exercises. Most of its files are a
vendored MariaDB server, of which Project3 changes a few functions. The core of
the authors' own code is Project2: a small multi-version store with a garbage
collector that runs beside readers and writers without a lock; it is modelled,
checked and proved. Project3 takes a latch away inside the server and starts the
buffer pool in parallel; the list it changes, the registration of mutexes, the
start, and the mutex and rw-lock that register themselves there are modelled,
checked and, as to safety, proved. Both solutions of Project1 are modelled and
checked; that the authors' own one prints the right answer is proved.

## 1. Inventory

### Project2, `Project2/src/Project2.cpp`

| Part | State | Operations | Modelled in |
|---|---|---|---|
| worker threads | `pc`, picked thread, active version, cursor | `ThreadFunc` | SimpleMVCC |
| version lists | `g_singly_list` (head, links, nodes) | `InsertSinglyList`, search, cut, `free` | SimpleMVCC |
| active list | `g_active_list` | insert, delete, capture | SimpleMVCC |
| reader queues | `g_queue` with `minimum`, `delete_front` | `AddRear`, `RemoveFront`, `RemoveVersion` | SimpleMVCC |
| collector | `i`, `minimum`, `tmp`, `back`, `delete_flag` | `ThreadGarvageCollectionFunc` | SimpleMVCC |
| main | two flags, the tick, the dump's pointers | timed loop, dump, stop, joins | SimpleMVCC |
| bakery lock | `g_bakery_choosing`, `g_bakery_number` | `bakery_lock`, `BakeryMax`, `bakery_unlock` | BakeryLock |

*Interaction.* A worker draws a version from a counter, enters the active list,
captures it, and picks another thread at random. If that thread is in the
capture, the worker *registers*: it appends the version it saw to the picked
thread's queue. Then, without the lock, it walks the picked thread's list down to
a version below the one it saw, reads it, and puts a node with its own version in
front of its own list. In a second critical section it leaves the active list and
takes its entry out of the queue; depending on what is in front afterwards the
queue's `minimum` moves up. The collector reads `minimum` of each queue without
the lock, walks the list to the first older node, cuts the list there and frees
the rest. main sleeps, dumps the lists to files if asked to, stops everybody by a
flag and joins.

*What is hard.* Everything after the first critical section is lock-free: the
list a reader walks is extended by its owner and cut by the collector, the limit
the collector uses is old, readers leave in another order than they came, and
several may be registered with the same version. The correctness of the scheme
rests on `minimum` and `delete_front`, updated in four different cases.

*What makes it correct.* No reader touches freed memory; a reader finds the
newest version below the one it saw; the lists stay sorted; a queue holds the
entries of its readers and nothing else; garbage is freed in the end; the program
ends.

The bakery lock is what `ThreadFunc` used before `g_mutex`; the calls are still
there as comments. It is verified on its own: mutual exclusion, first come first
served, no starvation.

### Project1, `Project1/src/Project1.cpp` and `Project1/project1_TA.cpp`

Two programs that print the least and the greatest distance between two houses of
a city.

| Part | State | Operations | Modelled in |
|---|---|---|---|
| parallel search | `g_cnt_global`, `g_total_max`, `g_i_max`, `g_house_distance_i_to_all` | `ThreadFunc`, `Search`, the answer of `main` | FarthestHouses |
| meeting searches (TA) | `g_vertex_flag`, `g_visit_info`, queues and their fences | `FindMinMaxPath`, `MakeResult` | MeetingSearch |

*Interaction.* In the first program threads draw houses from a counter that is
tested outside its mutex, search breadth first, and tell each other, without a
lock, distances and maxima by which the others cut their searches short. In the
second there is one search per house; the searches mark vertices by an atomic or
and learn from the marks whom they meet; the answer is put together from the
depths of the first meetings.

*What makes it correct.* The printed pair is the one a sequential search prints,
in every interleaving; a search that is cut short did not have the answer.

### Project3, `Project3/mariadb/server/storage/xtradb`

| Part | State | Operations | Modelled in |
|---|---|---|---|
| two-way list | `ut_list_base`, `ut_list_node` | `include/ut0lst.h` | UtList, ListSpec |
| registration of mutexes, rw-locks | `mutex_list`, its latch | `sync_init`, `mutex_create_func`, `mutex_free_func`, the walks | MutexList |
| start of the buffer pool | `buf_pool_ptr`, threads | `buf_pool_init`, `RunThread`, `buf_pool_free` | BufPoolStart |
| wait arrays, events | cells, latches, `signal_count` | `sync/sync0arr.cc`, `os/os0sync.cc` | SyncArray |
| mutex | `lock_word`, `waiters`, counters | `mutex_enter_func`, `mutex_spin_wait`, `mutex_exit_func`, error monitor | SyncMutex |
| rw-lock | `lock_word`, `recursive`, `writer_thread`, counters | `include/sync0rw.ic`, `sync/sync0rw.cc` | RwLock |

*Interaction.* Each mutex puts itself into a global list when it is created.
Project3 replaced the latch around that by an atomic exchange of the list start,
and creates the buffer pool instances, with their mutexes, in parallel threads.
Removal and traversal still take the latch. One mutex is always in the list before
there is a second thread: `sync_init` puts it there. A thread that does not get a mutex or
an rw-lock reserves a cell of a wait array, announces itself in the lock, tries a
last time and sleeps on an event; the release looks for announcements.

*What makes it correct.* No registered mutex is lost, both directions of the list
agree, a start that returns is complete and a shutdown leaves nothing; one owner
at a time, no lost wake-up, every call returns.

### lab1 to lab5

Exercises with counters, a flag lock and timers. Not modelled (section 8).

## 2. Modules

| Module | What it is |
|---|---|
| `Mutex` | what a lock promises: who waits, who holds, at most one |
| `BakeryLock` | the bakery lock, one step per access to the shared arrays |
| `BakeryLockProofs` | theorems about it |
| `MCBakeryLock` | instances for TLC |
| `VersionStore` | what Project2 promises: versions, no lists, queues, or collector |
| `SimpleMVCC` | the program of Project2 |
| `SimpleMVCCProofs` | theorems about it |
| `MCSimpleMVCC` | instances for TLC |
| `ListSpec` | what a list promises: a sequence without repetition |
| `UtList`, `MCUtList` | the list of `ut0lst.h`, each operation alone, and an instance |
| `UtListProofs` | theorems about it |
| `MutexList`, `MCMutexList` | the steps of creations, removals and walks that overlap |
| `BufPoolStart`, `MCBufPoolStart` | start and shutdown of the buffer pool; extends `MutexList` |
| `BufPoolStartProofs` | theorems about both |
| `SyncArray` | wait arrays and events, the part that mutex and rw-lock share |
| `SyncMutex`, `MCSyncMutex` | the mutex; extends `SyncArray` |
| `SyncMutexProofs` | theorems about it |
| `RwLock`, `MCRwLock` | the rw-lock; extends `SyncArray` |
| `RwLockProofs` | theorems about it |
| `Houses` | the input of Project1 and the reference answer |
| `FarthestHouses` | `Project1.cpp` |
| `MCFarthestHouses` | inputs that `Project1.cpp` does not get right |
| `MeetingSearch` | `project1_TA.cpp` |
| `Project1`, `MCProject1` | the two side by side, and inputs for TLC |
| `Project1Proofs` | theorems about `Project1.cpp` |
| `MeetingSearchProofs` | theorems about `project1_TA.cpp`; extends `Project1Proofs` |

### BakeryLock

`choosing` and `number` are the two volatile arrays. `pc[i]` says which access
comes next: `Lock` is the store to `choosing`; `MaxCompare`, `MaxTake` and
`MaxReturn` are `BakeryMax`, which reads an element to compare it and reads it
*again* to take it; `TakeTicket` and `DoneChoosing` store the ticket and clear
`choosing`; `AwaitChoosing`, `ReadZero`, `ReadLess` and `ReadEqual` are the two
inner loops, whose condition reads the other ticket up to three times; `Unlock`
is `bakery_unlock`. `before` is a history variable for the first come first
served property: who held a ticket when the thread called.

Memory is sequentially consistent here. `volatile` does not guarantee that on a
real processor; with store buffers the lock is not modelled (section 8).

### SimpleMVCC

Each critical section is one action (`Register`, `Finish`): everything it touches
is touched only under `g_mutex`, except `minimum`, which it writes at most once.
That `g_mutex` excludes is taken from the library. Outside them there is one
action per access that another thread can disturb: `Begin`/`Stop` (the flags),
`Load` (the head), `Walk` (one round of the search), `Update` (the read of the
node and the insertion, which changes only the thread's own list). The collector
is split further: `GcMinimum`, `GcHead`, `GcKeep`, `GcCut`, `GcFree` (one node
each) and `GcNextList`; its `delete_flag` is the control point, `scan` or `free`.
main is `Tick`, `DumpHead`, `DumpNode`, `DumpRewind`, `DumpNextList`, `DumpDone`,
`StopAll`, `Join`.

Abstractions, and why they are sound:

* A node is named by its version, because a thread inserts a version at most once
  (`VersionsDescend`). Its memory is `none`, `live` or `freed`; memory that is
  freed stays freed, so a pointer into it is recognised for ever. Where the
  contents of freed memory are read (only the dump does so in a passing run),
  they are the old link or NULL (`LinksSeen`).
* `A` and `B` are left out. An update adds to `A` what it takes from `B`, so the
  sum is preserved whatever was read; what was read is told by its version.
* The active list has at most one node of each thread: it is a function.
* `CreateQueue` uses `malloc`, so the initialisers of `minimum` and
  `delete_front` in `struct Queue` never run. `Init` takes them to be 0, as
  fresh memory from the operating system is.
* The two flags at the top of a loop are read in one step: main clears
  `g_is_verbosing` before it clears `g_could_thread_run`, so every pair of values
  that can be read also exists at one instant.
* `AddRear` has an `int` parameter. `StoredVersion` is that conversion, to `int`
  and then to `uint64_t`, with `IntMax` and `WordSize` as constants.

Not modelled: argument parsing, the files, the printed statistics, the seed of
`rand()` (its result is a choice), the `Show...` functions nobody calls,
`DestroyQueue`, which nobody calls either.

### VersionStore

Every thread owns a growing set of versions. An update draws a number, sees at
that instant whether another thread is updating and under which version (`Start`),
reads the newest version below that one, or the newest at all (`Read`), adds its
own (`Commit`) and ends (`End`). Nothing disappears. The refinement mapping takes
the versions that have ever existed for `committed` and the position of the cursor
at the end of the search for `result`, so that a collector that cut off a version
a registered reader needs would break it. For a reader that did not register,
`result` is the version it loaded; whether the node is still allocated when its
`A` is read is the question of the run `mvcc_unregistered`.

### UtList and ListSpec

The operations of `ut0lst.h` as assignments to `start`, `end`, `count` and the
links of the nodes, each operation one step. A removed node keeps its stale links
and may be put back, as in the release build. `Walk` is the loop of `ut_list_map` and
of `ut_list_validate`, in at most as many rounds as there are elements.
`ImplementsList` maps the list to the sequence met from the start along `next`.

### MutexList and BufPoolStart

`pc[m]` is the call that creates or frees mutex `m`. Its steps are the exchange of
`list.start`, the store to its own `next`, the store to the old start's `prev`, the test
and the store of `list.end`, the increment of the count; a removal unlinks on both
sides, sets the start and decrements the count by a load and a store. A walk under the
latch follows `next`. Before its creation the memory of a mutex is zero (`mem_zalloc` of
the array of instances, `mmap` of the blocks), so the `next` of a mutex that is published
and not yet linked is NULL, and a walk that gets there ends.

`First` is `rw_lock_list_mutex`, which `sync_init` creates while the server has a single
thread; all other calls come after that (`Initialized`). It matters for `list.end`, which
is tested and set in two steps: nobody races for it, because it has been set before.
`sync_close`, which frees this mutex, is not modelled. `split_mutex_create_func`, the
variant that keeps the latch, is called in no build: the only use of its macro is in the
branch without `UNIV_PFS_MUTEX`, and the macro is defined only with it.

`ticket`, `listed` and `half` are history variables: the order of the exchanges, what was
in the list when a walk began, and what of it had no `next` of its own yet.

`BufPoolStart` extends this by the threads that make the calls: `main` goes through
`sync_init` (`SyncInit`), allocates the array, creates and joins one thread per instance,
adds up the sizes, and at shutdown frees instance after instance. An instance in
`MayFail` may fail to get its chunk; it then frees what is not its own (finding 7
below). `damaged` marks the *first* free or use of memory that is not the program's to
free or to use, and no action follows: what the allocator and the other threads do after
that is undefined, so nothing true could be claimed of it. The only property that speaks
of this path is `FailsCleanly`, which the code violates.

### SyncArray, SyncMutex and RwLock

`SyncArray` has the waiting part of a call: choose an array, latch it, take a cell,
reset the event, and later sleep on it or give the cell back. An event carries
`signal_count`, by which a sleeper recognises a signal that came before its sleep,
even if a later waiter has reset the event since (`Signalled`).

`SyncMutex` and `RwLock` have one step per access to a word of the lock. Failing
rounds of a spin loop change nothing and are left out. `prio` chooses the plain or
the priority variant. The release of a priority mutex is followed by no barrier;
`fenced` chooses between platforms whose release is one by itself and those where
it may be delayed in the store buffer (`delayed`, `Drain`). `RwLock` covers shared
and exclusive locks, relocks of the owner, locks passed to another thread
(`Passing`, `Handler`) and the no-wait variant, which tries the word once and does not
wait for readers (when the caller is the owner, it makes the step `Relock`); `lock_word` is the sum the code
keeps, so that an unlock must undo exactly what the lock did. A call that does not
get the lock reserves a cell (`Failed`), announces itself in a counter or the flag
(`Announce`) and tries once more (`AfterAnnounce`) before it sleeps. `Covered` says of
each of the four events who is there to set it, or will look for waiters and find
one announced; `NoSleeperForgotten` says that a sleeper is always covered.

### Houses, FarthestHouses, MeetingSearch, Project1

`Houses` has the graph, the houses and the reference distance. In `FarthestHouses`
every access to a word other threads write is a step (`Test`, `Draw`, `Meet`, one
round of `Prune`, `Report`, `Raise`, `SetIMax`). The walk over the graph is local:
`Walk` computes once which houses it meets with which value of `distance`, from
`Visit`, one round of the loop of `Search`, with `Enqueue`, its loop over the
neighbours. A thread that draws an index outside `house[]` is not followed any further
(`outside`), but the others go on and draw as the counter lets them. `Presupposed` of
`FarthestHouses` is what the program takes for granted of its input: a city
in one piece whose roads lead both ways, three houses or more, at least three roads
apart (a vertex has one field for *the* house next to it, and a search tells other
houses from its own by `distance > 1`). `Project1` assumes it of the inputs that
`Project1.cpp` reads (`OwnAssumption`), and TLC evaluates it on those of the run. What the
program does with fewer houses, or closer ones, is shown by `MCFarthestHouses`,
which extends `FarthestHouses` alone and assumes nothing of the kind.
`project1_TA.cpp` takes less for granted: a city in one piece (`Connected`, of
`Houses`) and two houses or more, each in a place of its own (`Presupposed` of
`MeetingSearch`, assumed by `MeetingAssumption`).
`MeetingSearch` has one step per mark
(`Mark`), dequeued vertex and completed level; `MakeResult` is one step after the
joins. When a meeting was in the last level it compares with a fence one past the
end of a vector; `LooksFor` then allows both answers. `Project1` takes an input to
name the program that reads it.

## 3. Runs

| Run | Instance | Result |
|---|---|---|
| `bakery` | 3 threads, tickets up to 5 | `MutualExclusion`, `FirstComeFirstServed`, `ImplementsMutex`, `StarvationFree` hold |
| `mvcc_pair` | 2 threads, 4 versions, one dump | lists sound and sorted, head kept, frees only below `minimum`, `GarbageIsFreed`, `Termination` |
| `mvcc_readers` | 3 threads, 4 versions, two of them read thread 0 | registered readers safe, queue exact and sorted, `minimum` grows, `VersionStore` implemented |
| `mvcc_unregistered` | as `mvcc_readers`, 5 versions | violated, finding 1 |
| `mvcc_verbose` | 2 threads, one dump | violated, finding 2 |
| `list_alone` | 4 elements | `Validates`, `ImplementsList` hold |
| `pool_start` | 3 instances, 4 mutexes and the first one, a walker, two instances may fail | every mutex chained and counted, the end stays the first, the walk counts all that no unlinked mutex hides, the start is complete, shutdown leaves the first mutex alone |
| `list_lost` | the first mutex and 2 others | violated, finding 3 |
| `sync_mutex` | 3 threads, one of high priority, 1 or 3 cells, once or twice each | `OneOwner`, `CellsMatchWaiters`, `NoLostWakeup`, `EveryCallReturns` hold |
| `array_full` | 3 threads, three arrays of one cell | violated, finding 4 |
| `rw_lock` | 4 threads, one or two of high priority, one that passes its lock, relocks up to 3 | `LockWordTells`, `WriterIsValid`, `NoSleeperForgotten`, `EveryCallReturns` hold |
| `houses` | 12 inputs, 2 to 4 houses | hints true, answer right, draws bounded; meetings tell the distance up to one; both end |

`bakery` also checks the type invariant of its module. Those of `SimpleMVCC`, `SyncMutex`
and `RwLock` are proved in section 5, that of `MutexList` is a part of the invariant there.

*Bounds.* Three threads in the bakery lock give equal tickets, a waiting thread
that is passed by two others and a ticket that changes between two reads; tickets
up to 5 let a thread come back while the numbers still grow. Two threads with four
versions let a list grow to a node that becomes garbage, be cut and be read during
it. Two readers in *one* queue need three threads: `StarPicks` lets two threads
read the list of the third, so that they register with equal and with different
versions and leave in both orders. An update starts only if a version is left for
it (`VersionsLeft`); the threads may always stop, so this bound causes no deadlock.

Three instances give three overlapping exchanges: a node whose two neighbours are
both unfinished; with the first mutex below them none of them is last in the chain. The
first instance creates two mutexes, so that a chunk can fail
between them. One cell for three threads makes the wait array of a mutex full,
which with a single array stops the server by an assertion (`Aborted`); three arrays make
it move on. In `rw_lock` each thread has one call to make, and the owner may lock up to
three times; `X_LOCK_DECR` is 5, more than there can be readers. With the sets `Highs` the
run has a low beside a high priority writer and two high priority threads that
wait in both modes. The inputs of `houses` were chosen so that searches are pruned,
that houses are met in another order than their indices, that threads overrun the
counter (with two threads inside `house[]`, with three also beyond it), and that searches meet on an edge as well as on a vertex.

*Symmetry* is used in `list_alone` only, where elements are interchangeable. In the
other modules indices are compared, priorities differ, or liveness is checked.

*Fairness.* Each thread is a POSIX thread that the scheduler runs again and again,
so each gets weak fairness of its next step; nobody has to call a lock again, so
only the steps after a call are fair, and a critical section ends. In Project2 `FairSpec`
asks of main only that it goes on while it is awake (`MainAwake`), because nothing
says how long `usleep` sleeps; `GarbageIsFreed` therefore says "freed, or the program was
told to stop". In `SyncMutex` the error monitor is fair: it is a thread that looks
at all cells every second. `RwLock` has no monitor, so `EveryCallReturns` holds
there without its help. `Project1` needs only that some thread goes on (weak
fairness of the whole next step), because all its loops end.

*Deadlock* is not checked where the modelled part simply stops: when all calls have been
made (`sync_mutex`, `array_full`, `rw_lock`), when the answer is printed
(`houses`), and at shutdown or after `damaged` (`pool_start`, `list_lost`). In these
modules a thread that waits for ever violates the liveness property or
`NoLostWakeup`. A thread of `Project1.cpp` that is outside `house[]` keeps `main` in the
join for ever; `EitherEnds` then asks that all others have ended.

## 4. Findings

Found by the runs that expect a violation:

1. `mvcc_unregistered`: a reader whose picked thread is *not* in the captured
   active list registers nowhere, yet keeps a pointer into the list. Other readers
   can move `minimum` past its node and the collector frees it before
   `cursor_singly_node->A` is read (line 572). Project2's README (1.2) says that
   the capture prevents such conflicts. The shortest trace needs three threads and
   five versions.
2. `mvcc_verbose`: `g_is_verbosing` is said to stop the other threads during the
   dump, but it is tested only at the top of the loops; lists change and nodes are
   freed while main walks them.
3. `list_lost`: the removal of the first mutex under the latch reads `prev == NULL`,
   a creation without the latch exchanges the start, and the removal overwrites it:
   the new mutex is not in the list.
4. `array_full`: `sync_array_reserve_cell` leaves a full array latched; with more
   than one array the thread goes on to the next, and whoever has a cell in the
   first one never gets it back.

Found with configurations that are kept beside the runs and are not among them, so that
the runs stay few. Each names one property, which TLC finds violated within seconds
(`tlc -config <file>.cfg <module>`):

| Finding | Configuration | Module | Property | Instance |
|---|---|---|---|---|
| 5 | `MCMutexList_walk.cfg` | `MCMutexList` | `WalkCountsAll` | the first mutex and 2 others |
| 6 | `MCMutexList_count.cfg` | `MCMutexList` | `CountExact` | the same |
| 7 | `MCBufPoolStart_oom.cfg` | `MCBufPoolStart` | `FailsCleanly` | 2 instances, the first may fail |
| 8 | `MCSimpleMVCC_narrow.cfg` | `MCSimpleMVCC` | `QueueTracksReaders` | as `mvcc_unregistered`, with 1 for `INT_MAX` |
| 9 | `MCFarthestHouses_two.cfg` | `MCFarthestHouses` | `AnswerRight` | 2 houses, five roads apart |
| 10 | `MCFarthestHouses_near.cfg` | `MCFarthestHouses` | `AnswerRight` | 3 houses at 1, 3 and 8 of a road |
| 11 | `MCFarthestHouses_overrun.cfg` | `MCFarthestHouses` | `IndexInHouse` | 4 houses on a road, 3 threads |
| 12 | `MCProject1_crossed.cfg` | `MCProject1` | `MeetingGreatestRight` | 2 houses, one road apart, TA solution |

5. A mutex is published by the exchange and its `next` stored afterwards;
   a walk that comes in between reads NULL there and ends. The latch is called "Mutex
   protecting the mutex_list variable", but creations do not take it. `WalkCounts` states
   what is left: the walk counts at least the mutexes that no unlinked one hides.
6. `ut_list_remove` decrements the count by a load and a store under the
   latch, creations increment it atomically without: an increment in between is lost.
   `pool_start` shows that the start and the shutdown of the pool do not overlap so;
   during operation a mutex may well be freed while another one is created.
7. A buffer pool instance that cannot allocate its chunk frees its element of
   an array allocated as one block, and `RunThread` frees the array again; `main` and
   the other threads use it afterwards (`ChunkFails`, `FreeAgain`, `FillFreed`).
   `buf_pool_init` is said to return `DB_ERROR` in this case.
8. Versions above `INT_MAX` are changed by the `int` parameter of
   `AddRear`, are never found again and stay in the queue (`StoredVersion`). The
   theorems assume `Fits`.
9. `Project1.cpp` with two houses: the first house that is met sets `least` only, and is
   also the last; 1 is printed for the greatest distance.
10. `Project1.cpp` tells other houses from its own by `distance > 1`, which
   misses those two roads away, and a vertex has one field for the house next to it.
   For houses at 1, 3 and 8 of a road it prints 5 and 1.
11. The threads of `Project1.cpp` test the counter outside the mutex, so all but one of
   them may draw an index beyond the last house to search; with three threads or
   more the index leaves `house[]`. `OwnDrawBound` gives the bound.
12. `project1_TA.cpp` may print a number that is off by one. That two
   searches started `D1 + D2` or `D1 + D2 - 1` apart, as the comment in front of
   `MakeResult` guarantees, holds (`MeetingSumTells`); but the test that tells the two
   cases apart is misled when two searches have each met the other at its own start,
   when one has gone on after the meeting, or when it compares with the fence past the
   end. `MeetingAnswerWithinOne` states what is left.

Seen while modelling, described here only: with one thread the loop of
Project2 that picks another one never ends.

## 5. Proofs

All theorems hold for every number of threads and every bound on tickets or
versions, every number of mutexes, elements or houses, from the assumptions on the
constants declared in the modules.

### BakeryLockProofs

`TypeCorrect`, `Safety` (`MutualExclusion`), `FirstCome`
(`FirstComeFirstServed`) and `Refinement` (`ImplementsMutex`). Mutual exclusion is
not inductive. The strengthening says what a waiting thread knows of those it has
passed: `Ahead(i, k)` means that `i` is ahead of `k` whatever `k` still does, and
every thread is ahead of all it has gone past in its loop. The hard case is a
thread inside `BakeryMax`: between its two reads `num_max` may come out smaller
than the value compared, so `Ahead` also speaks of a thread that stands between
the two reads and of the element it is about to take.

### SimpleMVCCProofs

The hypothesis `Fits` (`MaxVersion =< IntMax`) stands in every theorem; without it
finding 8 refutes them. Proved: `TypeCorrect`, `ReadersOnLive`, `ReadersSnapshot`,
`Descending`, `NoDangling`, `KeepsHead`, `QueueSorted`, `QueueTracks`,
`MinimumMonotone`, `FreesBelow` and `Refinement` (`ImplementsVersionStore`), that
is, every safety property and action property the passing runs check.

The inductive invariant `IInv` (checked by TLC first) has these parts:

* `ActiveInv`, `UniqueInv`: a version belongs to one thread; a thread is in the
  active list exactly during an update, with a version above its list.
* `ListInv`: the link of an allocated node leads to the version just before it, or
  is NULL and everything older is below `minimum`; whatever is not below `minimum`
  is allocated, and the version `minimum` itself exists.
* `QueueInv`: entries are sorted, above `minimum`, not below `delete_front`; each
  has been *reached* by the owner, which is committed with it or working on it.
* `SlotInv`: a one-to-one map from the registered readers to the entries. Readers
  with equal versions are not told apart by the code: a reader that leaves takes
  out the *first* equal entry, and the invariant survives because the owner of
  that entry takes over the leaver's (`SlotsAfterCut`).
* `ReaderInv`: a cursor is at or above the newest version it may read.
* `GcInv`: the collector's limit is not above `minimum`; after the cut no
  allocated node links to the node that is freed next.

The argument for `ReadersOnLive`: a registered reader's version is an entry of the
queue (`SlotInv`), so it is above `minimum` (`QueueInv`); the version `minimum`
exists and is below it, so the newest version the reader may read is at least
`minimum`, and the cursor is at least there (`ReaderInv`); such nodes are
allocated (`ListInv`). That `minimum` may move only as it does is
`DeregisterEffect`: it becomes the version that left the front only if a *newer*
one came to the front, which shows that the owner has committed it; if the queue
runs empty only the older `delete_front` may be used.

The critical section, reads of freed memory by unregistered readers and the dump
are covered by the same invariant; what is claimed of unregistered readers is only
that they hold a version number, not that its node is allocated.

### SyncMutexProofs

`TypeCorrect`, `Exclusion` (`OneOwner`), `CellsExact` (`CellsMatchWaiters`) and
`Wakeup` (`NoLostWakeup`), for any number of threads, arrays and cells and any
choice of the high priority threads. The inductive invariant has eight parts:

* `TypeInv`: in particular, how far a thread has got through the arrays.
* `CellInv`: a thread has one cell exactly at the places between reservation and
  release of the cell, for the event it wants.
* `OwnerInv`: `lock_word` is 1 exactly if there is an owner *or* a release that is
  still in the store buffer; there is never more than one of these.
* `CountInv`: `high_priority_waiters` is the number of those who announced
  themselves and have not retracted.
* `SignalInv`: the count kept in a cell is not in the future, and once the event is
  set it is in the past. This is why a reset by a later waiter cannot take a signal
  away from an earlier one.
* `FlagInv`: while a low priority thread that announced itself has not been
  signalled, `waiters` is up or somebody who took it down is about to set the event.
* `CoverInv`: the property itself, said of cells: an unsignalled sleeper has
  somebody who will set its event or will look for it. `FlagInv` carries it over the
  step in which a release finds the flag and takes it down.
* `FullInv`: a latch left behind, or an abort, means fewer cells than threads.

`TypeCorrect` needs `CountInv` and the cardinality of a set of threads: it bounds the
counter by the number of high priority threads. `Wakeup` holds where the release is
a barrier (`fenced`); otherwise the error monitor is what saves a sleeper, and the
liveness property of the run is about that.

### RwLockProofs

`WordTells` (`LockWordTells`), `WriterTrusted` (`WriterIsValid`), `NobodyForgotten`
(`NoSleeperForgotten`), `TypeCorrect` (`TypeOK`) and `OnlyOwnerRelocks`, an action
property that no run states: the relock without an atomic instruction is made by the
owner only. They hold for any number of threads, arrays, cells and relocks and any choice
of the high priority threads; `X_LOCK_DECR` is only assumed to exceed the number of
threads. TLC checked the inductive invariant, `WakeInv`, on the instance of the run and on
one with two arrays of few cells. Its parts:

* `WordInv` is the table of `sync0rw.cc` thread by thread, with the number of readers as a
  cardinality. It depends on who may relock, and that on `WriterInv`, whose last line is
  the point: a thread that read `recursive` when it did *not* have the lock does not find
  its own id in `writer_thread`, because a thread's id gets there only while it has, or
  has reserved, the lock.
* `PlaceInv` and `WantInv` tie the place of a thread to the lock it has or waits for;
  `wait_ex_event` belongs to the next writer alone.
* `CellInv`: a thread has one cell for the lock and, as next writer, one more for
  `wait_ex_event`; the former *stays reserved* while its owner waits for the readers.
* `SignalInv`: as in `SyncMutexProofs`; a signal is not taken back by a later reset.
* `CountInv`: the two counters are the numbers of those who announced themselves and
  have not retracted, and `high_priority_wait_ex_waiter` means that the next writer has
  a high priority. From this `TypeCorrect` bounds the counters, and `NobodyForgotten` gets
  that a counter above 0 has a thread behind it that asks for the lock or has it
  (`WhoIsCounted`).
* `FlagInv`: while a low priority thread that announced itself is not signalled, `waiters`
  is up or somebody who took it down is about to set the event.
* `CoverInv`: the property, said of cells.

`CoverInv` is carried over a step event by event. For `wait_ex_event` the word stays below
0 until the last reader, who sets the event (`WordStaysBelow`). A writer, once there,
leaves only as somebody who looks (`WriterStays`). An unlock that finds a writer of high
priority wakes that one *only*; the readers of high priority and the low priority threads
it did not wake depend on the woken thread, which asks until it has the lock
(`HighAskerStays`) and then looks itself. A low priority thread may also go to sleep
while the lock is *free*, because it stands back (`StandBack`); then somebody of high
priority asks, reads, or is the next writer (`NewSleeper`), and if it is a reader, the last
one looks for low priority waiters when it leaves (`SomebodyStays`). The theorem makes one
exception, a reservation that failed and stopped the server (`Aborted`).

### BufPoolStartProofs

The module first proves that creations without the latch, in any number and in any
order, keep `ListInv`, *provided that nothing is freed before all is created*
(`PhasedSpec`; without this, findings 3 and 6 refute it). Then it shows that the
parallel start and the shutdown call the registration that way (`CallsArePhased`: the
joins of `buf_pool_init` lie in between), and concludes `ListStaysWhole`
(`AllChained`), `CountStaysExact`, `EndStaysOldest`, `WalkStaysRight` (`WalkCounts`)
and, for the pool itself, `StartsComplete` and `ShutdownComplete`.

The invariant orders the mutexes by the tickets of their exchanges. `ChainInv`: the
start is the youngest, and `next`, *or the local that will be stored there*, leads to
the next older one. So a node published before its `next` is written does not break the
chain; the missing link is in a local. `BackInv`: `prev` leads back to the next
younger one, or is NULL, and then the node is the start or somebody is about to write
it. `CountInv` counts the finished calls only.

`EndInv`: the first mutex is older than all others, the end is set by the time any other
is exchanged in, and so nobody else ever gets to the store of `list.end`. The two
steps of the test and the store need no atomicity *for this reason only*; two creations
in an empty list could leave the end at the younger one.

`WalkInv`: a walk that stands on a node has counted exactly those that were listed when
it began and are younger than that node (`Passed`), and whatever is older and in the chain was
listed. What is prepended meanwhile is younger than the walk's position and does not
disturb this. A step of the walk goes to the next older node, or to NULL from the
oldest or from one whose `next` is not written; the latter was unlinked already when
the walk began (it is in `half`), since nothing older than the walk's position is new.
So a walk that has ended has counted all of `InSight`, and no more than `listed`.

### UtListProofs

`ListValidates` (`Validates`) and `Refinement` (`ImplementsList`), for any finite set
of elements. The invariant says that there is a sequence that the links *spell*
(`Spells`): ends, count, `next` and `prev` of each member; nothing is said of elements
outside, whose links are stale. For each operation the new sequence is given and shown
to be spelled by the new links. That the walks find this sequence and its reverse is
an induction over the number of rounds. The library's induction theorems cannot be
instantiated with a predicate here; the module proves induction for *sets* of numbers
instead (`Induction`, from the well-foundedness of `<` on the naturals) and applies
it to the set of those numbers for which the claim holds.

### Project1Proofs

`DrawsBounded` (`OwnDrawBound`), `HintsStayTrue` (`OwnHintsAreTrue`) and `PrintsRight`
(`OwnAnswerRight`), for every number of threads and every input that is as the program
presupposes. `DrawsBounded` needs `TypeInv` and `DrawInv` only: a thread that is about
to draw has seen the counter below the limit, so the counter and the threads about to
draw are together bounded. A thread that has left `house[]` does not stop the others, so
the bound is not due to a stop of the model. The other two have three layers.

*The walk is a breadth first search* (`WalksAreRight`). `Path`, `Far` and the lemmas
about them define distance by paths and show that it is a metric (`FarMetric`) and
that it is what the reference of `Houses` computes (`DistanceIsFar`).
`ArrayRight` says what `search_array`, `cycle_count` and `distance` mean after `i`
visits: the vertices up to `cycle_count` are all those of the current level and
before, those behind it are of the next level; `MetRight` that the houses met
are those next to a visited vertex, each once, in the order of their distances. Both are
preserved by a visit (`ArrayStep`, `MetStep`), so the whole walk meets every other
house, with its distance less one. That the walk is not stuck before it has visited
everything uses that the city is in one piece.

*A search knows its part of the walk* (`SearchInv`): which houses behind its own are
among those met, that the first far one is the nearest (`IsNearest`), that `count_end`
counts right. From it follows `HintInv`, that all that is passed on is true.

*Cutting short is safe* (`PruneSafe`): if over house `q`, which others have finished,
every distance from the own house is below `g_total_max`, then by the triangle
inequality none is the greatest. `g_total_max` may be stale or lowered by a race;
all that is needed is that it never exceeds the answer. `NotedInv`: every house that
was drawn is being searched, or what is noted for it is right or harmless. When all
threads have ended, the least and the greatest of what is noted are the answer
(`AnswerIsRight`). One case of `NotedRight` is a surprise: the last but one house has
only the last behind it, and if that is also its nearest one, `most` is never set and
too small a number is noted. It does no harm, because some third house is then at
least as far away; with two houses it does (finding 9).

### MeetingSearchProofs

`SumsTell` (`MeetingSumTells`) and `AnswersWithinOne` (`MeetingAnswerWithinOne`), for every
number of houses and every input as `project1_TA.cpp` presupposes it. The hypothesis
`Shallow`, that distances are below 2^16, stands in both: a depth is kept in a `uint16_t`,
and the model takes it modulo 2^16. That depths do not overflow then has to be proved, since a search
goes on until it has met all others: as long as it has not met house `b`, its depth is
below the distance to `b` (`NotYetMet`). The invariant:

* `BreadthInv`: every search is breadth first, whatever the others do: its marks are the
  vertices up to its depth and a part of the next level, its queue holds them level by
  level between the fences.
* `MetInv`: the depth noted for a first meeting is the distance to the vertex where it
  took place, and both have marked that vertex.
* `SharedInv`: of two searches that have marked a vertex, the *later* one has seen the mark
  of the other there, or met it before. This is what the atomic or is for.
* `CoverInv`: when both have met, the depths cover the distance of the houses.

The depths are not more than the distance and one (`DepthsTell`): were they, a vertex on a
shortest way between the houses would be nearer to each of them than its first meeting,
hence marked by both, against `SharedInv`. For the answer, `MakeResult` takes the sums, less one
in some cases that it cannot always tell apart (finding 12); whatever it reads past the
fences, the result is at most one off, and the greater number not too small.

### Only model-checked

Liveness, which the prover does not do: `StarvationFree`, `GarbageIsFreed`,
`Termination`, both `EveryCallReturns`, `EitherEnds`. Every safety property and every
action property of a passing run is a theorem.

## 6. What would go wrong

`PROJECT.json` lists the hazards with the lines where they bite and the properties
that watch them, and for every property a changed definition under which TLC finds
it violated: for example a version counted as visible while it is under way, a
minimum that moves when a queue runs empty, a front removed whoever leaves, a list
that is freed but not cut, a ticket without the increment.

## 7. Plan

1. *(done)* `BakeryLock` with `Mutex`; `SimpleMVCC` with `VersionStore`; proofs of
   their safety properties and refinements.
2. *(done)* Project3: `UtList` with `ListSpec`, `MutexList`, `BufPoolStart`,
   `SyncArray`, `SyncMutex`, `RwLock`. Project1: `FarthestHouses`, `MeetingSearch`.
3. *(done)* Proofs about the new modules: exclusion, cells and wake-ups of the mutex;
   lock word and writer of the rw-lock; the list of mutexes under the parallel start;
   the refinement of `ListSpec`; the answer of `Project1.cpp`.
4. *(done)* No lost wake-up and the counters of the rw-lock; the meetings and the answer
   of `project1_TA.cpp`.

## 8. Not modelled

* The bakery lock over store buffers. Without barriers it is not a lock on x86, and
  nobody calls it any more; the model is of the algorithm under the memory it
  presupposes.
* Argument parsing, files and printed statistics of Project2; the `Show...`
  functions and `DestroyQueue`, which nobody calls.
* What the programs do after an access outside of their memory (findings 1, 7, 11).
* The exercises lab1, lab2, lab3 and lab5: a handful of lines each around one
  library call or one counter. The flag lock of lab3 lacks the store to `victim`, so
  thread 1 never waits; its counter is a local, so nothing depends on it. lab4 is a
  copy of Project1.
* Limits of the environment: `malloc` that returns memory which is not zero
  (`CreateQueue` of Project2, the arrays of Project1), a thread or a file that cannot
  be created, a duration of 0 in the report of Project2, tickets and sums that
  overflow `int`. Meetings deeper than 2^16 levels are in the model (the depth is a
  `uint16_t`) and not in what is proved (`Shallow`).
* `sync_close`, which frees the mutexes of the synchronisation system itself after
  everything else has stopped.
* In XtraDB: the debug build (latching order, lists of lock owners), statistics,
  the build without atomic instructions, the timeout that stops the server after a
  long wait, the contents of pages, hash tables and buffers. All of the server
  outside the functions named in section 1 is vendored and not changed here; it is
  by far the largest part of the repository, and not this project's subject.
