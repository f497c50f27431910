# A TLA+ model of the PHP core

The repository is PHP 5.3: the Zend Engine, the thread-safe resource manager
TSRM, the server interfaces (SAPIs) and the bundled extensions, about 600,000
lines of C. Most of it is a sequential interpreter and libraries of functions,
which `.phpt` tests state well. This project models the parts whose correctness
is a matter of *order*: reference counts under nested destructors, the cycle
collector and its buffer of roots, locks shared by threads, the process manager of
FPM, and what scripts share across processes, session files and System V
semaphores. Each module is written from the C source; `PROJECT.json` maps every
definition to the lines it stands for.

- [1. Inventory](#1-inventory)
- [2. The modules and the code](#2-the-modules-and-the-code)
- [3. What each run checks](#3-what-each-run-checks)
- [4. Bounds](#4-bounds)
- [5. Fairness](#5-fairness)
- [6. What is proved](#6-what-is-proved)
- [7. Where the code and its texts disagree](#7-where-the-code-and-its-texts-disagree)
- [8. Plan](#8-plan)
- [9. What is not modelled](#9-what-is-not-modelled)

To check a run: `tlc -config MCGcCycle_heaps.cfg MCGcCycle`. To check a proof:
`tlapm GcCycleProof.tla`.

## 1. Inventory

### The engine

| Component | Source | State | Operations |
|---|---|---|---|
| Cycle collector | `Zend/zend_gc.c` | colour bits and buffer address in every counted node, root buffer with two free lists, list of zvals to free | buffer a possible root, mark, scan, collect, call destructors, free |
| Objects store | `Zend/zend_objects_API.c`, `zend_objects.c`, end of request in `zend_execute_API.c` | buckets with count, `valid`, `destructor_called`; free list; `top`, `size` | put, add and delete reference, call all destructors, free all storage |
| Thread-safe hashes | `Zend/zend_ts_hash.c` | a hash, two mutexes, a count of readers | every hash operation between `begin_read`/`begin_write` and their ends |
| TSRM | `TSRM/TSRM.c` | table of resource types, per-thread storage chains, one mutex | allocate id, fetch, free id, free thread, free workers |
| Hash tables | `Zend/zend_hash.c` | buckets, insertion order, internal pointer, recursion guard | update, delete, apply, resize, copy |
| Memory manager | `Zend/zend_alloc.c` | segments, bins, cache, limit | allocate, free, reallocate, shut down |
| Resource lists | `Zend/zend_list.c` | counted entries, persistent entries | insert, add reference, delete, close in reverse order |
| Directives | `Zend/zend_ini.c` | value, original value, stage | alter, restore, deactivate |
| Compiler and VM | `Zend/zend_compile.c`, `zend_execute.c`, ... | op arrays, execute data | compile, execute |

### The servers

| Component | Source | State | Operations |
|---|---|---|---|
| FPM process manager | `sapi/fpm/fpm` | pools with lists of children and counters, stop state, timers, a signal socketpair, one shared slot per worker | signals, escalation, fork, bury, idle maintenance, request timeout; in the worker accept, serve, keep, quit |
| FastCGI of the CGI SAPI | `sapi/cgi/fastcgi.c` | connection, record in progress | accept, read records, finish, keep |
| Request life cycle | `main/main.c`, `main/SAPI.c` | flags of the request in progress | startup, execute, shutdown in numbered steps |
| Output | `main/output.c` | stack of buffers and handlers | start, write, flush, end |
| Other SAPIs | `sapi/*` | glue | |

### The extensions with state of their own

| Component | Source | State | Operations |
|---|---|---|---|
| Sessions | `ext/session/session.c`, `mod_files.c` | per request an id, a status and the handler's data (descriptor, key, length read); per session a file with a lock | start, flush, destroy, regenerate, change the id, collect old files |
| System V semaphores | `ext/sysvsem/sysvsem.c` | per key three kernel semaphores; per handle the set, how often it acquired, `auto_release` | get, acquire, release, remove, end of a handle |
| Process control | `ext/pcntl` | a queue of signals for the next tick | |
| Streams and filters | `main/streams` | buckets, filter chains, read buffer | |

The rest are sequential libraries, many around vendored code.

### How they interact

- A request ends in `php_request_shutdown`, whose first steps call the objects
  store (`zend_call_destructors`), then flush output, and later
  `shutdown_executor`, which sweeps tables and frees what the store still has.
- Releasing a zval calls the store, the store calls user destructors, and these
  release and create zvals: the recursion is the difficulty of `ObjectsStore`.
  Any release may put a zval into the collector's root buffer, and a full buffer
  starts a collection in the middle of it.
- The collector reads and writes the counts of the store without calling it,
  and frees zvals without releasing their handle.
- In FPM the master and its workers share only the kernel (signals, `waitpid`)
  and one slot of shared memory per worker. The worker runs the FastCGI loop
  around the request life cycle.
- Requests in different processes meet in the kernel: `flock` on a session's file,
  `semop` on a semaphore set. The kernel cleans up after a process that dies; the
  code has to be right with what that leaves.
- TSRM gives every thread its own engine state; `zend_ts_hash.c` is what threads
  share on purpose.

### What is hard, and what makes it correct

`PROJECT.json` lists each hazard at its line with the properties that would
catch it. In short:

- **Collector.** Three walks over a graph with shared nodes and cycles, from
  several roots, in any order. Correct: a count is at every moment the
  references not yet subtracted; nothing live is freed; everything only roots
  reach is found; the walks end.
- **Root buffer.** Every release may buffer, every free must unbuffer, and
  destructors run inside a collection, on zvals whose word holds a list link in
  place of colour and address. Correct: an address and its entry name each other;
  nothing freed is a root; a list of garbage survives what scripts do meanwhile; a
  possible cycle is forgotten only for want of room.
- **Store.** Releases, destructors and bailouts nest. Correct: a count is the
  number of references at every level of the nesting; nothing referred to is
  gone; no destructor and no free happens twice; no handle is lost.
- **Locks.** The reader that unlocks is not the one that locked, and some calls
  take two locks. Correct: writers are alone, nothing stays locked, calls are
  atomic and return.
- **FPM.** Signals are lost or arrive too early, forks fail, workers die at any
  point and change while they are counted. Correct: the books match the
  kernel's, pools keep their limits, a stop ends, nobody is left behind, a late
  request ends.
- **Sessions.** A file's lock, its name and its contents are changed by separate
  system calls, and a process may be killed before each. Correct: who has read a
  session under its lock is alone with it; what was read from a destroyed session does
  not come back under its name; a file is what one write left; waiting ends.
- **Semaphores.** Three kernel semaphores and one undo per process stand for one
  semaphore with a limit. Correct: the first user, and nobody else, sets the limit;
  a death gives back exactly what was held; no call waits for the dead.

## 2. The modules and the code

| Module | Role |
|---|---|
| `GcCycle` | the three passes of one collection |
| `GcCycleProof` | its theorems |
| `GcBuffer` | the buffer of possible roots and `gc_collect_cycles` around the passes |
| `GcBufferProof` | its theorems |
| `TsHashAtomic` | abstract: each call takes effect at one moment |
| `TsHash` | the readers-writer lock, mutex operation by mutex operation; implements `TsHashAtomic` |
| `TsHashProof`, `TsHashAtomicProof` | its theorems |
| `ObjectsStore` | the store and the end of the request |
| `ObjectsStoreProof` | its theorems |
| `FpmService` | abstract: what the FPM master promises of its pools |
| `FpmMaster` | master, kernel and workers; implements `FpmService` |
| `FpmMasterProof` | its theorems |
| `Session` | sessions in files, among processes |
| `SessionProof` | its theorems |
| `SemService` | abstract: one semaphore with the limit of its first user |
| `SysvSem` | `sem_get` and the others on three System V semaphores; implements `SemService` |
| `SysvSemProof` | its theorems |
| `Totals` | sums as cardinalities, for the last two |
| `MC*` | instances for TLC, where constants are more than model values |

**GcCycle.** A node is an array zval, an object zval or a store object; a
*cell* holds one counted reference. `Init` is every heap over the given cells
with true counts and any set of buffered roots, so a run looks at all of them.
The C walks recurse; here a walk is a set of nodes to visit (`work`, and
`blackWork` for the walk that `zval_scan` starts), and one action visits one
node with the same colour test and count changes. The set leaves the order open,
which covers the order of the C recursion. `gc_active` is set during the passes
and no user code runs, so the heap is constant. `EG(symbol_table)` is special in
the code and in the model: its zval's count is never touched and no walk enters
it.

**GcBuffer.** What `GcCycle` leaves out: the word of a node as the rest of the
engine sees it. `color` and `ptr` are its two parts; `ptr` is the address of an
entry, or, on a list of garbage, the next zval. `roots`, `unused` and
`first_unused` are the two lists and the untouched part of the buffer, and `named`
is what an entry leads to. `stack` holds the collections in progress and the
`possible_root` calls that wait for one; scripts act outside of them (`NewZval`,
`AddRef`, `DelRef`, ..., `gc_collect_cycles`, `OnUpdateGCEnabled`) and inside, where
destructors and releases of garbage run. The passes (`Passes`) are any outcome that
`GcCycle` admits: any set of nodes reached, and as garbage any of those whose count
is explained by references from zvals. Two things are left out. A destructor that
stores a reference to garbage which is about to be freed (`AllDestroyed`) is not
followed further, because the abstract heap does not say who holds what. With
`TouchPinned` false scripts do not release the zval whose own release is
collecting; with it true they do, and `gc_twice` shows what happens then. An object
has no such protection: its count is lowered before `gc_zobj_possible_root` is called, so
it may be released again and freed while that call waits (`DelObjectRef`, `FreeObject`).

| Code | Actions |
|---|---|
| `_zval_ptr_dtor`, `gc_zval_possible_root` | `DelRef`, `PossibleRoot`, `Overflow`, `Retry` |
| `zend_objects_store_del_ref`, `gc_zobj_possible_root` | `DelObjectRef`, `FreeObject` |
| `gc_remove_zval_from_buffer`, `gc_remove_from_buffer` | `RemoveFromBuffer`, `Give` |
| `gc_collect_cycles` | `gc_collect_cycles` with `Passes`, `NextDestructor`, `Destroy`, `Destroyed`, `AllDestroyed`, `FreeZval`, `Collected` |
| `OnUpdateGCEnabled` with `gc_init`, `gc_reset`, `_zend_bailout` | `OnUpdateGCEnabled`, `gc_reset`, `Bailout` |

**TsHash.** One action per mutex operation or access to `ht->reader`; the body
of a call goes through its keys one at a time, so that a caller that got in too
early would see half of another's work. The mutexes are pthread mutexes as the
code uses them: not recursive, and unlocked by a thread that need not have
locked them. Calls are records of an operation, one or two tables and keys:
find, update, add, del, clean, copy, merge, compare. The other entry points of
the file take the lock in one of these ways. A table is neither created nor
destroyed while threads use it, and `apply` callbacks do not call back.

**ObjectsStore.** `stack` holds the calls in progress: a release at its start,
in the destructor, or in `free_storage`, and the user code of destructors. User
code is anything a script can do with its variables and the objects it holds:
create, fail in a constructor, assign, set and unset properties, exit, or fail
fatally. `shutdown_destructors` deletes a global that alone has its zval and keeps one whose
zval is shared (`SweepSymbol`, `KeepSymbol`); who shares a zval is not kept, so a pass
takes either way. A bailout is a `longjmp` to the nearest `zend_try`: `Unwind` leaves user
code, and the release around it goes on and passes the bailout on. The phases
after `run` are `shutdown_destructors` (`symbols`, `destruct`) and
`shutdown_executor` (`globals`, `statics`, `free`). A variable stands for all
that share one zval, since the store counts zvals; an object has one property.
`moves` counts reallocations of the buckets, and each release remembers where
its `obj` pointer points (`at`).

**FpmMaster.** A step of the master is the code between two points where a
worker or the kernel can make a difference: one signal character, one `waitpid`
and all that follows from it, one `fork`, one read of a slot, one decision.
`pc` is the place in the event loop; the timers run in the order of their queue
and one that is not due is skipped. Correspondence:

| Code | Actions |
|---|---|
| `fpm_run`, `fpm_children_create_initial` | `CreateInitial` |
| `fpm_children_make` | `Fork`, `ForkFails`, `Made` |
| `fpm_got_signal`, `fpm_pctl` | `ReadSignal`, `Drained`, `SetState` |
| `fpm_pctl_action_next`, `_last` | `ActionNext`, `LastAction`, `PctlTimer` |
| `fpm_children_bury` | `Bury`, `NoneToBury` |
| `fpm_pctl_perform_idle_server_maintenance` | `IdleTimer`, `NextPool`, `ReadSlot`, `KillIdle`, `SpawnIdle`, `Suffices` |
| `fpm_pctl_check_request_timeout`, `fpm_request_check_timed_out` | `RequestTimer`, `CopySlot`, `TerminateRequest`, `Checked` |
| `sig_handler` of the master | `sig_handler` |
| worker: `fpm_child_init`, `fcgi_accept_request`, `sig_soft_quit`, ... | `InitChild`, `Accept`, `KeepConnection`, `NextRequest`, `CloseConnection`, `Retire`, `QuitIdle`, `Deliver`, `Crash` |

What it abstracts:
- start times are left out, so the maintenance may pick any idle child where the
  code picks the oldest;
- the ring of recent faults is the number of faults inside the interval: the
  oldest of `emergency_restart_threshold` entries is young exactly when all are;
- time is two sets: `over`, workers whose `slot.accepted` is older than the limit
  (what the code compares), and `late`, workers whose present request has run
  that long (what the documentation means);
- of the stages of a request the model keeps none, `accepting` and `active`,
  because the code compares with `FPM_REQUEST_ACCEPTING` only;
- the try-lock on a slot is not modelled: a heartbeat that finds a slot busy passes
  it over and the next one looks again;
- a local of the master that is dead is put back to its first value, which only
  joins states that differ in nothing the code can see;
- a worker may end by a fault or by a signal from outside in any state, also before it
  is initialised (`Crash`);
- a reload leaves the model at `execvp`, a stop at `exit`.

`FpmService` has pools as sets of workers and a mode. `FpmMaster` maps
`children` to its workers and `fpm_state` to its mode.

**Session.** A process serves requests; a step is one system call of
`mod_files.c`, or the code of `session.c` between two. `dir` maps names to inodes,
so that a process that opened a file before its name was unlinked goes on with it
as in the kernel. A file's contents are what one write left (`Val`), empty, or
`Torn`: the start of one write and the end of an older one. `era` and `read` are
history: how often a name was unlinked, whether the open file is locked and was read,
and the session, in which era of its name, that the request's variables come from.
Every id in `Sid` may be asked for at any time, which stands for cookies,
for `session_id(s)`, and for an id another request has just made.

| Code | Actions |
|---|---|
| `php_session_start`, `php_session_initialize` | `Start`, `Started` |
| `ps_files_open` | `Open`, `OpenFails`, `Flock`, `FlockFails`, `Reopens` |
| `PS_READ_FUNC(files)`, `PS_WRITE_FUNC(files)`, `PS_CLOSE_FUNC(files)` | `Read`; `Truncate`, `Pwrite`; `Close` |
| `ps_files_cleanup_dir` | `Stat`, `Collect` |
| `php_session_flush`, `php_session_save_current_state` | `Flush`, `FlushNothing` |
| `php_session_destroy`, `PS_DESTROY_FUNC(files)` | `Destroy`, `Destroyed` |
| `session_regenerate_id` | `RegenerateId`, or with `delete_old_session` `Regenerate`, `Regenerated` |
| `session_id`, RSHUTDOWN | `SetId`, `Rshutdown` |
| the kernel | `Kill` |

A `flock` may fail in the processes of `Interrupted`, by the EINTR of an alarm (whose
handler `php_signal.c:35-39` installs without SA_RESTART) or by ENOLCK: the code drops its
result and goes on with the descriptor, unlocked (`FlockFails`). A read or write is whole:
`fstat`, `pread`, `ftruncate` and `pwrite` do not fail, and a file is always decoded. A
collection may find any file old, for `session.gc_maxlifetime` can be no time at all.

**SysvSem.** A step is one call on the kernel's semaphores. `Semop` does all its
operations or waits, and notes what a death takes back (`semadj`); `SetMax` is
`semctl` with SETVAL, which also clears those notes; `Exit` is a death anywhere, by
`exit` or by a signal, with the kernel's undo in one step. A removed set is one
whose `semid` is not the last, or `exists` is false: calls on it fail, and the code goes on
after its warning. `kept` is history: what handles without `auto_release` have left.
The comment in `sem_get` (lines 212-218) warns that undo is not atomic on the Linux
of its time; the model undoes what a process did to one set in one step.

| Code | Actions |
|---|---|
| `sem_get` | `SemGet`, `CountUse`, `ReadUsage`, `SetMax`, `Register` |
| `php_sysvsem_semop` | `CallAcquire`, `Acquire`; `Release` |
| `sem_remove` | `Remove` |
| `release_sysvsem_sem` | `Destroy` |

`SemService` has users, holders and a cap. The mapping counts handles (and a call
past its `semop`) as users, and takes the cap from the one process between its look
at the count and its SETVAL while there is one, otherwise from what is free plus
what is held.

## 3. What each run checks

| Run | Distinct states | Instance | Properties |
|---|---|---|---|
| `gc_heaps` | 345,000 | all heaps of an array, two object zvals that may share an object, and the symbol table, with every set of buffered roots | types, `Accounting`, `DoomedIsClosed`, `ScanIsComplete`, `NoWhiteLeft`, `CountsRestored`, `PassesEnd` |
| `gc_script` | 418,000 | two arrays, one object, a buffer of two entries, collections nested in collections, the collector switched on and off, bailouts, a next request | `BufferAgrees` (with types), `ListsIntact`, `NeverForgets` |
| `ts_tables` | 215,000 | three threads, one call each, two tables read, written, copied and compared and a third written, merged into and cleaned | types, `Exclusion`, `LocksAreReturned`, `AtomicSpec`, `EveryCallReturns` |
| `objects_request` | 3,286,000 | three objects of classes with and without destructors, a global and a static variable | `CountsReferences`, `NothingDangles`, `OnceEach`, `FreeHandles` (with types), to the end of the request |
| `fpm_dynamic` | 2,317,000 | a dynamic pool of up to two workers: idle kills, spawns, a failed fork, an operator's signal, an emergency reload at the first crash, a socketpair that overflows | types, `Books`, `DeathsAreNoticed`, `MarkedAreLeaving`, `AbstractSpec` |
| `fpm_stop` | 367,000 | a static pool of two workers, a stop or reload by the operator and one by a crash, which may meet | `TerminatingEnds`, `GracefulStopEnds` |
| `fpm_refill` | 72,000 | a dynamic pool of one worker with a request time limit, a failed fork, an operator's signal | `DynamicPoolsRefill`, `LateRequestsEnd` |
| `sem_processes` | 98,000 | two processes, one handle and two `sem_get` each, limits 1 and 2, one removal, two deaths | types, `DestroyNeverWaits`, `OneInGet`, `ServiceSpec`, `GetsReturn`, `WaitersGetIn` |
| `session_requests` | 666,000 | two processes, two session ids, data of two lengths, two sessions started; failing opens, a process whose `flock` may fail, kills, collection | types, `DestroyedIsGone`, `WaitsForOne`, `TearsOnlyUnread`, `WritesOverWhatItRead`, `StartsReturn` |
| `objects_moved`, `gc_twice`, `session_torn` | violations | | section 7 |

The properties worth reading twice:

- `Accounting` is the invariant behind trial deletion: a node's count is its
  outside references plus those from nodes not subtracted. It fails for a walk
  that visits twice, restores twice, or counts a doubled element once.
- `DoomedIsClosed` speaks of what `gc_collect_cycles` *will* free, the objects
  it recognises by a count of zero included.
- `AtomicSpec` of `TsHash` is a refinement: while a body is half done, the keys it
  has written still show the value found there. A copy that did not hold the
  lock of its source would show a moment that never was.
- `CountsReferences` counts references in variables, properties and in calls in
  progress, and those a bailout left raised: a leak is allowed, a difference is
  not.
- `DeathsAreNoticed` is why a lost character in the full socketpair does no harm
  for SIGCHLD, as long as what is in it is not all an operator's.
- `MarkedAreLeaving`: a child marked `idle_kill` is not replaced when it leaves,
  so it must leave.
- `ListsIntact` follows the links from where each collection holds its list, the
  saved ones of outer collections included, and finds exactly what that collection
  still has to free. It fails when a release takes the link for an address.
- `NeverForgets` is the reason why a purple node is passed over without harm: it
  has an entry. The exceptions are named: no entry was left, or an exit cut short the
  collection that was to make room.
- `DestroyedIsGone` relates the contents of a file with the history of its name, over
  requests that waited for a file while it lost its name, with or without its lock: what
  was read from a session does not come back under its name. It does not say that
  nothing a request wrote before the unlink can: one whose `open` failed has read nothing,
  and one that called `session_regenerate_id(true)` holds what it read as its own, and may
  write it under the old id again.
- `WritesOverWhatItRead` is what the lock is for: it holds because the descriptor stays
  open from read to write, and only against requests whose own `flock` succeeded.
- `TearsOnlyUnread` names what a tear needs: a writer that did not read the file, or has
  no lock, or follows a write by one that had none.
- `ServiceSpec` of `SysvSem` is a refinement with deaths: at each step one of them,
  anywhere, must look like a user who leaves and gives everything back.

## 4. Bounds

| Bound | Value | Why it is enough |
|---|---|---|
| nodes of a heap | 5, with 4 references | self-references, doubled elements, a shared object, a cycle through zvals and a store object, two roots in one cycle, and a cycle below the symbol table all fit; references from outside come from the global variable, and `Held`, which stands for any others, is empty here and arbitrary in the theorems |
| entries of the root buffer | 2, for 10,000 | full after two releases; two entries tell a first from a later root |
| `MaxRefs`, `MaxDepth` | 3, 3 | shared zvals; a collection started by a full buffer inside the collection of another, with its waiting release |
| `MaxCalls` | 1 per thread | two locks and three threads give first, middle and last readers that differ |
| `ReaderMod` | 8, for 2^32 | must exceed the threads; wrap-around below zero is visible |
| objects | 3 | a destructor that makes an object while a second is being freed and a third refers to both |
| `InitSize` | 2 or 3, for 1024 | the store grows within the run |
| pids | 2; 1 in `fpm_refill` | one worker to bury and one to leave or to be replaced. Each run has one pool, dynamic or static: the master treats pools one after the other, and that their books stay apart is proved for any number |
| `PipeSize` | 2 or 3, for a socket buffer | small enough to overflow in `fpm_dynamic` |
| `FPM_MAX_SPAWN_RATE` | 2, for 32 | reached after one doubling |
| `MaxSignals`, `MaxForkFailures` | 0 or 1 | one stop or reload; one failure is what leaves a pool short. The emergency reload adds a second stop in `fpm_dynamic` and `fpm_stop` |
| `Interrupted` | one of the two processes | one with and one without the lock meet in either order; the theorems have any set |
| sessions: processes, ids, inodes | 2, 2, 4 | one changes to the other's id; a name is made again while two unlinked files are still open |
| `MaxStarts` | 2, in all | two requests at once, or one after the other |
| lengths of session data | 2 and zero | growing, shrinking and equal writes |
| semaphores: processes, handles | 2, 1 each | first and second user, one in `sem_get` while the other dies in it |
| `MaxSets`, `MaxGets`, `MaxDeaths` | 2, 2 each, 2 | a set made again after `sem_remove` while an old handle is left; a process that comes back |

Symmetry over process ids is used in `fpm_dynamic` only, which checks no
liveness. `CHECK_DEADLOCK FALSE` is set where the system really stops: a
request ends, threads have made their calls, a master leaves. `GcCycle` ends in
an explicit `Finished` step and checks for deadlock.

## 5. Fairness

- `GcCycle`: the passes are sequential code that runs on.
- `TsHash`: weak fairness of each thread's next step. No mutex is fair, so a
  thread may be overtaken; `EveryCallReturns` holds because calls are finitely
  many and pairs of tables are locked in one order, which the runs assume.
- `ObjectsStore` has none: it checks safety only. A script need not end.
- `FpmMaster`: the master takes steps. Its three timers fall due again and
  again, and whether a given pass finds one due is not known, hence strong
  fairness for each. A raised signal is handled, a sent one delivered (the
  kernel), a worker ends its initialisation, and a worker whose listening socket
  was closed leaves `accept`. Nothing says that a request ends, that clients
  close connections, that workers do not crash, or that a fork succeeds before
  the bound on failures is used up.
- `GcBuffer` has none: it checks safety only.
- `Session`: calls return and scripts end, weakly fair per process; `flock` is
  strongly fair, since the lock is free again and again and the kernel queues those
  who wait. Nothing says that the first process gets it.
- `SysvSem`: steps inside `sem_get` are weakly fair, and a script that holds a
  semaphore releases it or ends. Who waits in `semop` is queued by the kernel, hence
  strong fairness there. `WaitersGetIn` excuses what no fairness can mend: somebody
  who holds without `auto_release`, or holds and waits for more.
- `LateRequestsEnd` assumes in addition that the heartbeat is reached. Workers
  that die as soon as they are forked are replaced inside the `waitpid` loop
  without a pause, and while that goes on no timer runs.

## 6. What is proved

Eight modules hold theorems about the specifications that the runs check, for
every value of the constants that their assumptions admit.

**`GcCycleProof`**, for every finite heap (`HeapAssumption`: finite sets of
zvals, objects and cells, a symbol table, no node of two kinds), every set of
outside references and every set of buffered roots.

| Theorem | Property |
|---|---|
| `TypeCorrect` | `TypeOK` |
| `CountsAreExact` | `Accounting` |
| `NothingLiveIsFreed` | `DoomedIsClosed` |
| `GarbageIsFound` | `ScanIsComplete` |
| `CountsAreRestored` | `CountsRestored` |
| `EveryWhiteIsCollected` | `NoWhiteLeft` |

`Accounting` is not inductive. It says what the counts of a phase mean, and a
step of the walks keeps that only if colours and work lists agree with the phase:
which colours a phase can meet (`Colors`), what waits in `work` and `blackWork`
and why (`Lists`), and that what was reached was reached from a root (`Reached`).
`Reached` is where a proof would like an induction along a path of references.
The invariant speaks of sets instead: every non-empty set of subtracted nodes has
a root in it or is referred to by a subtracted node outside it, so that none is
left over when the work lists are empty. `WhiteIsUnreferenced` carries the scan: a
white node's count is zero, so by `Accounting` every reference to it comes from a
node that is grey or white as well, and no black node refers to a white one. `Collecting` takes this through the
last pass, where counts are restored while white nodes turn black, and
`SymbolTable` keeps the count the collector must not touch.

`GarbageIsFound` is the converse of `NothingLiveIsFreed`: what a root reaches and nothing
outside keeps is white when the scan is done. Reachability is defined in the module as the
least set that contains the roots and is closed under references, so that two closed sets
do the work of an induction over paths. The nodes that are live or that marking has been
handed are one (`Handed`): when the work list is empty all that a root reaches was
subtracted (`MarkedAll`). The other is the complement of what is dead: every reference to
a dead node starts in a dead node, all of these are subtracted, so by `Accounting` its
count is zero and the scan never hands it to the walk that turns nodes black (`DeadStays`).

**`GcBufferProof`**, for any finite sets of zvals and objects, any size of the buffer, any
number of references and any depth of nesting (`BufferAssumption`), under the hypothesis
`TouchPinned = FALSE`: scripts do not release the zval whose own release is collecting. What
happens when they do is what `gc_twice` shows, so the theorems need it.

| Theorem | Property |
|---|---|
| `BufferAndWordsAgree` | `BufferAgrees` |
| `ListsStayWhole` | `ListsIntact` |
| `NoRootIsForgotten` | `NeverForgets` |

`BufferAgrees` speaks of the words as colour and address, `ListsIntact` of the same words as
links, and neither is inductive without the other. The invariant tells them apart by counts:
a zval that is on a list of garbage, or pinned by a `possible_root` call that waits, counts at least
one more than the references scripts can release (`Counts`; an object is on no list, and nothing
pins it), so that no release by a script
frees it, or finds it at a count that would make it a root; `Words` says what a word
is in either use. `Pins` keeps the waiting calls' zvals apart from buffer and lists. `Shape`
says in which order collections and waiting calls can lie on the stack: all but the top stand
at a destructor or at the release of garbage. `Saved` says where a collection's list starts
while inner ones run (an inner one that finds no list has saved none), `Apart` that no zval is
on two lists, and `Lists` that the links lead through exactly what is left to free: the
witness is a sequence, and a step takes its head, or leaves it alone. `NeverForgets` then
needs no more than a look at each step that buffers or colours a node.

**`TsHashProof`** and **`TsHashAtomicProof`**, for any threads fewer than `ReaderMod` (2^32), any tables and any
calls (`TsHashAssumption`).

| Theorem | Property |
|---|---|
| `TypeCorrect` | `TypeOK` |
| `WritersAreAlone` | `Exclusion`, under `CleansApart` |
| `NoLockIsLeft` | `LocksAreReturned`, under `CleansApart` |
| `CallsAreAtomic` | `AtomicSpec`, under `CleansApart` |

`CleansApart` says that a table that `zend_ts_hash_clean` is called on is read by no
call: it clears the count of readers under no lock, which is harmless only while the
count is zero (`QuietStep`). The calls of the run satisfy it. `mx_writer` is locked by one reader and unlocked by another,
so its holder says nothing about who is inside. The invariant counts instead:
`Counts` equates `ht->reader` with the number of threads whose program position is
between the two updates of the count, `Latches` ties `mx_reader` to the thread at an
update, and `Owners` says that `mx_writer` is held by a writer in its section, or
for the readers exactly while somebody is counted or is opening or closing the
section.

`CallsAreAtomic` is the refinement. Its invariant adds `Work`: for every key a call is
through with, what it found and what it stored are what the whole call would find and
store on `HashNow`, the tables as the other threads are to see them. A step on a key
that is not the last leaves `HashNow` alone (`BodyKeeps`: what the step overwrites is
what it has just recorded), the last one makes all keys count at once (`BodyEnds`,
the abstract `Do`), and both rest on `Exclusion`: no other thread is half done with a
table that the call names (`Alone`).

**`ObjectsStoreProof`**, for any number of objects, any finite sets of variables and any
initial size above one (`ObjectsStoreAssumption`).

| Theorem | Property |
|---|---|
| `StoreIsTyped` | `TypeOK`, a part of `FreeHandles` |
| `StoreCountsReferences` | `CountsReferences` |
| `NothingInUseIsFreed` | `NothingDangles` |
| `DestructedAndFreedOnce` | `OnceEach` |
| `NoHandleIsLost` | `FreeHandles` |

References are a sum of cardinalities and two numbers, and the first part of the module says
how each kind of step changes each summand: one value of a function (`CountExcept`), a call
pushed, popped or exchanged (`Push`, `Pop`, `Swap`, `SwapPush`). The invariant states the
properties by object, through `Owner`: the bucket at the object's handle is still the
object's. `Placed` ties buckets and handles together, and `Listed` says that the free list
leads only to empty buckets, none by two ways, without following the list: enough for
a new object not to land in a bucket in use. `Owned` says that what is referred to has its
bucket and `Counted` that a valid bucket counts right. `Calls` is what makes nested releases
safe: the object of a release that is in the destructor is still valid, and one in
`free_storage` has that release as its only reference, so that no code which runs meanwhile
can reach it. `FreedOnce` and `DestructedOnce` speak of the buckets too, because a handle is
given to other objects afterwards, and `Phases` says that only the last loop leaves objects in
invalid buckets and that the loop over the destructors stands at a valid one while it holds
its count up. Steps that leave objects in their buckets go through one lemma, `Kept`, and
those that take an object out or put one in (`AddToFreeList`, `FreeNext`, `Put`) each have their own.

`NoHandleIsLost` follows the free list to its end. `FreeHandles` says that some ordering of
the handles below `top` that no object has is the order in which the links lead through
them, all of them and each once. The proof carries that ordering along (`Chained`):
`AddToFreeList` puts a handle in front of it, `Put` takes the first (`HeadIsTaken`) or raises
`top`, and whatever else writes buckets writes those of objects (`ListStays`).

**`FpmMasterProof`**, for any pools, any configuration `fpm_conf.c` accepts
(`ConfAssumption`) and any number of processes, signals and failed forks.

| Theorem | Property |
|---|---|
| `TypeCorrect` | `TypeOK` |
| `BooksAreTheKernels` | `Books` |
| `ImplementsService` | `AbstractSpec` |
| `NoDeathIsMissed` | `DeathsAreNoticed`, if `MaxSignals < PipeSize` |
| `MarkedWorkersLeave` | `MarkedAreLeaving` |

The invariant adds two facts to types and books. `WithinLimits`: no pool has more
workers than `pm.max_children`, and while `fpm_children_make` runs its target is
within the limit too, whichever of its three callers set it; the target of the idle
maintenance needs the arithmetic of `SpawnTarget`. `NobodyIsLeft`: a master that
left has empty lists. The refinement then maps `Fork` to the service's `Join`, `Bury`
to its `Leave`, and every other step to a step that moves the mode at most
(`ModeStep`): the mode only becomes more urgent, and the three ways out, the
action at once, the timer and the last burial, each look at a counter that `Books`
equates with the workers there are.

`NoDeathIsMissed` needs the one thing that could crowd SIGCHLD out of the socketpair to
be bounded: `OrdersAreSent` counts the other characters in it, with those of the signals
not yet handled, and finds no more than an operator has sent. A full socketpair of more
room than that has a SIGCHLD in it (`FullHasChild`); a death adds one (`DeathTells`), a
step loses it only to the waitpid loop (`WordIsKept`), and the loop ends with nobody to
bury (`BuriesAll`). `MarkedWorkersLeave` rests on the slot: a worker that starts shows
an empty one, because the master clears it before the fork, so that the scan never reads
it as idle and the mark never meets a worker that would drop the SIGQUIT (`MarkedOf`).

**`SessionProof`**, for any processes, ids, files, data and lengths
(`SessionAssumption`).

| Theorem | Property |
|---|---|
| `Typed` | `TypeOK` |
| `NoTwoFiles` | `WaitsForOne` |
| `DestroyedStaysGone` | `DestroyedIsGone` |
| `ReadIsCurrent` | `WritesOverWhatItRead` |
| `ReadersDoNotTear` | `TearsOnlyUnread` |

The invariant says first where a process can be with what in hand (`Placed`), and that
a lock belongs to the process that has the file open and whose `flock` succeeded
(`Locked`). `Names` keeps two names from leading to one file. `ReadRight` is what the
lock is worth: a file that was read stays open until the session ends or changes its
id, and while its request has the lock the file is no longer than `st_size`, unless
a request without the lock wrote it last. `Origins` keeps a request with the file that
its variables were read from until the script is over, and lets it open another only for
another id. `Eras` says that whoever has read a session, and has the file behind its
name, opened it in the present era of the name, so that a write through an older
descriptor goes to a file without a name. None of this needs the lock; the
action properties do, and say of whom: two writers of one file cannot both be the holder
of its lock.

**`SysvSemProof`**, for any processes, slots, limits and bounds (`SemAssumption`).

| Theorem | Property |
|---|---|
| `Typed` | `TypeOK` |
| `FirstUserIsAlone` | `OneInGet` |
| `UsageCountsTheUses` | USAGE is the number of uses |
| `EndOfHandleGoesThrough` | `DestroyNeverWaits` |
| `OneSemaphore` | `ServiceSpec` |

That values stay natural is not evident: a death adds up what one process did, and
`SETVAL` changes a value under it. `Removed` says that a handle told of the removal of
its set never meets another under the same id, `Waiting` that a call in progress has
its handle, and `Raised` says what SETVAL is at
every moment: one while a process is past its first `semop` on the set, with that
process's undo minus one, and zero otherwise. A death in between therefore lowers it, and
any other death leaves it. `OneInGet` is inductive with `Raised`.

USAGE is counted without sums: `InUse` is one finite set with a member for each live
handle, each use that a handle without `auto_release` left, and each process between
its first and its last `semop`. `Counted` says that USAGE is its cardinality and that each
process's undo is minus the cardinality of its part. Every action adds a member, takes
one, puts one in the place of another, or (a death) takes a whole part: a lemma each. `Empty` says
that the slot `sem_get` is to fill stays empty, for otherwise its handle would replace
one that is counted.

`OneSemaphore` is the refinement. A sum over a finite set is here the cardinality of a set
of units (`Totals`), about which the library's facts on finite sets say what changes when
one summand does (`TotalChange`): no recursion, and no induction. The invariant adds what the
users hold. `GivesBack`: the undo of a process on SEM is how often it holds, so that a death
returns just that. `FirstIsAlone`: while a process is between its look at USAGE and SETVAL,
nobody else has a use, so that SETVAL, which also forgets everybody's undo, forgets nothing
and sets what the abstract semaphore has had since the look. That the look finds one exactly
when nobody has a use is `Counted`. `Backed` says that what a handle without `auto_release`
left acquired came with a use, and `Asks` that `sem_get` waits with a limit to set. A
step then either shows nothing (`Quiet`), or moves units between SEM and one process
(`Takes`) and keeps their sum, or is a join, a death or a removal.

**Only model-checked.** All liveness (`PassesEnd`, `EveryCallReturns`, `TerminatingEnds`,
`GracefulStopEnds`, `DynamicPoolsRefill`, `LateRequestsEnd`, `GetsReturn`, `WaitersGetIn`,
`StartsReturn`): fairness and ENABLED are out of the prover's reach. Every invariant, every
action property and every refinement that a passing run checks has a theorem; those of
`GcBuffer` and of `TsHash` carry the hypotheses named above.

## 7. Where the code and its texts disagree

1. `objects_moved`, `FreshPointer`. After a destructor the release re-reads its
   `obj` pointer, with a comment that says the store may have moved
   (`zend_objects_API.c:213`). It then calls `free_storage`, which can run
   destructors of the properties and move the store again, and writes
   `obj->refcount--` (line 230) through the old pointer.
2. `gc_twice`, `RootsAreAlive`. `gc_zval_possible_root` finds that the zval has no
   entry, runs a collection for want of one, and takes an entry afterwards. A
   destructor called by that collection may have released the same zval and so given it an
   entry already; the word keeps the newer address. When the zval is freed the older
   entry stays among the "possible roots of cycles" (`zend_gc.h:104`), and the next
   collection follows it. `gc_script` leaves such releases out (`TouchPinned`), and
   everything else holds.
3. `session_torn`, `WholeFiles`. "Truncate file if the amount of new data is smaller
   than the existing data set" (`mod_files.c:390`) compares with the length at the last
   read. A request whose `open` failed when the session started opens the file when it
   writes, with length zero, and puts shorter data over the start of longer ones;
   `session_id($other)` in an active session can do the same. `TearsOnlyUnread` is
   what holds: who has read the file it writes, under its lock, tears it only after a
   request whose `flock` failed has written it.

Seen while modelling, without a run of their own:

- An object made by a destructor in a handle that `zend_objects_store_call_destructors`
  has passed keeps its destructor for the time after output and headers are gone, though
  that step is to "call all possible __destruct() functions" (`main.c:1490`).
- `fpm_pctl_action_next` arms its timer from the timer's own callback. The event is
  still queued, so nothing is added, and the event loop then takes the fired event out.
  After the first timeout of a graceful stop no timer is left; SIGKILL never follows.
  `TerminatingEnds` holds all the same, because SIGTERM is first there and the one timer
  brings SIGKILL; `GracefulStopEnds` needs its condition that no worker was still
  starting when SIGQUIT was sent.
- The age that the heartbeat compares with `request_terminate_timeout` is the
  connection's, not the request's, so that on a kept connection a short request is ended.
- `ps_files_open` drops the result of `flock` (`mod_files.c:187`): interrupted by an alarm, a
  request goes on with a session file that another has locked and read.
- A static pool that lost a worker to a failed fork stays short until another of its
  workers dies.
- `gc_zobj_possible_root` with the collector off and the buffer full turns the zval
  black and leaves the object purple (`zend_gc.c:217`): it is passed over from then on,
  also after `gc_enable`. `NeverForgets` counts that among the cases without room.

## 8. Plan

Done: `GcCycle` and its proof, `GcBuffer` and its proof, `TsHash` and its proof, `ObjectsStore` and its proof,
`FpmMaster` with `FpmService` and its proof, `SysvSem` with `SemService` and its proof,
`Session` and its proof.

Next, in this order:

| Step | Module | Content | Properties | Composes |
|---|---|---|---|---|
| 1 | `Tsrm` | ids, per-thread storage, one mutex, free of ids, threads and workers | every live resource is constructed and destroyed once; storage outlives no thread; no fetch sees moved storage | |
| 2 | `OutputStack` | handlers and what they may do to the stack | output leaves in order, once; no handler runs inside itself | |
| 3 | `HashApply` | apply under deletion, internal pointer, recursion guard | a walk visits what stays, once | |
| 4 | FastCGI, resource lists, directives, pcntl | smaller modules | | request life cycle |

Runs stay below five minutes each, with two or three actors and every bound
named in the module. Theorem planned: the ownership invariant of `Tsrm`.

## 9. What is not modelled

- Compiler, virtual machine, data extensions, database clients: sequential, or
  with peers outside the repository. Their tests state their behaviour.
- The memory manager: address arithmetic whose interesting sizes are out of a
  model checker's reach.
- In the store: clone, proxies, `zend_object_store_set_object`, autoloading,
  timeouts of the executor.
- In FPM: slow-log tracing, the pipes of the workers' output, the status page,
  log reopening on SIGUSR1, the text of the configuration, sockets inherited over
  a reload.
- In the shared hashes: initialisation, destruction, callbacks that call back.
- In the collector: destructors that save garbage from being freed, and the heap as
  a graph outside the passes (`GcBuffer` counts references without saying from where).
- In sessions: the handlers `mm` and `user`, serializers (a bailout in `__sleep`
  during the flush keeps the lock until the request ends), failed reads and short
  writes, invalid ids, cookies and headers.
- In System V IPC: handles copied by `fork`, semaphore sets of other programs under the
  same key, failures for want of kernel resources; `sysvshm`, `sysvmsg` and `shmop`,
  which wrap one system call per function.

Each of these is a component in `PROJECT.json` with its reason.
