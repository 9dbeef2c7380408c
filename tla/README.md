# Verification of robl_sample_codes

The repository is a collection of small programs: "Code fragments for simple
functional verification, demonstration, proof of concept, or just practice"
(src/README.md). Most show one feature of a language or library. Eight of them
contain a concurrent component with state of its own, and these are the core of
this project: a thread pool, three readers-writers locks, a concurrent
updater, a polling monitor with callbacks, a message dispatcher and a
request-response map. Seven more stand alone: they follow a system that
changes while they run (storage watcher, address monitor, interface dump), talk to
a peer over a segment or a network (handshake, heartbeat), or compute (version
query, polygon sweep). The programs are independent: they share no code, and
components interact only inside a program or, where processes share a segment,
between its runs.

## 1. Inventory

| Component | State | Operations | What is hard | Correct means |
|---|---|---|---|---|
| Thread pool, `src/cpp/threadpool_new/main.cpp` | `is_active`, `pending_jobs`, `guard`, `cv`, the workers | `post`, `run`, destructor; futures | notifications against waits, jobs that post jobs, shutdown outside the mutex | jobs run once, in order; nothing runs after destruction; nobody sleeps on work |
| Condition-variable lock, `src/cpp/sleep_until_error/main.cpp` | `reader_count_`, `writer_waiting_count_`, `writing_`, two condition variables | `lock_shared`, `unlock_shared`, `lock`, `unlock` | two wait sets, spurious wakeups, who notifies whom | mutual exclusion; no lost wakeup; writers progress |
| Semaphore programs, `src/cpp/readers_writers_problem/semaphore/` | `in`, `mx`, `wrt`, `read_count` in a System V segment; `is_running` | entry and exit sections, start, stop, `sem_destroy` | a segment that outlives killed runs, a turnstile, nested waits | mutual exclusion; permits conserved; nobody starves with `in` |
| Update mediator, `src/cpp/updater_ex/main.cpp` | `devices`, `dependencies`, one mutex and one `updated_` per device | `AddDevice`, `SetDependency`, `UpdateAll`, recursive `UpdateDevice` | one task per device, mutexes nested along dependencies | each device once, after its dependencies; no deadlock without a cycle |
| Mount monitor, `src/cpp/callback/main.cpp` | two callback lists with mutexes, `is_mounted_`, `is_monitoring_`, `last_mounted_state` | register, cancel, `SetMounted`, the monitor thread, destructor | a thread started in the constructor, polling, indices into a list that shrinks | edges alternate; batches do not overlap; a handle denotes its callback |
| Message-id listener, `src/cpp/unordered_multimap/main.cpp` | `callback_multimap_`, `mutex_`, executors | register, cancel, `Notify`, `Execute` | callbacks run with the mutex held, by a future whose destructor waits | no callback after its cancellation; callbacks serial |
| Promise map, `src/cpp/promise_map/main.cpp` | a map from keys to pointers to promises on other threads' stacks | `ForwardRequest`, `Receive` | timeouts against late answers, duplicates, keys in common | answers match requests; no write to a promise that is gone |
| pthread programs, `src/cpp/readers_writers_problem/pthread_rwlock/` | a process-shared `pthread_rwlock_t` in a segment; `is_running` | initialise or attach, threads, stop | several processes on one segment, one of which may clear it or be killed; reader or writer preference | exclusion across processes; a waiting writer writes, with the preference; processes return |
| Shared-memory handshake, `src/cpp/shm_example/` | a segment of letters; the pointers into it | server writes the alphabet and polls for `*`; client prints and marks | no synchronisation: both access the segment byte by byte | the client prints a prefix; the server returns when its text was read |
| Multicast heartbeat, `src/cpp/multicast/` | `fd`, sockets | open, send or receive, close | failure between the steps of opening, and of a transfer | one open socket is used, none leaks |
| Address monitor, `src/c/rtnet/main.c` | a netlink socket, an interface | print, wait, print | changes before the subscription, lost notifications | the last state is shown |
| Interface dump, `src/c/rtnet/ex_rtnetlink.c` | an array of interfaces | a dump of links, a dump of addresses | two dumps, each in parts, of a system that changes | what is there all the time is listed, once |
| Storage watcher, `src/cpp/fanotify/` | an inotify queue, a mount point | mount, unmount | device created between watch and test, late events | mounted iff present |
| Version query, `src/cpp/GetVersion/` | the output of dpkg | find a line, pack four numbers | a loop that reads a new stream each time; numbers beyond a byte | the version is that of a listed line |
| Polygon sweep, `src/cpp/polygon/` | events, active segments | process events | ties, level and downward segments | the verdict is that of the definition |
| SCTP, `src/cpp/sctp_example`, `src/c/sctp_example` | sockets | accept loop, one message | I/O errors end the server | - |
| Observer, mediator, heap, lottery, OpenMP decomposition, counters | sequential or nearly | - | order of calls | - |
| Language, I/O and library demos, frames and tiles | none that evolves | - | - | - |

`PROJECT.json` lists every component with its files, and the hazards of the
code at their lines.

## 2. What is modelled

| Module | Models | Correspondence |
|---|---|---|
| `JobExecutor` | the abstract executor: a queue, executors, phases | what the users of `thread_pool` rely on |
| `ThreadPool` | `thread_pool`, its workers and its owner | `pc` is the place in `run()`, `post()`, `main()` or the destructor; the mutex is the variable `guard`; `Block` is the atomic unlock-and-sleep of `cv.wait`, a step apart from the evaluation of the predicate |
| `MCThreadPool` | sets of jobs for TLC | |
| `ThreadPoolProofs` | proofs about `ThreadPool` | |
| `Roles` | the readers and writers of a program that is one process | their sets are finite and disjoint |
| `RWLock` | the abstract readers-writers lock; `CrashSpec` lets holders die | what every lock of the repository promises |
| `StarveFreeLock` | the condition-variable lock with its threads | a method runs with `mutex_` held and is one step, or two around a wait |
| `StarveFreeLockProofs` | proofs about `StarveFreeLock` | |
| `RWSemaphore` | both semaphore programs; `has_in` says which one runs | each `sem_wait` and `sem_post` is a step, with the update of `read_count` that `mx` protects; `Start`, `Stop`, `JoinAll` are main(), `Kill` is a signal |
| `ReadersWritersProofs` | proofs about `RWSemaphore` and `PthreadRWLock` | |
| `UpdateMediator` | `UpdateMediator` and the devices | a stack of `UpdateDevice` calls per task, `next[d]` the position of the loop over `dependencies[d]`, `owner[d]` the holder of the device's mutex |
| `UpdateMediatorProofs` | proofs about `UpdateMediator` | |
| `MountMonitor` | the class and its users | `pc` is the place in `Monitor()`; each operation on a list is one step, since it holds the list's mutex; `WithoutNulls` is the erase-remove |
| `MidListener` | the class, its clients and its executors | a `Notify` is one step per turn of its loop, `awaited` the entry whose future is being destroyed |
| `MCThreads` | `MidListener`, `StarveFreeLock` and `RWSemaphore` side by side, for TLC, with their fairness | `program` says which one runs and never changes |
| `PromiseMap`, `MCPromiseMap` | `ForwardRequest`, `Receive`, the network | `find()`, `it->second` and `set_value()` are three steps, with the node in `it` and then the pointer in `target` in between; nodes and places on the stack outlive what was in them |
| `MountMonitorProofs`, `MidListenerProofs`, `PromiseMapProofs` | proofs about these three | |
| `PthreadRWLock` | both pthread programs; `prefer` says which one runs | processes start with an argument (`Clear`, `Initialise`) or without (`Attach`), stop or are killed; the lock of the C library is modelled from its use |
| `StorageWatcher` | `cpp/fanotify/main.cpp`, with the device, the inotify queue and the mount point | each system call is a step; `eventBuffer` is what `read` returned and the inner loop has not handled |
| `AddressMonitor` | `c/rtnet/main.c`, with the interface and the netlink socket | `print_ip` and `ip_changed` are a step each; a socket buffer that overflows makes `recv` fail, which ends the program |
| `InterfaceDump` | `c/rtnet/ex_rtnetlink.c`, with the interfaces | each message of a dump is a step, `queue` the interfaces it has still to visit |
| `Handshake` | `cpp/shm_example/`, server and clients | each access to a byte of the segment is a step: `Read` is the test of the loop, `Put` reads the byte again |
| `Heartbeat` | `cpp/multicast/`, server and client | each call of `TryOpenConnection` and each transfer is a step, with all its outcomes |
| `VersionQuery` | `cpp/GetVersion/main.cpp` | words are sets of bits; a turn of the loop is a step |
| `PolygonSweep` | `SweepLine` of `cpp/polygon/main.cpp` | an event is a step; equal events come in any order |
| `SystemPrograms` | these seven side by side | `program` says which one runs and never changes: the state spaces add up and do not multiply |
| `SystemProgramsProofs` | proofs about the seven | |

Steps were made as large as the mutexes of the code allow and no larger. A
section that holds one mutex from beginning to end and touches only what that
mutex protects is one action. Where the code acts outside the mutex (the
destructor of the pool, the pointer `Receive` holds, the monitor's copy of
`is_mounted_`) the steps are separate.

`StarveFreeLock` needs one more remark: a thread that is notified must lock
`mutex_` again before it looks at the predicate, so it goes to `"woken"`, and
others may take the lock first. Since `++writer_waiting_count_` and the first
evaluation of the predicate happen without releasing `mutex_`, `Lock` counts the
writer only if it goes to sleep; the code's increment and decrement cancel out
otherwise.

`StorageWatcher` takes `mount` to fail without a device and for a device that is
already on top of the mount point, and `umount` to take off the top; it leaves
out a mount point that is busy and an inotify queue that overflows. In
`AddressMonitor` an interface has at most one address of a family, of which
`get_nic_addr` would take the first, and is never removed; `getnameinfo` may fail
for either family, `getifaddrs` for both.

In `PromiseMap` each operation on the map is one step, which is the best the code
can hope for without a mutex. Between `find()` (line 141) and `it->second` (line
143) an `erase()` may free the node, and a later `insert()` may take it for another
entry: `it` is a node and not a request, `stale` remembers that it was freed, and
`second` keeps what a node holds or held. The promises lie on the stacks of the
requesters, and `place` is where: a request may get the place of one that has
returned, and a late `set_value()` satisfies whatever promise lies there by then.
Both uses of what is gone are recorded as `"dangling"` in `errors`. They are
undefined behaviour: the model follows the outcomes in which memory keeps its
contents until it is used again for the same purpose, and not a crash.

`MountMonitor` joins the test of `is_monitoring_` and the read of `is_mounted_` in
one step, and `RWSemaphore` the initialisation of the segment: nothing can tell
the difference, as the destructor joins the thread whatever it has read, and no
other thread exists before main() starts them.

In `PthreadRWLock` a segment full of zeros, which no process has initialised, is a
valid lock whose waiters sleep on private futexes: a release wakes only threads of
the same process. A segment that is cleared while another process uses it
(`condition = "misused"`) is not followed any further: from then on any thread
may enter or block. In `Handshake` the segment outlives the programs and may be
missing, empty, or full of an earlier run's letters. `PolygonSweep` has integer
coordinates, for which the code's arithmetic in `double` is exact. `VersionQuery`
takes of a line whether the package is copilot and the four numbers of its
version; `sscanf` takes any 32-bit numbers, and the shifts drop what is beyond.

In `UpdateMediator` a task that calls `UpdateDevice` on a device whose mutex it
holds itself waits for ever. For `std::mutex` that is undefined, and blocks in
the usual implementations.

## 3. What is checked

Type invariants are not among the properties of the runs: each is part of the
inductive invariant of its module and proved with it (section 4). Facts that
follow from a stronger property of the same run are left to the proofs as
well: that a job is there to be popped, that updates are unique, that callbacks
are serial, the exact counters of `StarveFreeLock`, that it does not deadlock.

Only `PromiseMap` uses symmetry (of its requests and its keys). `SystemPrograms` is small
enough without, and the other runs have liveness properties, for which symmetry
is not sound in TLC.

| Run | Instance | Shows |
|---|---|---|
| `ThreadPool` | 2 workers, 3 jobs (1 awaited), 1 spurious wakeup | one notification per job is enough, refinement of `JobExecutor` (jobs run once, in order, none after destruction), posted jobs run, the destructor returns unless it notifies while a worker is between predicate and sleep |
| `ThreadPoolShutdown` | the same, no spurious wakeup | **violation**: the destructor may hang |
| `Threads`, the condition-variable lock | 2 readers, 2 writers, 2 spurious wakeups | no lost wakeups, refinement of `RWLock`, progress of readers once writers stop |
| `Threads`, the semaphore programs | both programs, 2 readers, 2 writers, 2 runs | conservation of permits, refinement of `RWLock` with crashes, no overtaking, no starvation with `in` |
| `Threads`, the listener | 2 clients, 3 entries (1 re-entrant), 2 ids, 2 calls of Notify | silence after cancellation, exact ranges, termination without re-entrance, hanging with it |
| `UpdateMediator` | all lists of up to 3 devices with up to 3 dependencies | order, completeness, no deadlock without a cycle |
| `MountMonitor` | 3 registrations, 3 state changes | construction order, batches that alternate and do not overlap, handles until the first erase, reporting |
| `MountMonitorCancel` | 2 registrations, 1 state change | **violation**: a cancelled callback may stay registered |
| `PromiseMap` | 3 requests, 2 keys, 2 copies of each acknowledgement | the map points to living promises; answers match requests, and a promise is satisfied once unless an acknowledgement was repeated, until something dangling is used; what `Receive` holds is good until a request with its key times out |
| `PthreadRWLock` | both programs, 2 processes of a reader and a writer, 3 starts | refinement of `RWLock` with crashes until a segment in use is cleared, writers progress with the preference, stopped processes return |
| `Handshake` | 2 clients, 3 letters, 2 runs of the server | **violation**: the server may return although nobody has read its text |
| `VersionComment` | one line, numbers 0, 1, 2 and 16 | **violation**: the number returned for 0.2.1-rc.16 is not the one in the comment |
| `PolygonVerdict` | all polygons of 4 corners on a 3 by 3 grid | **violation**: a polygon that crosses itself is called not self-intersecting |
| `SystemPrograms` | 3 insertions, 1 event of another device; 2 addresses, 4 changes, a buffer of 2; 2 interfaces, 2 changes; the handshake as above; 2 lines, numbers 17 and 256; all polygons of 4 corners on a 3 by 3 grid | what is mounted is what is present, what is printed is current, what is stable is listed, the client prints a prefix and releases a polling server, one socket is used, the version printed is listed, as far as its numbers fit into bytes, and is found only in the first line, the sweep's verdict is exact, with the exceptions named below |

The bounds. Two workers are the least with which one may take the job another
was notified for, and are what main() has; three jobs leave one in the queue
while both run. Two readers and two writers are the least with which there is a
last reader, a reader that is not the first, and a writer that hands over to a
writer. Two runs of the semaphore program give every pair of an orphaned or
clean segment and an initialising or plain run. Three devices and three
dependencies contain duplicates, joins, chains of three and cycles of every
length up to three, and tasks that meet in all of them. Three entries of a list
and three changes give an erase that moves an entry or several, and a batch after it.
Three requests over two keys meet in one key or in none, and a third can take
the place, or the node, of a first that has timed out. Three insertions give a device, one
that replaces it before it was noticed, and one after both; four changes overflow
a buffer of two datagrams while a print is due. Two processes with a reader and a
writer each give two processes in the lock at once and readers that hand it over
between processes; the third start is one that finds what an ended or killed
process has left. Two interfaces and two changes give one that goes and comes
between the two dumps or beside an unchanged one. Two clients, two runs and three
letters give a client before, beside and after a run, and letters before and
behind the one being written. Four corners on three rows give crossings of every
orientation, touching, overlapping, level and degenerate segments. Numbers of 17
and 256 give each field of a version that fits a byte beside one that does not. In
`Threads` and in `SystemPrograms` one program runs in each behaviour, so that an
instance of one is not made smaller for the sake of another.

Every bound on a counter (`MaxSpurious`,
`MaxStarts`, `MaxDevices`, `MaxDeps`, `MaxChanges`, `MaxNotify`, `MaxCopies`,
`MaxInsertions`, `MaxOthers`, `MaxUpdates`, `MaxRuns`) is
a guard of the action it limits and of no other.

### Fairness

Weak fairness for a thread that can take a step: the operating system schedules
it, and a mutex that is free again and again is obtained because it is held for a
bounded number of steps in each instance. Nobody is obliged to call an
operation: the owner may stay idle no longer than it has a step to take, but a
reader or writer of `StarveFreeLock` that is idle may stay so. Spurious wakeups,
kills, lost or repeated acknowledgements and calls of users are never fair.
`RWSemaphore` uses strong fairness for `sem_wait`: the kernel wakes the
waiters of a semaphore that is posted again and again. Callbacks are assumed to
return, except the ones that block on the listener.
`PthreadRWLock` uses strong fairness for a thread that the lock admits again and
again, which is what the futexes of a shared lock give; weak fairness for the
steps of a process and its loop, none for starts, stops and kills. In
`SystemPrograms` only the handshake's server, each of its clients and the version
query are scheduled (weakly fair); the world around the other programs is free
to stand still. The fairness of the listener and of its two locks is stated in
`MCThreads`, for each in the behaviours of its own program. `PromiseMap` has safety
properties only and assumes no fairness.

### Findings

1. The destructor of `thread_pool` sets `is_active` and notifies without
   `guard` (lines 31-32). A worker that has evaluated the predicate of line 54
   to false and has not yet gone to sleep misses the notification, and `join`
   waits for ever. `DestructorReturnsOutsideWindow` shows that this window is the
   only obstacle.
2. `MountMonitor` hands out the index of an entry (lines 41, 52) and later erases
   entries before it (lines 98, 124): `Cancel` with that index then silences a
   different callback or none. `HandlesValidUntilErase` shows that until the
   first erase handles are good.
3. The server of the handshake takes a `*` as the sign that another process "has
   read what we put there" (`shm_server.cpp`, lines 45-46). A client that read the
   segment before the server wrote it may mark it afterwards, and the server
   returns though nobody has read anything (`ReturnsWhenRead`).
   `PollingServerReturns` is what holds: a client that starts to read while the
   server polls makes it return.
4. The comment of `GetRunningVersion` (lines 8-10) gives 0x0002010a for
   0.2.1-rc.16; the code returns 0x00020110, the number 16 as it is
   (`ReturnsDocumentedNumber`). `PrintsListedVersion` is what holds: every number
   is in its place if it and those after it fit into a byte. A number that does
   not spoils the fields before its own (line 49).
5. The sweep takes a segment's first point for its left end (lines 73-74). For a
   segment that runs downwards the RIGHT event comes first, and crossings with
   segments that ended further down are missed: the program calls the polygon
   (0,0), (0,1), (1,1), (1,2) "not self-intersecting" (line 107), though its
   closing segment crosses the level one (`SimpleHasNoCrossing`). `VerdictIsExact`
   shows that these crossings (`LeftBehind`) are all that is missed, and that none
   is invented.

More observations, which no comment or test contradicts: `StarveFreeLock`
lets readers starve while writers keep coming, as each `unlock()` with a waiting
writer notifies a writer only; and a callback of `MidListener` that uses the
listener blocks for ever (`ReentrantCallbackHangs`). The storage watcher can
mount a device twice when it comes between the watch and the test and is replaced
before its creation is handled; one of the mounts then outlives the device, which
is why `AbsentIsUnmounted` excepts this case (`early`). The address monitor never
shows a change between its first print and its subscription, nor a deleted
address (`missed` in `ShownIsCurrent`). `GetRunningVersion` makes a new stream at
each turn of its loop and reads its first line again: it returns on the first line
or never (`ReturnsOnFirstLineOnly`). The client of the heartbeat looks
neither at the checksum nor at the length of what it receives. `Receive` holds an
iterator and then a pointer without protection: after a timeout, or with a
repeated acknowledgement or shared keys, it may use a freed node or a promise that
is gone, and then satisfy the promise of another request, which returns an answer
that is not its own. `ResponseMatchesRequest` without its condition is violated in
this way; the comments of the file promise nothing about it. With a segment that
nobody has initialised the pthread programs exclude, but a thread of one process
may sleep for ever after a thread of another has released the lock.

## 4. What is proved

Every theorem holds for all values of the constants that satisfy the named
assumptions of its module (finite sets of threads, disjoint roles, null values
outside the sets).

Besides the properties of the runs, theorems say of the locks, the pool and the
mediator that they do not deadlock. ENABLED is out of the prover's reach, so each
of these modules writes out when a thread can go on (`Unblocked`, from the guards
of its actions; TLC found it equal to ENABLED on small instances) and
the theorem says that somebody can. Others are safety parts of what the runs check
as liveness, for any values of the constants: nobody overtakes a waiting writer,
a waiting requester is in the map, a mark is not overwritten. They are marked
with a star below: no run has them. The run Threads checks the properties of
the locks under `MCThreads`' names for them, each of which is that of the lock's own
module (`Lock!...`, `Semaphores!...`), about which the theorems are.

**`ThreadPoolProofs`**, for any number of workers and jobs: `TypeCorrect`,
`PopsAreSafe`, `Fifo`, `NoLostWakeupWhileActive`, `DestructionIsQuiescent`, and
`PoolImplementsExecutor`. None of the properties is inductive. `IInv` adds who
holds `guard` at which label (`GuardInv`), what a worker that holds it knows of
the deque (`DequeInv`: empty before it blocks, predicate true when it wakes,
non-empty and active when it takes), when a worker has a job and a poster an
argument, that popped jobs are running or have run (`TakenInv`), and what the
owner has achieved. The wakeup property rests on a lemma on cardinalities: a push
adds one job and one worker on its way, or finds nobody asleep.
`FifoConservation` rests on two lemmas about `\o`.
`PoolIsStuckOnlyInJoin`\* says for a pool with a worker that its threads never all
wait, with the one exception that the finding on the destructor shows: a join of
a worker that went to sleep between predicate and wait, when `is_active` was
cleared without the mutex. `DestructorIsNotStuck`\* shows that there is no other
way: if no worker is in that window when the destructor joins, none will be, and
somebody can go on until it returns. They need that the owner awaits only jobs it
posted and that a worker leaves `run()` only in the destructor (`LeaveInv`). The
pool of `main()` has two workers, a default one has one; a pool without workers,
which the constructor accepts, runs nothing.

**`StarveFreeLockProofs`**, for any number of readers and writers:
`CountsAreExact`, `NoLostWriterWakeup`, `NoLostReaderWakeup` and
`LockImplementsRWLock`. `IInv` is `TypeOK`, `CountsExact`, `Exclusive` (a writer
that holds the lock is alone) and the two wakeup properties: each needs the
counters to be exact, for the notifications are decided by them. From them follow
`LockNeverDeadlocks`\* (who sleeps waits for a thread that is awake in the lock)
and `NoReaderOvertakes`\* (no thread becomes a reader while a writer waits, which is
why the lock starves readers and not writers).

**`ReadersWritersProofs`**, first part, the semaphore programs, for any number of
threads and runs: `TypeCorrect`, `PermitsAreConserved`, `NobodyOvertakes` and
`SemaphoresImplementRWLock`. A run may find the segment as killed runs left it,
so the invariant has two parts. `AnySegment` holds of every segment: the permit of
a semaphore and its holders in this run add up to at most one, and the readers
counted in are at most `read_count`. This is enough for exclusion and for the
order at `in`. `CleanSegment` holds of a segment that this run initialised: they
add up to exactly one, where the readers that are in count as one holder of `wrt`,
and `read_count` is the number of readers counted in. `SemaphoresNeverDeadlock`\*
follows from the second part: if all threads waited, each semaphore in turn, `wrt`,
`mx` and `in`, would have nobody to hold it and so be free.

Second part, the pthread programs, for any number of processes and threads:
`PthreadTypeCorrect`\*, `PthreadLockImplementsRWLock`, `NoLostWakeupAcrossProcesses`\*
and `NoReaderOvertakesAcrossProcesses`\*. The invariant (`PthreadInv`) is layered by
what has happened to the lock: until it is misused it never counts fewer holders
than it has (`HolderInv`), which is enough for exclusion; until a process is
killed inside it, it counts no others (`ExactInv`); and once it was initialised
it is shared, and whoever sleeps in it sleeps for a reason (`SleepInv`). The last
two together give the wakeup theorem: the reason is a holder, who will wake
everybody up. The refinement needed `Abandon` of `RWLock` to let some of the
holders go and not all of them at once: when one process is killed its readers are
gone, and the readers of another process still read.

**`UpdateMediatorProofs`**, for any devices, tasks and dependencies, cyclic or
not: `TypeCorrect`, `DependenciesComeFirst`, `UpdatesAreUnique` and `AllUpdated`.
The invariant says of a task's stack that it is a path along dependencies whose
devices the task holds, once each, and nobody has updated (`StackInv`,
`PathInv`); of a call's loop that the dependencies behind it are settled
(`LoopInv`); and of a task that has returned that its device is updated.
`AcyclicUpdatesNeverDeadlock`\*: if the dependencies have no cycle, the tasks of
`UpdateAll` never all wait, although each holds the mutexes of a whole path. Among
the devices whose mutexes are held there is one that depends on none of the
others; its owner has either locked a dependency of it since (`PathInv`) or waits
for the mutex of one, and both are excluded. It needs that a spawned task is on
its way or has returned (`SpawnedTasksRun`).

**`MountMonitorProofs`**, for any registrations and changes: `TypeCorrect`,
`ListsAreConstructed`, `EdgesAlternate` and `HandlesDenoteTheirCallbacks`. The
invariant says that nothing is there to report while the object is under
construction (`ConstructionInv`), that the parity of the number of batches is
the state reported last (`BatchInv`), and that an entry of a list is a token
registered in it (`EntriesInv`). Two lemmas say what the removal of nulls does: it
leaves entries of the list, and leaves a list without nulls as it is. They are why
`WithoutNulls` is defined by the places entries move to and not with
`SelectSeq`, which the provers cannot reason about. `RemovalHasOneResult`\* is what
that definition owes: for every list there is exactly one result, because the
places number the entries kept, in order and without a gap (`PlacesAreInOrder`);
so `Launch` always can be taken, and chooses nothing. `MonitorKnowsWhatItReported`\*
is the safety part of `EventuallyReported`: at every poll `last_mounted_state` is
the state of the last batch. `NothingUsesAGoneObject`\*: after the destructor has
returned no step of the thread, of a callback or of a user is possible.

**`MidListenerProofs`**, for any clients, entries and messages:
`CancellationIsQuiet`, `SerialCallbacks`, `RangeIsServed` and `ReentranceHangs`.
The invariant: whoever iterates or waits holds `mutex_`, and as long as it does
the entries served and the entries to serve are together the range of the
message. `ServedOnce`\* adds that they are disjoint, so that each entry of the range
is executed exactly once. `ReentranceStopsTheListener`\* says how much
`ReentrantCallbackHangs` costs: from then on `mutex_` is held and no step of any
client, executor or Notify is possible.

**`PromiseMapProofs`**, for any requests, keys and copies: `PointersAreLive`,
`ResponsesMatch`, `SatisfiedTwiceOnlyIfRepeated` and `PointerUntilTimeout`.
The invariant ties the life of a promise to the step its requester is at
(`LifeInv`), says that promises that live at the same time lie in different places
(`PlaceInv`), that an entry of the map is a node of its own and belongs to a request
of its key that waits or is about to erase (`MapInv`), and that the iterator of
`Receive` is that entry's unless a request with the key has erased it
(`ReceiveInv`). It counts the copies of an acknowledgement: those under way, the one
`Receive` holds, and the one that has answered a request (`CopiesInv`). What is said
of answers and copies holds until the first use of something dangling (`Sound`), and
`DanglingHasCause`\* says when that can come: only if a request has timed out or
more than one acknowledgement of a key was sent. Two theorems are about
keys that are unique, as the code intends them (`UniqueKeys`, a condition on the
state that many initial states satisfy): the entry of a request stays from its
insert to its own erase (`EntriesStay`\*), and an acknowledgement that is received
while its requester waits is matched with it (`AcknowledgementsAreMatched`\*).
Without the condition both are false: a request may erase the entry of another.

**`SystemProgramsProofs`**, for all bounds of the seven programs: `TypeCorrect`,
and the eight invariants of the run.

- Storage watcher (`PresentDeviceIsMounted`, `AbsentDeviceIsUnmounted`): the events
  read and the events in the queue are one sequence; creations and deletions
  alternate in it, the last one tells whether a device is present, and the first
  one what is mounted (`DeviceInv`, `MountInv`, `UnmountInv`). Three lemmas on
  sequences say how these change when an event is appended and when the first is
  taken off.
- Address monitor (`PrintedIsCurrent`): what was printed is current or a relevant
  notification waits (`FreshInv`).
- Interface dump (`DumpListsWhatIsStable`): an interface that was there all the
  time is listed, or the dump has still to visit it; so are its addresses, or its
  entry is full (`DumpInv`).
- Handshake (`ClientPrintsPrefix`): an address of the segment holds its own letter
  or a NUL, the first one perhaps the mark, and the last one always the NUL
  (`MemoryInv`), and a byte that is not NUL when it is tested is none when it is
  printed (`PutInv`); so a client that reads upwards prints letters in order and stops
  inside the segment. The safety part of `PollingServerReturns`: a mark stays until
  the polling server has seen it (`MarkIsNotLost`\*).
- Heartbeat (`SocketIsOwned`): its property is inductive.
- Version query (`PrintedVersionIsListed`): a lemma computes the bytes of the word
  that the shifts and ors make. The second half of `ReturnsOnFirstLineOnly`, that a
  loop which begins with another line never ends, is `HiddenVersionIsNeverFound`\*.
- Polygon sweep (`SweepIsExact`), for every polygon with integer coordinates, of
  any number of corners. One lemma, by Cramer's rule, shows that the code's test
  of orientations decides the definition of a crossing, as polynomial identities;
  the invariant says that what was passed and is not active lies below the next
  event, so that two segments neither of which the other leaves behind are
  compared (`SweepInv`).

Only model-checked is all liveness: `NotifyEnds`, `EventuallyReported`,
`ReadersReadOnceWritersStop`, `EveryWriterWrites`, `EveryReaderReads`,
`WaitingWriterWrites`, `StoppedProcessesReturn`, `PostedJobsRun`,
`DestructorReturnsOutsideWindow`, `AcyclicUpdatesReturn`, `PollingServerReturns`,
and the first half of `ReturnsOnFirstLineOnly`.
It rests on fairness and so on ENABLED, for which the prover has no rule. No theorem
is about recursively defined data. The properties a run expects to be violated have
no theorem.

## 5. What is not modelled, and the plan

The plan followed how much state and concurrency a component has: first the
thread pool and the locks, then the other concurrent classes with their
proofs, then the programs that stand alone, composed in `SystemPrograms`, then
the pure algorithms that have a definition to be compared with.

Not modelled, and why:

- **SCTP client and server**: one connection at a time, one send and one receive;
  there is no state between them.
- **Observer and mediator patterns, heap, lottery, counters, OpenMP
  decomposition**: sequential calls on containers, or threads that touch disjoint
  data or one atomic: what could go wrong is in the library, and a test reaches
  the rest.
- **Language, I/O and library demos**: no state that evolves; calls into the
  operating system, archives, images.
- **Frames and tiles**: floating-point geometry. `frame` rests on a vendored copy of
  Eigen, which is third-party code and nineteen twentieths of the lines of this
  repository; none of it is modelled.
- **Inside modelled programs**: data races on `is_running` and on the map of
  promises (a torn tree has no outcomes one could enumerate); the second
  cancellation of an iterator of `MidListener` (undefined); interfaces beyond the
  128 of the array of `InterfaceDump` and hardware addresses; the overflow of the
  inotify queue; the contents of the heartbeat's datagrams; two processes at once on the
  semaphore segment, which `PthreadRWLock` shows for the pthread segment.

What could come next: two processes on the semaphore segment; for the pthread lock,
what a killed process that waited may leave behind, by the cases of the C library.
