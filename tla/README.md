# TLA+ models of the system-programming assignments

The repository is a collection of C programs and libraries, one directory each.
They are independent programs, but a few of them build on each other: the
password crackers use the queue and the barrier of `critical_concurrency`, and
several use a graph, set, dictionary or priority queue whose code is not in the
repository. This directory models the ones whose correctness depends on the
order in which things happen, checks the models with TLC on small instances, and
proves the central properties of most of them with TLAPS for all instances: the
queue, the deadlock resistant mutex, the barrier and the semamore, parallel make,
both password crackers, the scheduler, the file server, the chat server, the
shell, the map-reduce driver, the memory unit, `dd` and the memory checker.

Contents: [inventory](#inventory), [modules and code](#modules-and-code),
[runs](#runs), [fairness](#fairness), [proofs](#proofs),
[where code and comments disagree](#where-code-and-comments-disagree),
[not modelled](#not-modelled), [plan](#plan).

## Inventory

| Component | State | Operations | What is hard about it | What makes it correct |
|---|---|---|---|---|
| thread-safe queue, `critical_concurrency/queue.c` | linked list, `size`, `max_size`, mutex `m`, condition variable `cv` | `queue_create`, `queue_push`, `queue_pull`, `queue_destroy` | pushers and pullers sleep on one `cv`; `tail` dangles when the queue runs empty; `malloc` may fail | it is a bounded FIFO; nobody sleeps on a condition that holds |
| barrier, `critical_concurrency/barrier.c` | `count`, `times_used`, mutex, condition variable | `barrier_init`, `barrier_wait`, `barrier_destroy` | reuse in the next round by fast threads while slow ones wake; `times_used` read after the unlock and wrapping | rounds stay together, nobody is left behind |
| semamore, `critical_concurrency/semamore.c` | `value`, `max_val`, mutex, condition variable | `semm_init`, `semm_wait`, `semm_post`, `semm_destroy` | waiters and posters share one condition variable | value in range, nobody stranded |
| deadlock resistant mutex, `deadlock_demolition/libdrm.c` | one mutex per drm, the resource allocation graph `g`, its mutex `global` | `drm_init`, `drm_wait`, `drm_post`, `drm_destroy` | `global` is released while a thread blocks on the drm, so `g` lags behind the mutexes; `g` is created without a lock; `malloc` fails, and two returns leave `global` locked | no circular wait; a request is refused exactly when it would close one |
| parallel make, `parallel_make/parmake.c` | `topo_order`, rule states, file times, two mutexes, `cv_1` | cycle search, worker loop, `get_target_status` | list scanned by index while it shrinks; `cv_1` waited on under one mutex and broadcast under another; states read again after an unlock | each rule has one worker, runs after its dependencies, and is settled in the end |
| password cracker 1, `password_cracker/cracker1.c` | task queue, counters | main reads tasks, workers pull and crack | one `NULL` must end all workers | every task has one result, all threads end |
| password cracker 2, `password_cracker/cracker2.c` | the current user's line, `answer`, `working`, two barriers | main hands out one user at a time, workers share it | `answer` shared without lock; termination through the barriers | the summary belongs to the user it names; all workers are joined |
| chat server, `charming_chatroom/server.c` | `clients[]`, `clientsCount`, descriptors, `mutex`, `endSession` | `run_server`, `process_client`, `write_to_clients`, `close_server` | a thread per client, clients that leave or stop reading during a broadcast, descriptor reuse, SIGINT and SIGPIPE | frames whole, once, in one order; broadcasts end |
| scheduler, `savvy_scheduler/libscheduler.c` | priority queue, per job times, totals | the six `scheduler_*` callbacks | the queue keeps the place a job had when it was offered, while keys change; a job that arrives takes the head from the one that runs | the scheme's choice, no job lost, exact statistics |
| heap allocator, `malloc/alloc.c` | block headers, free lists by size class, `brk` | `malloc`, `calloc`, `realloc`, `free` | splitting, merging and sbrk in long sequences | blocks tile the heap, callers' blocks are apart, nothing leaks |
| file server and client, `nonstop_networking` | connections with parsed requests, `fileList`, directory; the client's progress | epoll loop, GET, PUT, DELETE, LIST; SIGINT | requests interleave between events; peers die or stop half way | a download is one whole upload; the list agrees with the directory; everyone is answered |
| shell, `shell/shell.c` | process table `processes`, history `cmd_his`, `bg` | command loop, built-in commands, `external`, SIGCHLD handler, `shell_exit` | the handler interrupts the main thread anywhere and may reap a foreground child first; pids are used again; `fork` fails | the table follows the living children; exit kills the right ones; every command ends |
| memory unit, `ideal_indirection/mmu.c` | page directories, current pid, TLB, counters | read, write, add, remove, delete | pages are evicted behind a TLB entry; frames and pids change hands | every process has a private memory; nothing stale, nothing leaked |
| map-reduce driver, `mapreduce/mapreduce.c` | pipes, children | fork splitters, mappers, reducer; wait | children inherit each other's write ends; programs that cannot be executed | the driver ends, and only when the output is whole |
| minix file system, `finding_filesystems/minixfs.c` | inodes, data blocks | `chmod`, `chown`, creation of files; read and write | the step from direct to indirect blocks | every entry can be reached |
| vector, `vector/vector.c` | array of pointers, `size`, `capacity` | resize, reserve, set, push, pop, insert, erase, clear | unsigned loops; copies and destructors | it is a sequence |
| memory checker, `mini_memcheck/mini_memcheck.c` | list of blocks, two totals, a count | malloc, calloc, realloc, free | wrong addresses; `realloc` that moves a block | the books agree with what the caller did |
| parallel reduce, `teaching_threads/par_reduce.c` | runs, threads, results | cut, create, join, reduce | remainders; more threads than elements | the result is that of the sequential reduction |
| dd, `deepfried_dd/dd.c` | positions, counters, `flag` | copy loop, SIGUSR1 | short blocks and limits together; signals at any time | what was asked for is copied and counted |
| chat client, `charming_chatroom/client.c` | two threads, socket | read from and write to the server, SIGINT | threads blocked in reads when SIGINT comes; a server that goes away | it ends |
| rendezvous, sstring, env, time, lookup, camelCaser, perilous pointers | | | see [not modelled](#not-modelled) | |

Interaction: `cracker1` calls `queue_push`/`queue_pull`; `cracker2` calls
`barrier_wait`; both models use the abstract behaviour that the queue and
barrier models establish (an item is pulled once and in order; a round of the
barrier ends when all are in it). `drm_wait` and `parmake` call depth-first
searches, which `GraphSearch` checks against the set-theoretic definition the
two concurrent models use. The memory unit, a part of which is the kernel, is
modelled together with it. The file server and its client talk through sockets,
the chat server and its clients too.

## Modules and code

Modules are named for the component, definitions for the C function they model;
`PROJECT.json` gives the lines. Names that begin with `Mut` are variants that a
plausible slip in the code would produce; no specification uses them, they show
that the property they are listed with is able to fail.

- **`Queue`** – one step per critical section, with entering the mutex,
  blocking in `pthread_cond_wait` and waking (also without a signal) as steps of
  their own. Nodes are addresses that `malloc` may hand out again after `free`,
  and their fields survive `free`, so that the dangling `tail` is really there.
  `order`, the nodes in push order, is a ghost variable. `queue_push_nomem` is
  the early return on a failed `malloc`: the item is dropped silently.
- **`BoundedFifo`** – what the queue promises: offer, put, get, discard on a
  sequence. `Queue!IsFifo` maps the list of nodes to the sequence of their data.
- **`Barrier`**, **`Semamore`** – the same granularity as `Queue`. In `Barrier`
  the read of `times_used` after the unlock is a step of its own; the counter
  wraps at `Modulus`, so that a slow waker can meet an equal number.
  **`Sync`** composes them: a behaviour uses one or the other.
- **`Drm`** – `drm_init` is the test of `g`, its creation, `malloc`, which may fail,
  and the vertex; only the last is under `global`. Because the creation is not, it
  can land between any two looks that `drm_wait` takes at `g`, so its first section
  is a step for each of them: the vertex of the drm, that of the thread, the test of
  the owner, the edge, the search. `global` is a variable because two early returns
  of `drm_wait`, for NULL and for what is no vertex, leave it locked. An edge to
  something that is no vertex, which only a lost graph has, may or may not be kept by
  the graph library. `overlap` is a ghost variable: two calls of `drm_init` have
  both found `g` to be NULL. `Exit` and `drm_destroy` model callers that release
  what they hold and destroy when all have left, as `libdrm_tester.c` does.
- **`GraphSearch`** – the recursive searches of `libdrm.c` and `parmake.c` on
  every graph of the bound, against reachability.
- **`ParMake`** – the workers: lock, scan of `topo_order` with the dependency
  loop, the second read of the dependency's state (`Reread`), commands, report
  and broadcast, sleep and wake. A rule's `fate` is history: how it was settled; so is
  `seen`, how many dependencies a worker looked at for the rule it took.
  File times are natural numbers, 0 for no file.
- **`Cracker1`**, **`Cracker2`** – the crackers over an abstract queue and
  barrier; hashing is a set of answers. **`Crackers`** has an instance of each.
- **`ChatServer`** – main's accept loop and admission, one thread per client
  with the read of a message, lock, two writes per receiver, close and
  removal; a client in the backlog of `listen` shows only when `accept` takes it; the
  kernel's lowest-free-descriptor rule, by which a number can come back
  while a slot still holds it; `fate` says whether the process is alive, was killed
  by SIGPIPE, or has left C's defined behaviour at `clients[-1]`. A client may leave
  between two messages or inside one, and may stop reading (`Stall`), whereupon a
  write to it waits, with `mutex`, until it reads again (`Resume`). `reused` is
  history: the clients whose descriptor had a number that was still in a slot.
- **`Scheduler`** – the callbacks of the library, and the caller that makes
  them (`dispatch`, `Run`, `Idle`: external, from the tests and the callbacks'
  parameters). Jobs arrive at any time. The priority queue is a sequence with the
  library's insertion: keys are compared when a job is offered. Quantum end and job
  end take the head of the queue for the job that ran, as the code does; a job that
  is done while another is at the head leaves the queue pointing to it
  (`dangling`), where the model stops. What the properties compare with is history:
  the quanta each job was given, its waiting times, when it last ran, and whether
  the head was ever taken from a job that ran (`overtaken`).
- **`Malloc`** – the heap as a record of headers, list heads and `brk`; a call
  is a step. Sizes are units, `size_t` counts modulo `SizeMod`, `sbrk` fails at
  `HeapLimit`. `wrapped` and `outgrown` are history: the blocks for which `calloc`
  multiplied wrongly, and whether `block_coalescing` let a block that stays in its
  list outgrow the class of the list. What follows that depends on bytes that are the
  callers', and the model stops there.
- **`FileServer`** – the epoll loop takes one ready connection at a time
  (`Event`), with the states of a connection as in the code; PUT reads its body
  to the end before it looks at anything else, as the code does. Clients are
  processes that run `client.c`; one may be killed (`MayDie`), one may have no
  local file to upload (`NoFile`); `fopen` may fail. What the client's uninitialised `file_size`
  holds is a choice over `Garbage`.

- **`Shell`** – the main thread with its points of interruption, the handler as
  two steps (the signal is taken, one child is reaped), children that run, stop,
  end and become zombies, and two pids that are used again. A command is told
  apart by what `classify` makes of it; the operators `&&`, `||` and `;` are
  called `and`, `or` and `then`. `shot` and `stale` are history: whom `shell_exit`
  sent SIGKILL to, and whose entry wrongly says RUNNING. `leader` says whether the
  shell leads its process group, which decides whether `shell_exit` kills the
  shell itself first.
- **`MapReduce`** – which process has which pipe end open; pipes of a bounded
  capacity; any set of programs may fail to execute (`broken`).
- **`ChatClient`** – main, the two threads and the handler; every read and write
  is a cancellation point.
- **`Mmu`** – the operations of `mmu.c` and the kernel they call: frames, eviction
  of any page, swap files. Every frame can be looked at as a directory, a page
  table or a page, so a pointer that outlives its frame shows. The address space
  is two page tables of the segments TESTING, DATA and TEXT. **`PrivateMemory`**
  is what they promise together, the target of the refinement `IsPrivateMemory`: an
  answer names the process that asked and the page it asked for.
- **`Vector`** – slots, and elements that are constructed and destroyed;
  **`List`** is the sequence it implements (`IsList`).
- **`Memcheck`** – the list and the counters, and beside them what a caller holds
  and which of its calls were mistakes.
- **`Reduce`** – the cut, the threads and the joins, with concatenation as the
  reducer: it is associative and not commutative.
- **`Dd`** – the copy loop over distinguishable bytes, for all options of the
  bound. A seek in the output only moves the position; the first write fills the gap.
- **`MiniFs`** – the inode of one directory and the creation of files in it.
- **`MCPrograms`** and **`MCLibrary`** – each behaviour runs one of several
  components, chosen in the initial state, while the others rest: the programs
  of several threads or processes, and the libraries with one caller.
  `MCQueue`, `MCSync`, `MCParMake` and `MCFileServer` only give the constants of
  the modules they extend; the other configurations are for the modules themselves.
- **`Processes`** (`Shell` and `MapReduce`), **`Library`** (`Malloc`, `Memcheck` and
  `Dd`) and **`Mutexes`** (`Drm`) put components side by side, each with variables
  of its own, and name their properties, as `Crackers` does: the runs and the proofs
  extend the same ones.
- **`Queue_proofs`**, **`Threads_proofs`** (of `Sync` and `Crackers`),
  **`ParMake_proofs`**, **`Scheduler_proofs`** (of `Scheduler`, `Shell` and
  `MapReduce`), **`FileServer_proofs`** (of `FileServer` and `Malloc`),
  **`ChatServer_proofs`**, **`Library_proofs`** (of `Mmu`, `Drm`, `Dd` and
  `Memcheck`) – the theorems; **`SequenceLemmas`** has the lemmas on sequences,
  sums and folds that several of them cite.

Abstractions that all models share: text, formatting and output are left out;
payloads are model values; library calls that the programs do not check for
failure succeed.

## Runs

Every run has a configuration of the same name. "States" are distinct states.

| Run | Instance | States | Shows |
|---|---|---|---|
| `queue` | 4 threads of unequal appetite, capacity 2, 3 node addresses, `malloc` may fail | 488 000 | the list is sound, the queue implements the FIFO, nobody is stranded, all end unless an item was dropped |
| `sync` | 4 threads; 3 barrier rounds with a counter modulo 2; a semamore with ceiling 1 | 10 600 | rounds together, value in range, nobody stranded, all end |
| `drm` | 3 threads, 2 drms, initialised in any order, `malloc` may fail | 111 000 | until `drm_init` calls overlap: graph accurate, no circular wait, refusals exact, every wait returns unless `global` was left locked |
| `parmake` | 4 rules, two of which share a dependency, 3 workers, 3 file systems, two rules may fail | 589 000 | one owner, dependencies that were looked at first, halted is up to date, all settled |
| `parmake_reread` | one rule with two dependencies, 2 workers | – | counterexample, see below |
| `programs` | scheduler: 3 jobs of length 2, 2, 1, six schemes, arrivals at any time; crackers: 3 workers, 4 tasks and 3 users; shell: 3 lines, 2 pids; map-reduce: 2 mappers, pipes of one unit; chat client: 3 lines, 2 messages | 338 000 | jobs, lines, children and output accounted for; right choices; everything ends |
| `library` | allocator: 2 size classes, 12 units, `size_t` modulo 13; memory checker: 4 blocks; memory unit: 2 processes, 5 frames, TLB of 2, 6 calls; vector of 3; reduce: 5 elements, 4 threads; all graphs over 4 vertices; dd: 5 bytes | 341 000 | structures sound, promises kept, results exact |
| `chat` | 3 clients, 2 slots, 2 senders of one message, one may leave, one may stop reading, SIGINT | 504 000 | frames whole, once, one order; slots, descriptors and count agree; broadcasts end |
| `chat_reuse` | 3 clients, 3 slots, one leaves and one comes late | – | counterexample, see below |
| `chat_limit` | 3 clients, `MAX_CLIENTS` 2 | – | counterexample, see below |
| `file_server` | 3 clients on one file, one may be killed, one without file, SIGINT, `fopen` may fail | 427 000 | whole downloads, list agrees, OK means done, everyone answered |
| `minifs` | 2 direct and 2 indirect blocks of 2 entries | – | counterexample, see below |

Why the bounds are enough to be interesting:

- *queue*: four threads are the least with a pusher and two pullers asleep at
  once while a fourth acts; three addresses for two places make `malloc` reuse a
  freed node that `tail` still points to.
- *sync*: with a modulus of 2 the counter has the same value two rounds later,
  the case in which a slow waker could be confused. A ceiling of 1 makes posters
  and waiters sleep at the same time.
- *drm*: two drms and three threads give circular waits of two threads with a
  third that owns neither, a second `drm_init` in the middle of every `drm_wait` on
  the first drm, and one that fails. The theorems cover every number.
- *parmake*: three workers on `a` that needs `b` and `d`, which both need `c`: one
  asleep, one about to sleep and one that broadcasts, two dependencies of one rule
  and one dependency of two; a rule in the middle and the leaf may fail. The file
  systems have no file, the leaf only, or files of `b` and `d` newer and older than
  the leaf.
- *chat*: of three clients for two slots one comes when a slot, and with it a
  descriptor, has been used before, or finds no slot; one leaves and one stops
  reading at every point. Two clients send, so that one broadcast waits for
  another that waits for a client.
- *scheduler*: equal and different lengths and priorities, so that ties are
  broken by arrival; a job of a single quantum; every job can arrive at every
  point, so that it preempts, takes the head from the one that runs, or is lost.
- *malloc*: twelve units are the largest block and a header less than the heap:
  splits, merges on both sides, merges after `sbrk` and a failing `sbrk` all
  occur. Merged blocks stay in the upper class or outgrow it, and the product
  of `calloc` wraps for the largest size.
- *shell*: two pids and three lines give a background child beside a foreground
  one, a pid that is used again, and two children that end with one signal.
- *map-reduce*: the second splitter has more than its pipe holds, so writers
  block, and readers depend on ends that others inherited.
- *memory unit*: five frames for two processes of four at least: every second
  access evicts a page, page tables go back and come again, and the TLB is
  smaller than the working set. Six calls reach a page written, evicted, read
  back through a TLB hit, and after a removal.
- *vector*: six elements for three slots, so that destroyed elements come back;
  *reduce*: fewer, as many and more elements than threads; *dd*: inputs that are
  shorter than, equal to and longer than every limit.
- *file_server*: one client always uploads, so that the others' GET and DELETE
  meet a file that is there, not yet there, being written, and gone.

Deadlock is checked in `sync` and `file_server`. In the others the system may
stop: queue threads wait for ever for an item that a failed `malloc` dropped; drm
callers may find `global` locked for good; parmake's workers, the
programs and the chat server come to their end; libraries are called a bounded
number of times.

## Fairness

- Threads: weak fairness for a step that nothing can disable (a thread inside
  its critical section, a worker running a command), since the kernel schedules
  every runnable thread; strong fairness for acquiring a mutex, because a mutex
  that is free again and again but taken by others in between is not
  continuously available. pthread mutexes do not promise this in the standard;
  glibc's futex hand-over makes starvation practically impossible, and every
  program here depends on it.
- Spurious wake-ups are possible and never assumed to happen.
- `Drm`: a caller that owns a drm and is not inside `drm_wait` posts it in the
  end. This is an assumption on the callers: `WaitReturns` is false of callers
  that keep a drm. A thread inside `drm_wait` gets a mutex that is free again and
  again.
- `Scheduler`: time passes and the library makes its calls; nobody has to create
  jobs. `ChatServer`: nothing makes clients connect, send or read; a thread gets
  `mutex`, and a write goes through, if the one is free and the other's client reads
  again and again. `EveryMessageBroadcast` says in its own premise that nobody stops
  reading for good.
- `Shell`: the main thread, the handler and the children are scheduled, and programs
  that are not stopped end. `MapReduce`: every process is scheduled; programs read
  to the end of their input. `ChatClient`: threads act on a cancellation and on
  what they can read; the user need not type.
- `FileServer`: the server takes the ready connections that `epoll_wait` reports
  in turn; clients run on.

Liveness is checked by TLC only.

## Proofs

Every theorem is about the specification that the runs check, for all values of
the constants that satisfy the named `ASSUME`s:

| Module | Assumed of the constants |
|---|---|
| `Queue`, `Drm` | NULL is no thread, node, datum or drm; threads and drms are different; `MaxSize` is an integer; programs are sequences of pushes and pulls. Nothing is finite |
| `Barrier`, `Semamore` | a finite set of threads, at least one; a counter modulo 2 at least, as `unsigned` is; an initial value between 0 and the ceiling |
| `ParMake` | finitely many targets, any of which may fail; dependencies are sequences of targets; NULL is none of them |
| `Cracker1`, `Cracker2` | the lines of the input are told apart, even if their text is equal; NULL is none of them; the first cracker is given one worker at least; secrets are positions in the workers' ranges. The number of workers, lines, users and candidates is arbitrary |
| `Scheduler` | finitely many jobs, of length one at least. They arrive at any time, under every scheme |
| `Shell` | pids are positive and none is the shell's; `kill`, `stop` and `cont` name a pid that a child may have, not the shell itself or a stranger. Lines and their number are arbitrary |
| `MapReduce` | one mapper at least, pipes of one unit at least; the shares are arbitrary |
| `Mmu` | finitely many processes, a TLB of one entry at least; values are numbers and 0 is one of them; `NULL` and `SegFault` are none. Any number of frames |
| `Dd` | bounds on lengths, block sizes and signals, which are arbitrary |
| `Memcheck` | sizes are positive; bounds on blocks, bytes and mistakes, which are arbitrary |
| `Malloc` | the bounds of the classes increase; a header is not empty; `size_t` can count the heap; NULL is no address. Sizes asked for, `SPLIT`, `SEARCH`, `FREE` and `DefragLimit` are arbitrary. |
| `FileServer` | what the verbs are; NULL is no client, number or reply. Clients, files and their lengths are arbitrary |
| `ChatServer` | finitely many clients, which join, leave and stop reading at any time; one slot at least; NULL is no client and no message |

The proofs state each inductive invariant as a conjunction of named parts, which
TLC checked on the instances of the runs first. What each theorem says:

| Theorem | For every instance |
|---|---|
| `TypeCorrect`, `ListIsSound`, `NeverOverfull`, `NobodyStranded`, `QueueIsFifo` | the queue's list is sound, bounded, nobody sleeps in vain, and it implements the bounded FIFO |
| `DrmTypeCorrect`, `GraphIsAccurate`, `NoDeadlock`, `ExactRefusal` | until two `drm_init` calls overlap, the drm's graph is accurate, there is no circular wait, and requests are refused exactly when they would close one |
| `BarrierRounds`, `SyncRounds`, `SyncNobodyStranded` | rounds stay together, nobody sleeps in an open barrier or a semamore that has room |
| `ParMakeOneOwner`, `ParMakeHalted`, `ParMakeOrder` | a rule has one worker; what runs comes after the dependencies its worker looked at; what is skipped is up to date, for the makefiles named below |
| `Cracker1Correct`, `Cracker2Correct` | no line is lost or counted wrongly; a summary is right and about its user |
| `SchedulerNoJobLost`, `SchedulerChoosesRight`, `SchedulerStatsExact` | no job is lost until one is done that is not at the head of the queue; each scheme chooses as it says, jobs that arrive during a run included; the statistics are exact |
| `TableKeepsUp`, `ExitStaysClean` | at every prompt the process table has the living children, once each; `shell_exit` kills those without a group of their own and, but for entries that are out of date, nobody else |
| `OutputStaysWhole` | when the map-reduce driver is done, the reducer has read every unit that could reach it, once |
| `TablesStaySound`, `MmuImplementsPrivateMemory` | no stale pointer, no frame used twice or lost; every process has a private memory, and its answers are about the page it named |
| `CopyStaysWhole` | `dd` copies what was asked for, and its reports are right |
| `BooksStayBalanced` | the list of `mini_memcheck`, its totals and its count are right after any calls |
| `HeldStaysSafe`, `ListsStaySound` | the allocator's blocks tile the heap, callers hold blocks apart and large enough; the free lists have all free blocks and no others, linked both ways; until a listed block outgrows its class |
| `FileServerListAgrees`, `FileServerOkMeansDone`, `FileServerGetsWholeFile` | the list agrees with the directory, OK means done (for a killed client, that what it sent is stored), downloads are whole |
| `ChatFramesWhole`, `ChatSameOrder`, `ChatSlotsAgree` | clients receive whole messages, once and in one order, but for those whose descriptor had a number that a slot still held; slots, descriptors and the count agree |

**`Queue_proofs`.** `IInv` is the conjunction of `TypeOK`, `MutualExclusion`,
`ListSound`, `Bounded` and `NoStrandedWaiter`. `ListSound` is not inductive
alone: that `queue_push` writes only to live nodes needs that nobody else is
between lock and unlock, and that `queue_destroy` runs when all are done.
`Bounded` needs `ListSound` (`size` is a length, so the equality test `Full` is
a test against the maximum) and `NoStrandedWaiter` needs both. Two lemmas say
what linking and unlinking do to a list in the sense of `ListSound`
(`InsertKeepsList`, `UnlinkKeepsList`), two what they do to the sequence of data
(`ItemsInsert`, `ItemsUnlink`). From these:
`TypeCorrect`, `ListIsSound`, `NeverOverfull`, `NobodyStranded`, and
`QueueIsFifo`, the refinement: every step of the queue is a step of
`BoundedFifo` or changes nothing that it sees.

**`Library_proofs`.** *Deadlock resistant mutex:* `DrmInv` is `TypeOK`,
`Wanting` (threads ask only for drms that are ready, and have `global` in the first
section of `drm_wait`), and `GraphSound` as long as no two `drm_init` calls have
both found `g` to be NULL. `GraphSound` says what an edge means
(`EdgesTellOwners`), that the graph is acyclic but for the edge of a thread whose
search is to come (`Acyclic`), that the one call that creates the graph does so
before anything is in it (`InitOrdered`), that drms and the threads that ask for
them are vertices (`Vertices`), that exited threads hold nothing, and that who left
with `global` locked had asked for NULL (`NullLocksOut`). Acyclicity is what the
search maintains; the exchange of a request edge for an ownership edge keeps it
because the new edge ends in a thread that has no other request (`EdgeToSink`). A
circle of blocked threads is a cycle in the graph, although the graph lags behind
the mutexes: the thread that has the mutex and not yet the edge is not blocked. With
overlapping `drm_init` calls `DeadlockFree` is false: see
[below](#where-code-and-comments-disagree).

`isCycle` in `Drm` is the mathematical definition (a set of nodes in which each
has a successor); that the recursive search computes it is checked by TLC in
`library` for all graphs up to four vertices and not proved, because it is
a recursion over data.

*Memory unit:* an operation is a chain of calls to the kernel, each of which may
evict pages, so the invariant is stated of a memory `k` with a set of directories
and holds between any two calls: `MemInv(k, ds, spare)`. It says that the pinned
frames are the directories and their tables (`Pinning`), that these form trees
(`Trees`), that an entry which points to a frame has been granted that frame
(`Pointers`) and the other way round (`Granted`), that only entries of tables have
swap files (`Files`), and that a page that is not dirty is as it was read
(`CleanPages`), which is why eviction need not save it. Frames in `spare` have just
been granted and do not point back yet. `MmuInv` is this of the present memory,
that no two processes share a directory, and `TlbSound`. What a process sees of
its memory (`Seen`) is the page in the frame, or in the swap file, or 0; every call
to the kernel keeps it for all processes (`Keeps`), a write changes it in one place,
and this is the refinement. `TablesStaySound` counts the frames.

*`dd`:* `CopyInv` says that until a short block comes the output is the input from
the offset on, one block after the other (`Copying`), and that from then on all is
copied and counted (`AllCopied`). *Memory checker:* `BooksInv`: the list has every
address that the caller holds once with its size, and the difference of the totals
is the sum of these sizes; that sum changes by one term with a call (`TotalWith`,
`TotalChanges`).

`MutualExclusion` and `Bounded` of the queue, and `TypeOK` of the drm, are proved
and have no place in a run of their own: `IsFifo` fails as soon as the queue
holds too much, and `GraphAgrees` says more than the types.

**`Threads_proofs`.** *Barrier and semamore:* `RoundsSeparate` speaks of counts of arrivals, the code has
one number modulo `Modulus`. `BarrierInv` says that *there is* a number of
openings `r` of which `times_used` is the remainder, that `count` counts those
who arrived `r + 1` times, and where every thread is relative to `r`
(`InRound`): in it, late from the round before, or outside. No variable holds
`r`; a step of the last thread to arrive is the one that needs another witness.
Two lemmas on remainders show that counting up modulo `Modulus` moves to a
different number, so the sleepers of a round cannot take the counter for their
own. `SemInv` adds to `NoStrandedWaiter` that who sleeps is inside a call, so
that nobody else changes what it waits for. `SyncInv` is both. *Cracker 1:* `NothingLost` counts lines; `C1Inv` says
where each one is (`Places`: queued once, with one worker, or reported),
that the sentinel stands behind all lines in the queue and that a worker leaves
only when no line is left (`Sentinel`), and that `success` is the cardinality of
the set of lines whose worker has passed the lock (`Counts`). *Cracker 2:*
`answer` and the summaries have no lock; `C2Inv` derives from the barriers which
places of main and the workers can occur together (`Phases`), and from these that
`answer` belongs to the present user (`AnswerRight`), that its writer waits
at the end (`Finder`), and that who is done has searched its range or has seen
an answer (`Searched`).

**`ParMake_proofs`.** `ParInv`: whoever scans holds `mtx_1`, so the list has the
length it had when the scan began (`ScanAlone`), and a rule whose state is not
set is in the list or with a worker, once (`OneHome`). This gives
`ParMakeOneOwner` for every makefile. For `ParMakeOrder`, which has no hypothesis
either: a state of 1 tells that the rule is settled and has not failed
(`Published`), and when a dependency's state is read again the ones before it were
done (`DoneBefore`). What a worker has *not* looked at is the finding
`parmake_reread`. `ParMakeHalted` has a hypothesis on the makefile, because the code
is wrong without it: `OldNeedSources`, a target whose file is there at the start
needs source files only, and they are there. Otherwise `parmake.c:226` judges a
target by times that are about to change. `Halting` says what times tell under it.
The instance of the run `parmake` meets it; the change listed
[below](#where-code-and-comments-disagree) for that line breaks it.

**`Scheduler_proofs`.** `SchedInv`: the queue has every present job once, and what
runs is at its head or behind a job that arrived since it was chosen
(`Accounted`); the queue is ordered as far as it matters for the head (`InOrder`):
by what the scheme looks at first and then by arrival, although a key was compared
only when its job was offered, but under RR and PSRTF no more (PSRTF: by the work
left alone) once the head was taken from the job that ran, which then keeps its place
with a new key (`libscheduler.c:187`); `job_info` agrees with what the jobs went
through, but for the quantum that has not been reported (`Agreement`). Jobs may
arrive at any time. `StatsInv` adds how the times of a job hang together with the
clock (`Clocked`) and that the totals are sums over the finished jobs (`Summed`); a
job that ends before its first quantum is reported counts with its start time of -1
(`libscheduler.c:203`), which is what `Response` says.

*Shell:* `ShellInv`: the table has one entry for a pid at most (`Table`), and a child
that lives is in it, not marked KILLED, from `external_list` on, and is one of the
background unless the main thread minds it (`Looked`). The handler can come in
between any two steps: it marks KILLED only a pid that it reaped, which is free from
then on, and `add_process` writes over the entry when the pid comes back. An entry
says RUNNING of a pid that no child has only if that child was reaped and not marked
(`Tracked`), by `waitpid` in the background or before `external_list`. `ExitIsClean`
is part of the invariant, since nothing brings children back after `shell_exit`.

*Map-reduce:* that a reader has seen all of its input when it sees its end needs
that nobody who writes there is still to be started. `MrInv`: the driver starts and
awaits its children in turn (`InTurn`); it keeps a write end until all who write
there are started, and they keep theirs (`Plumbing`), so that a pipe whose write
end nobody holds stays so; who is done has written all and seen such an end
(`Duties`); and what is in the pipe to the reducer and in the output is the sum
of what the mappers passed on (`Conserved`).

**`FileServer_proofs`.** *File server:* `ServerInv`: how far a request has come on both sides
(`Protocol`), that what a client sent and what is stored of it are its
file in order, without a gap (`Uploads`), and that the list has no name twice
and every file but the one being stored (`Listing`). `OkMeansDone` follows as an
action property. `ContentInv` adds that every file, and every reply to GET, is
the beginning of one upload, all of it unless its sender was killed
(`Contents`, `Replies`); it lasts because the server finishes a PUT before it
takes another event.

*Heap allocator:* `HeapInv` is that the heap is `Sound` and the blocks in use are
those that callers hold, each as large as was asked for. `Sound` says that the
blocks tile the heap (`Tiles`) and that the free ones are `Chained`: each is in
the list of its class, linked both ways, under a rank that falls along every list.
The rank is what excludes a list that comes back to itself; it exists because a block is
only ever put in front of its list. What each helper of `alloc.c` does to such a
heap is a lemma of its own (`Removed`, `Combined`, `GivenBack`, `Extended`,
`Taken`, `Freed`), and the calls are compositions of them (`MallocAllocates`,
`FreeFrees`, `ReallocServes`). The loops are folds over as many rounds as there
are blocks. For `block_coalescing` it is enough that every round keeps the heap
sound (`CoalescingGoesOn`); that the search sees a whole list needs the rank
again: a walk passes no block twice, so the rounds suffice (`WalkEnds`), and
the free block of highest rank that it had missed would follow one that it passed
(`ListHasClass`). Both theorems are about every behaviour; what they claim ends
when `outgrown` is true: `block_coalescing` merges blocks that stay in their list
(`alloc.c:52`), and one that grows beyond the class of its list is later unlinked
from the head of another, which loses blocks and can make
two callers share memory. A block for which `calloc` wrapped around is held apart
like any other and only not claimed to be large enough.

**`ChatServer_proofs`.** `ChatInv` has two halves. `Table` is what the server and
the kernel know: a connection has one descriptor (`Descriptors`); every slot in
use belongs to one thread, whose connection is behind it until the thread closes
it (`SlotsOwned`); what main has just accepted is in no slot (`Admission`); and
`mutex` is held by the thread that broadcasts, so that no slot changes under it
(`Broadcaster`). `Traffic` is what has arrived: only messages that were read, and
not the one that waits for `mutex` (`Arrived`); a size without a body is the last
thing a client has, and its body comes next or never (`Framing`); the message
that is being broadcast is the last that arrived anywhere (`AtEnd`) and has not
arrived where the thread has not been (`Ahead`). A message can thus only be
appended where nothing that came after it elsewhere has arrived, which is
`SameOrder`. All this is said of *plain* clients, whose descriptor was in no slot
when they were accepted: it is then in one slot at most as long as they have it
(`Alone`). Another client can get its number in the middle of a broadcast and
receive a body without its size, which is what `chat_reuse` shows; it disturbs
nobody else. The write to `clients[-1]` ends `Table`, and everything the server
does; what has arrived by then is whole and in order.

**`SequenceLemmas`.** What `RemoveAt`, `InsertAt`, `Tail`, `ToSet`, `Min` and `Max`
of a set return, and what a sum over a finite set (`MapThenSumSet`) does when a term is
added, taken away or changed; the community modules define them without theorems.
A sum is defined by recursion on subsets, and the induction theorems
cannot be used; instead, of the finite sets for which a lemma fails one with the
fewest elements is picked (`SmallestSet`), and it does not fail there. A fold over
a sequence of rounds is likewise one step taken as often as there are rounds
(`Iterates`, `IteratesOverSets`, `IteratesAgree`): the first number of rounds for which
they differed would follow one for which they agree.

Only model-checked:

- liveness and everything that needs fairness or `ENABLED`;
- what is computed by recursion, for which no induction is available: the
  searches of `GraphSearch`, parallel reduce, the capacities of the vector;
- what nobody has proved yet: the chat client, the vector's refinement, and the
  minix file system (whose property is refuted).

## Where code and comments disagree

Four disagreements are runs of their own, with a counterexample:

- `parmake_reread`: `get_target_status` leaves its loop at the first dependency
  that is not finished, unlocks, and returns `sub_rule->state` as it is *then*
  (`parmake.c:260`). If the dependency was finished in between, the status is 1,
  "All dependencies are satisfied", and later dependencies were never looked at.
- `chat_reuse`: `process_client` closes its descriptor before it takes it out of
  `clients` (`server.c:216`). A new client that gets the number in the middle of
  a broadcast receives the second half of a message.
- `chat_limit`: the limit is tested with `clientsCount > MAX_CLIENTS`
  (`server.c:144`), so one client more than "MAX_CLIENTS connections" is given a
  thread, in slot -1, and `clients[-1]` is written.
- `minifs`: a directory whose direct blocks are exactly full takes the direct
  branch once more (`minixfs.c:146`) and stores the new block behind the array;
  the file is lost to every lookup that goes on with the indirect block when the
  "direct block full".

Others were met while modelling. The models contain the behaviour; the properties
say what holds in spite of it, or the instance of the run does not have it. Each can
be reproduced by the change that is named.

| Code | Behaviour | Reproduce |
|---|---|---|
| `libdrm.c:60` | overlapping first calls of `drm_init` create two graphs: ownerships and requests are forgotten, a drm of the lost one makes `drm_wait` return with `global` locked, and threads can block in a circle | drop `~overlap` from `GraphAgrees` or `DeadlockFree` (a deadlock of two threads in 17 states) |
| `libdrm.c:93` | `drm_wait` of the NULL that `drm_init` returned without memory leaves `global` locked | drop `LockedOut` from `WaitReturns` |
| `parmake.c:193` | a rule whose dependency failed gets state 1, so the rules above it run | `AllSatisfied` in the instance of `parmake` |
| `parmake.c:226` | a target whose file is there is judged by file times alone: it is halted though its dependency is about to be rebuilt, or run before the dependency's worker is done | a file system with `a` newer than `b` and `c` newest: `HaltedIsUpToDate` |
| `cracker1.c:84` | a user whose password is given whole is counted as failed although found | drop `Known` from `NothingLost` |
| `charming_chatroom/server.c:160` | SIGINT is noticed only when `accept` returns | – |
| `charming_chatroom/utils.c:82` | a client that does not read blocks a write under `mutex`, and with it every broadcast, admission and departure | drop the premise of `EveryMessageBroadcast` |
| `charming_chatroom/server.c:176` | nothing ignores SIGPIPE: a client that has left answers the size with a reset, and the write of the body ends the server, which "is terminated with SIGINT" | `fate` becomes killed in `chat` |
| `charming_chatroom/utils.c:48` | a message that is cut by its sender's departure is broadcast as a whole one | `Disconnect` in `chat` |
| `libscheduler.c:206` | `scheduler_job_finished` polls the head of the queue, which need not be the job that finished if another arrived: that one is lost | `phase` becomes dangling in `programs` |
| `libscheduler.c:187` | the head is polled and offered again, though another job was evicted: under RR turns are out of order from then on, under PSRTF ties | drop `overtaken` from `RightChoice` (for PSRTF with the lengths 2, 1, 1) |
| `libscheduler.c:203` | a job that ends in its first quantum has start time -1 in the statistics | `response` for `Response` in `StatsExact` |
| `alloc.c:74` | a block that outgrew its class (`alloc.c:52`) is unlinked from the head of another list, whose blocks are lost although `free` makes them "available again", and one that a caller holds may be given back | drop `~outgrown` from `Next`, `HeldSafe` and `ListsSound` |
| `alloc.c:211` | `num * size` wraps around in `calloc`, and the block is smaller than the "(num * size) bytes" of the comment | drop `wrapped` from `HeldSafe` |
| `shell.c:701` | a background child makes its group itself: `shell_exit` kills it if it has not come to that | strengthen the last conjunct of `ExitIsClean` |
| `shell.c:728` | a child that is reaped by `waitpid`, or before it is in the table, leaves an entry that says RUNNING: `shell_exit` may kill whoever has the pid by then | drop `stale` from `ExitIsClean` |
| `shell.c:731` | the handler reaps a foreground child first: `waitpid` fails and the shell exits | `external_lost` happens in `programs` |
| `shell.c:736` | a foreground program that fails ends the shell | `external_failed` happens in `programs` |
| `shell.c:754` | a shell that does not lead its process group kills itself in `shell_exit` and saves no history | `leader = FALSE` in `programs` |
| `shell.c:159` | one child is reaped per signal: a background child may stay a zombie | – |
| `mapreduce.c:94` | the driver keeps the read ends: a mapper or reducer that cannot be executed blocks its writers, and the driver, once the pipe is full | drop `Clogged` from `DriverEnded` |
| `vector.c:167`, `vector.c:274` | resizing to 0 and inserting at 0 loop below zero with an unsigned index | `life` becomes crashed in `library` |
| `mini_memcheck.c:102` | a block that `realloc` moves is read and freed again; the head's `previous` is NULL | `undefined` becomes true in `library` |
| `dd.c:85` | the seek writes nothing: without input to copy the output stays empty, whatever the offset | `Skipped` in `Dd` |
| `dd.c:119` | `-c 0` copies everything; a short last block that reaches the limit is counted as full | `Wanted` and `Account` of `Dd` |
| `charming_chatroom/client.c:185` | SIGINT before both threads exist cancels a `pthread_t` that was never set | `main` becomes killed in `programs` |
| `nonstop_networking/client.c:166` | a PUT without local file leaves client and server waiting for each other | drop `NoFile` from `EveryoneAnswered` |

Also noted, without a model: the `sigaction` structure of the file server is not
initialised; signal handlers call functions that are not async-signal-safe;
`rendezvous_sol.c` lacks semicolons at line 40 and does not compile.

## Not modelled

- *Partly*: of the minix file system, `minixfs_write`, `minixfs_read` and the
  virtual file. `minixfs_write` has `minixfs_min_blockcount` assign the blocks
  that the file has already and then writes to `direct[block_count]`, the one
  after them: from the first byte on it goes through a block number that this
  code never set, and what follows depends on library code that is not in the
  repository. Of the shell, the splitting of command lines, redirections, script
  files and the history file as input are left out.
- *Left out*: `rendezvous` (two straight lines, and the solution does not
  compile); `sstring`, `camelCaser`, perilous pointers (pure string and pointer
  exercises); `env`, `time` (one fork and wait each); the lookup programs (reads
  of an immutable file); luscious locks (no source).
- *Inside modelled components*: parsing of makefiles, headers and command
  lines; formatting and output; the library code that is not in the repository,
  which the models represent by how the code uses it.

## Plan

Done: the concurrent core (queue, barrier, semamore, drm), the programs on top
of it (parmake, crackers), the servers and the chat client, the scheduler, the
allocator, the shell, the memory unit, the map-reduce driver, the vector, the
memory checker, parallel reduce, `dd`, and file creation in the minix file
system; proofs for the queue, drm, barrier, semamore, parmake, crackers, scheduler, file
server, chat server, shell, map-reduce, memory unit, allocator, `dd` and memory
checker.

Left: the vector's refinement.
