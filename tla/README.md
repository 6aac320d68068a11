# memflux in TLA+

A specification of [memflux](../src/README.md): the allocator it preloads into
applications, the engine that decides which processes to page out, and the
daemon around it. The modules are translated from the C++ source;
`PROJECT.json` says which lines every definition stands for.

## The system

memflux has two programs that share no state.

**libmemflux-preload** (`src/src/alloc/preload.cpp`) replaces malloc in an
application.

| part | state | operations |
|---|---|---|
| size classes | the table `kSizes` | `class_of` |
| runs | per class a list of runs; a run has a free bitmap, `used`, two time stamps | `run_new`, `run_take`, `run_give` under the mutex of the class |
| reserve | `g_res_bump` | `reserve_map` under `g_slot_mu` |
| large objects | a header in front of the object | mapped in `malloc`, unmapped in `free` |
| trim thread | - | every few seconds, class by class: idle runs are unmapped, free pages of the others dropped |
| initialisation | `res_done`, `started`, `g_init_once`, `g_ready`, the words of the reserve | `ensure_init`, in the first malloc of any thread |
| fork handlers | - | all mutexes taken before a fork, released in parent and child |
| thread cache | never created (`tcache()` has no caller) | - |

Application threads and the trim thread meet at the class mutexes; a malloc that
needs a run takes `g_slot_mu` inside; before that they meet in `ensure_init`. Hard here:
initialisation by whoever comes first, what is read before a lock and
used after it, the page arithmetic of the purge, time stamps compared across
threads, fork, and telling whose a pointer is from the pointer alone. The allocator
is correct if a block is held once, keeps its contents until it is freed, and goes
back to its run; if nobody waits for ever; and if free memory is really returned.

**memfluxd** (`src/src/core`, `src/src/daemon`, `src/src/kern`) runs one cycle per
interval.

| part | state | operations |
|---|---|---|
| engine | per pid `cooldown` and `samples`; the snapshot of the cycle | `run_cycle`, `force_cycle`: scan, crisis guard, thrash guard, scoring, pageout, `memory.reclaim` |
| sampler | soft-dirty bits of other processes | `clear_soft_dirty`, `sample_working_set`: a walk over `/proc/pid/maps` and `pagemap` |
| fault tracer (eBPF) | a hash map of counters, filled in the kernel by every page fault | `load`, `drain_faults` |
| configuration | the settings and groups | `reload`, `mode_for`, `weight_for` |
| DAMON, MGLRU, KSM | kernel settings | written once |
| daemon loop | `g_run`, `g_paused`, `psi_threshold`, next cycle | accept and serve one client, run a cycle when due |
| memfluxctl | - | connect, write a request, read to the end |

The daemon is one thread, but everything it observes moves: processes exit and
their pids are reused between the scan and the action, pressure changes between
two readings, clients come, stall and go, and signals arrive anywhere. It is
correct if it leaves a process alone for the cooldown it promises, reclaims from
cold processes under pressure and from nobody in a crisis, stays within its
budget, keeps running cycles, answers its clients and stops when told to.

`PROJECT.json` lists the hazards line by line.

## Modules

| module | models | composed with |
|---|---|---|
| `RunGeometry` | sizes, layout of a run, page scan of the purge, as operators | extended by the allocator's modules |
| `Allocator` | threads in malloc, free and fork, the trim thread, the clock | instance of `Heap` |
| `Heap` | what an allocator promises: abstract | |
| `ClassSearch` | `class_of`, turn by turn | |
| `AddressSpace` | the whole API on addresses: reserve, runs, large objects, aligned and libc pointers | |
| `Engine` | a cycle of the engine against changing processes and pressure | |
| `Startup` | the first malloc of every thread: `ensure_init`, and malloc and free as far as they meet it | ends where `Allocator` begins |
| `Tracer` | the eBPF program and its map, `load`, `drain_faults` | |
| `Sampler` | `read_maps`, `clear_soft_dirty`, `sample_working_set` against a changing process | |
| `Observation` | a cycle's look at one process: drain, then sample | composes `Tracer` and `Sampler` |
| `Config` | the parser of the configuration, `mode_for`, `weight_for` | its results are settings and factors in `Engine` |
| `Daemon` | main loop, clients, signals | its `cycle` and `force` steps stand for `Engine`'s cycles |
| `AllocatorProofs`, `ClassSearchProofs`, `AddressProofs`, `StartupProofs`, `EngineProofs`, `DaemonProofs`, `ObservationProofs`, `ConfigProofs` | theorems about the module of that name; those about `Tracer` and `Sampler` are in `ObservationProofs` | |
| `MC*` | instances for TLC | |

Definitions whose name ends in an underscored variant and whose comment starts with
MUTANT are wrong versions of a definition, used to see that a property notices.

### Allocator

A thread's `pc` is its place between two points where others may run: before a
mutex (`m_lock`, `f_lock`, `m_slot`, `k_slot`, `k_class`), or inside the
critical section (`m_find`, `m_map`, `m_take`, `f_give`, `k_fork`). What free does
before the lock (finding the run) is a step of its own, so the time between that
step and the lock is explored. `run[r]` is a run's header; `free` is its bitmap.
Runs are numbered in the order of their addresses: `run_insert` always inserts at
the head, so a class list is the class's runs by decreasing number.
Time stamps are ages, saturated where no comparison tells them apart; a stamp
later than the trim thread's `t` is an age below `trim.t`, which is how the
unsigned wrap-around of `t - stamp` appears (`Elapsed`). `wiped` records held
blocks of which `madvise` dropped bytes. The purge does not spare every block
(`alloc_wipe`): those smaller than a page that continue on the next one (`Straddles`)
may lose their first part. `OnlyStraddlersWiped` says that no other block ever does, and the
refinement of `Heap` exempts the same blocks, in this respect only. When a pass purges
or unmaps is not in these properties: an early pass costs time, not data. `reg[t]` holds the local variables of a
thread inside a call and is cleared when it returns.

After a fork the behaviour goes on in the parent (`ForkParent`) or in the child
(`ForkChild`), where only the forking thread is left.

### AddressSpace

Calls are atomic, addresses are numbers, arithmetic is modulo `WordMod`. `mem.obj`
holds the mapped objects; everything free and realloc learn about a pointer comes
from `Owner`, which follows the order of the tests in the code and yields "fault"
when a header it reads is not mapped. What the allocator unmaps inside the reserve
stays unmapped in the model; a real kernel may reuse it. The contents of user memory are assumed never
to look like a header. Allocator already covers the idle times, so `UnmapRun` may
happen to any free run. The process stops when it crashes.

### Startup

A thread's `pc` is its place in malloc, `ensure_init`, `reserve_init`, `do_init` or
`run_new`; every atomic or shared access is a step, the three stores of
`reserve_init` too, because `run_new` and free read these words without a lock.
`pthread_create` allocates: `StartTrim` enters malloc again in the same thread
(`nested`), and `TrimStarted` is what follows. Every malloc of the model needs a new
run: what races with the initialisation is where runs come from. A thread that overlaps the
stores may get memory from plain mmap, from address 2 MiB upwards, or none; `early`
marks those calls, `LateCallsServed` speaks of the others.

### Tracer, Sampler, Observation

`entry` maps a key to an element and `val` an element to its counter, as in the
kernel's preallocated hash map: an update puts the spare element in the entry's
place, so the pointer a program looked up before may belong to another key
afterwards. `chain` is the order of the keys in each bucket. Every update, the drain's
reset included, puts its element at the head of the chain, and `get_next_key` goes on
from there: the walk meets the keys of that bucket again and, if one has been counted
meanwhile, assigns `out[pid]` a second time. `lost` records that a count has been
overwritten, `due` the faults the drains still owe. Keys are never deleted, so
the walk never loses its place and starts over. `v->minor++` is a load and a store; the keys are thread ids, so a key has one
program at a time. `raced` records the tasks for whom a fault met a reset: between
the drain's read and its update, or holding an element across one.

The sampler makes one step per system call. `pinned` is the address space the open
pagemap belongs to, `mm` the one the pid has now; reads fail when they differ.
The kernel reports pages of new mappings as soft-dirty. `stays` are the pages
a complete walk has to find. A mapping is in `maps` or not as a whole; a list read in
several pieces still holds every mapping that was there throughout. The list is kept as
the set `vmas` of the mappings still to be read, taken in the order of their addresses,
which is the order of `maps`.

In `Observation` the first write to a clean page is a fault that first runs the
tracer's program and then sets the bit, or all bits of a huge page (`Unit`). What the
kernel writes for the process (`KernelWrite`) sets bits without the program, which is attached to
`page_fault_user`. A cycle drains and then samples; a crisis
skips both, a forced cycle the drain, and a process the scan did not see the sample.

### Config

A line is what it is to the parser: a header, a setting, a field of a group or
something skipped, with a value that is a number, a word or a path and perhaps a
comment behind it, which the parser does not know. The properties compute the
settings from the whole file, not from the parser's state.

### Engine

One action per phase: `Scan`, `Guard` or `Drain`, `Score`, one action per
candidate, `CgroupReclaim`; processes and pressure may change before each. A
working set is cold or hot, pressure readings are levels between the thresholds,
the factor of a process stands for swap and group weight. A pid may be
given to a new process at any time after its process exits, also between the scan
and the action; its `tracked_` entry stays. `owed` is a history variable: the cycles the
README's cooldown still promises; it is about a process and is forgotten when that exits.

`ColdProcessReclaimed` is a promise with a bound. A cycle reclaims from `Slots` candidates
before `max_targets` or the cap ends it, and each of them is out for `Cooldown` cycles, so
a candidate that fewer than `Slots * (Cooldown + 1)` others ever precede has its turn.
With that many it may never have: the run's property with `<=` for `<` fails.

### Daemon

One step per system call that another party can interfere with. A signal while the
daemon is blocked in `read` interrupts it (the handlers are installed without
`SA_RESTART`); a signal just before it does not. `SigpipeIgnored` is the
disposition inherited from the parent: systemd ignores SIGPIPE, a shell does not.

## Runs that pass

| run | shows | bounds |
|---|---|---|
| `alloc_safety` | `HeapSafe`, `OnlyStraddlersWiped`, `NoBlockLost` and the refinement of `Heap` for two threads, both of which may fork, and the trim thread | two classes, of blocks that fit in pages and of blocks that cross from one to the next; two runs, of three blocks or two: runs fill up, become empty, are unmapped and their classes compete for the reserve, which runs out; `kRunSize` small enough that one block starts beyond it; threads are symmetric |
| `alloc_live` | `NoCircularWait`; free runs and free pages are returned | one class of one block per page, two threads, two runs, no fork |
| `class_search` | the binary search on the real table | the sizes at, below and above every entry |
| `address_space` | `LiveFits`, `FreeHitsOwner`; `BlocksFound`, which ties `Allocator`'s `run_of_finds` to the tests on addresses | a class whose runs are shorter than `kRunSize` (large objects share their 2 MiB), one whose runs are longer (a block starts beyond it); a reserve that is not aligned to `kRunSize`; `MaxBump` ends a behaviour when the reserve is used up |
| `engine` | `NoEarlyReclaim`, `CooldownCoversPromise`, `ColdProcessReclaimed` | two pids, reused without limit, and a process that stays idle (`Steady`), competing for one target per cycle, as candidates only once their mappings are measured; one rival must leave a process its turn and two need not; cooldowns 1 and 2 in place of 5 and 20 keep their order and let both expire; calm, pressure and crisis |
| `daemon` | `NoConnectionLeak`, `ClientReturns`, `StopHonoured`, `CyclesKeepRunning` | two clients, one of which may be interrupted, a queue of one |
| `startup` | `AtMostOnce`, `MutexesReady`, `NoSharedPointer`, `LateCallsServed`; every malloc returns and the initialisation completes | three threads, so that one can win the reserve, another `pthread_once` and a third `started`, or overtake them all; the reserve or the trim thread may be refused |
| `tracer` | `DrainsOpenMap`, `FaultsConserved`; every count is reported | three tasks, two of one bucket, and room in the map for two or three: the map fills up, a walk comes back to a key, a late insertion falls before or behind it, elements change hands; any number of faults, a counter of at most 1 (`MaxCount`) |
| `observe` | `TouchedWithinTotal`, `NoFalseCold`, `ObserversAgree`; every sample ends | two tasks of one bucket, room for one or two, a huge page of two pages and a page of its own, read in one or two pieces; two faults known to the tracer (`MaxFaults`), so that either or both fall into a window; two address spaces for the pid |
| `config` | `SettingsLastWins`, `GroupsLastWins`, `LongestPrefixWins` | every file of five lines out of sixteen: enough for a header, two groups with nested prefixes and their fields, in any order; `Word32` and `Word64` just above the values that matter |

In `engine`, `WordMod` stands for 2^64 and is far above every sum that does not
wrap around; in `address_space` it is above the reserve, as 2^64 is.

**Fairness.** `Allocator`: threads inside malloc, free or fork, the trim thread and
the clock are weakly fair, which is scheduling; nothing is assumed about who gets a
mutex, and applications need not call. `Engine`: the daemon's loop starts cycles
and a started cycle goes on; nothing is assumed of processes or pressure.
`Daemon`: the daemon's thread and the clock (`DaemonSpec`); in `PromptSpec` also
that a memfluxctl that has connected writes its request, which is what
`send_request` does unless the process is stopped. Signals, new clients and
interruptions are never fair. `Startup`: threads inside malloc. `Tracer` and
`Observation`: the daemon runs cycles and goes on with those it began; tasks and programs
owe nothing. `FaultsReported` asks in addition that drains go on, which an
endless crisis prevents, and that no two tasks of one bucket fault for ever
(`Thrashing`), as the walk need not end otherwise. `SamplesEnd` is for the same
reason about the sample and not about the whole cycle.

Deadlock is checked except where the system may stop: a fork can deadlock
(`alloc_safety`), a crash ends the process, a daemon may exit, an application stops
calling malloc (`startup`), and a file ends (`config`).

## Runs that find a disagreement

Each checks one statement of a doc or a comment against the code; `PROJECT.json`
quotes it. The passing runs state what holds when the named cause is absent.

| run | the code | cause, and what the passing runs assume instead |
|---|---|---|
| `alloc_wipe` | drops pages with live bytes | blocks below a page that cross a page boundary; `alloc_safety` says that no others are hit |
| `alloc_fork_lock` | fork and malloc deadlock | opposite lock orders; `alloc_live` has no fork |

The models show more such disagreements than there are runs. Each of these was seen
as a trace of the model with the constants named, while it was written:

| the code (under `src/src/`) | where the model shows it | what a doc or comment says |
|---|---|---|
| never purges runs of blocks of two pages or more, `alloc/preload.cpp:362` | `Allocator`, `kSizes = <<8>>`: `FreePagesReturned` fails | `preload.cpp:353` counts multiples of a page among the cases covered |
| unmaps a run that has just become free, `preload.cpp:380` | `Elapsed`: the stamp is later than `t` | `README.md:168`, a run is unmapped after `RUN_IDLE` |
| no purge in the child of a fork, `preload.cpp:328` | `ForkChild`: `FreeRunsReturned` fails with fork | `README.md:103`, 160 |
| free drops the last block of a run, `preload.cpp:203` | `FreeIgnored`; `NoBlockLost` and `BlocksFound` name the exception | `preload.cpp:468`, only a corrupt pointer gets there |
| free of a large pointer reads an unmapped header, `preload.cpp:208` | `Owner` = "fault" | `preload.cpp:205` |
| realloc gives an aligned pointer to the libc, `preload.cpp:490` | `ReallocElsewhere` with `crashed' = "libc"` | `preload.cpp:12` |
| allocates without a reserve, `preload.cpp:400` | `Reserved = FALSE` | `preload.cpp:400` |
| grants a size near SIZE_MAX one page, `preload.cpp:403` | `Requests` with `WordMod - 1`: `LiveFits` fails | `preload.cpp:99` |
| a process once touched stays hot, `core/engine.cpp:125` | `Score` clears `dirty` at the first sample only | `README.md:86` |
| pages out a process that reused the pid, `engine.cpp:277` | `Exit`, `Spawn` between `Scan` and `ActOn` | `README.md:122` |
| reclaims with no memory available, `engine.cpp:209` | `Crisis` with `avail = "zero"` | `README.md:108` |
| free of a large object reads its size after unmapping it, `preload.cpp:465` | `FreeOutcome` = "count" | `preload.cpp:11`, munmap in free |
| during the initialisation a malloc maps outside the reserve, or at 2 MiB and up, and free gives that to the libc, `preload.cpp:97`, 174 | `Startup`, `LateCallsServed` without `early` fails | `preload.cpp:318`, "jamais après des threads actifs" |
| no trim thread if `pthread_create` allocates while another thread stores the reserve, `preload.cpp:328` | `Startup`: `refused = "early"` | `README.md:103` |
| faults between read and reset are lost, or counted twice or for another task, `kern/ebpf.cpp:77` | `Tracer`: `FaultsConserved` without `raced` fails | `ebpf.hpp:15`, deltas since the last call |
| a walk that comes back to a task overwrites its count, so that the thrash guard (`engine.cpp:234`) sees a small number just for those that fault most, `kern/ebpf.cpp:79` | `MCTracer`: `\A k \in Tasks : ~ lost[k]` fails | `ebpf.hpp:15` |
| two tasks of one bucket that keep faulting keep the walk, and the daemon with it, in `drain_faults`, `kern/ebpf.cpp:76` | `MCTracer`: `FaultsReported` without `Thrashing` fails | `README.md:128` |
| the tracer does not see what the kernel writes into user memory, and counts a huge page once, `kern/ebpf_access.bpf.c:35` | `MCObservation`: `ObserversAgree` without `kernel`, or without `HugeSize`, fails | `README.md:128` |
| small cold processes starve behind enough larger ones, `core/engine.cpp:272`: 18 with 3 targets and a cooldown of 5 | `MCEngine`: `ColdProcessReclaimed` with `<=` for `<` fails | `README.md:87-88`, dormant memory is reclaimable |
| a full map never counts a new task again, `kern/ebpf_access.bpf.c:44` | `Insert`; nothing deletes | `README.md:128`, per-PID counters |
| a process that executes during the walk looks cold, `core/workingset.cpp:49` | `PreadFails` in every mapping, then `Close` with `ok` | `workingset.hpp:26` |
| a group without prefix matches every process and hides `default_mode`, `core/log.cpp:136` | `Config`: `group.1.*` alone, `mode_for` | `memflux.conf:33` |
| the shipped prefixes keep their comments and match nothing, `core/log.cpp:107` | `Text` with `note` | `memflux.conf:36`, 39 |
| `default_mode = cold # ...` means pageout, `core/log.cpp:123` | `Meaning` with `note` | `memflux.conf:26-28` |
| with the DAMON backend on nothing is a candidate, `core/engine.cpp:116` | `Damon = TRUE`: `ColdProcessReclaimed` fails | `common.hpp:85`, "fallback pagemap auto" |
| bytes are counted against a budget in KB, and the rest of it wraps around, `engine.cpp:297` | `Gains = {8388608}`, `Cap = 524288`: `asked` exceeds `Cap` | `memflux.conf:14` |
| a silent client stops the cycles, `daemon/main.cpp:42` | `DaemonSpec`, without the fairness of clients: `CyclesKeepRunning` fails | `main.cpp:138`, "IPC non bloquant" |
| SIGHUP ends the daemon, `daemon/main.cpp:180` | `on_signal` | `config/memflux.conf:1` |

Read in the code and not checked: a process on a pid used before inherits its
predecessor's sample count, so its soft-dirty bits are never cleared; the README counts 69 classes, the table
has 68; the per-thread cache is never created; `kick` answers "cycle kicked" but
only resumes; with `dry_run` the cgroup reclaim still happens; the tracer counts by
thread while the engine looks its counts up by process; `cgroup::reclaim` writes a
number of KB where the kernel expects bytes; a fork between `g_ready` and
`pthread_atfork` copies mutexes that are held.

## Proofs

Every safety property that a run checks is also a theorem: it holds for every value
of the constants that satisfies the named assumptions, of which
each module has its own (`GeometryAssumption`, `AllocatorAssumption`,
`SearchAssumption`, `AddressAssumption`, `StartupAssumption`, `EngineAssumption`,
`DaemonAssumption`, `TracerAssumption`, `SamplerAssumption`, `ObservationAssumption`,
`ConfigAssumption`) and TLC evaluates them in the
runs. Where a theorem has a further hypothesis it is one the code does not ensure, named below.
Each proof has an inductive invariant, one lemma (or step) per
action, and a temporal step at the end.

**Allocator** (`AllocatorProofs`): any number of threads, classes and runs, any block sizes, with fork.

- `AllocatorTypeCorrect`, `AllocatorHeapSafe`. `IInv`, that is `TypeOK /\ HeapSafe`, is
  inductive: `LocksMatchOwners` makes a class's runs private to the holder of its
  mutex, so the block malloc chose is still free when it takes it (`ChosenBlockFree`);
  a block that is held, or in a free that waits for the lock, has its bit clear, so
  `used > 0` (`UsedCountsBlocks`) and the trim thread cannot unmap the run even though
  free found it without a lock. `run_take_OK` and `run_give_OK` carry the counting.
- `AllocatorNoBlockLost`: with `IInv` the property is inductive. A block leaves the free bitmap and
  the application's hands by different steps; between them it is the one in `reg` of a
  thread in free, and after a fork of one that is gone.
- `AllocatorNoCircularWait`, if `Forkers = {}` (`NobodyForks` is kept): a thread that has a class mutex
  waits at most for `g_slot_mu`, and who has that waits for nobody, so every chain of
  waiting threads has at most two links. The hypothesis is needed: `alloc_fork_lock`.
- `PurgedPagesAreFree`: of the blocks with bytes on a page, the scan looks at all but the
  one that continues on the next page; so a block on a page it drops is free or is that
  one (`Straddles`). With `IInv` and the fact that a mapped run keeps its class
  (`ClassStays`), `AllocatorOnlyStraddlersWiped` follows, and from it `AllocatorImplementsHeap`, the step
  simulation of `Heap`. None has a hypothesis on the table; of one without
  straddling blocks they give `NoLiveDataWiped` itself, of the real one `alloc_wipe` shows that they cannot.

**ClassSearch**: `ClassSearchCorrect`, for every strictly increasing table, from the loop invariant `LoopInv`;
`ClassSearchHalves`: a turn leaves at most half of what was left, so `SearchEnds` needs fairness and nothing else.

**AddressSpace** (`AddressProofs`): any table, reserve, alignments and history of calls.
`AddrTypeCorrect`, `AddrLiveFits`, `AddrFreeHitsOwner` and `AddrBlocksFound` rest on
`AddrIInv`. That live pointers do not overlap is not inductive: nothing in it says that the
next object mapped avoids them. `AddrIInv` says where they are: every
live pointer has a *home*, a taken block or a large object that contains it, and no
two have the same one (`LiveOK`); objects lie apart, in the reserve, below `g_res_bump`
(`MemOK`). A new pointer's home is new (`NewHome`), a freed one's disappears with
it, and what `Owner` finds from the pointer is its home (`OwnerHome`), also
for an aligned pointer, whose home it does not begin. Hypotheses: `NoWrap`, that the sums of `g_res_bump`, sizes
and alignments stay below `WordMod`, which the code does not test and a size close to
SIZE_MAX violates; for `AddrBlocksFound` also that there is a reserve, without which `in_reserve` finds nothing.

**Startup** (`StartupProofs`): any number of threads. `StartupTypeCorrect`, `StartupAtMostOnce`,
`StartupMutexesReady`, `StartupNoSharedPointer` and `StartupLateCallsServed` rest on `StartupIInv`:
there is one winner of each exchange at most, and the flags say how far it is (`OnceInv`,
`StarterInv`, `MapperInv`); `g_res_bump` counts the calls of `reserve_map`, from 0 until the third of the stores and from
the start of the reserve afterwards (`BumpInv`), which bounds it by the number of calls
and so keeps what a late call gets inside the reserve; pointers already given are
below `g_res_bump` or from plain mmap (`PtrInv`).

**Engine** (`EngineProofs`): any pids, profiles, thresholds and cooldowns.
`EngineTypeCorrect`, `EngineCooldownCoversPromise` and the action property `EngineNoEarlyReclaim` from `EngineIInv`, which
adds that a candidate of the current cycle is owed nothing (`CandidatesFree`): only with it is
a step of `run_actions` known to be harmless, since the cooldown is tested in the scoring and not again.

**Daemon** (`DaemonProofs`): any number of clients, any length of the queue. `DaemonTypeCorrect` and
`DaemonNoConnectionLeak` from `DaemonIInv`: a connection is open exactly if it is in the
queue, once, or is the one the daemon serves, and it serves one exactly
in the states of `handle_client`.

**Tracer, Sampler, Observation** (`ObservationProofs`): any number of tasks, any buckets and room in the map,
any faults, mappings, huge pages and address spaces, reads of any length.

- `TracerDrainsOpenMap` from `LoadInv`. `TracerFaultsConserved` from `CountInv`: no two keys share
  an element (`Separate`), what an unraced program or drain has read of a counter is still
  in it (`Fresh`), and so every fault not yet returned is somewhere (`Owed`). That only
  tasks of one bucket are overwritten is `OnceInv`: a key alone in its bucket that is in the result has
  been met (`Met`), and no reset brings the walk back to it. For tasks that share a
  bucket the theorem says what is overwritten and promises no more: they do lose counts.
- `ObservationTouchedWithinTotal`, `ObservationNoFalseCold` and `ObservationObserversAgree` from `ObservationInv`. `WalkInv`
  says which pages the walk has left (`Left`): touched and what remains of the current mapping are
  within total. `FoundInv`: the pages that stay dirty and are not left have been counted.
  `AgreeInv` balances the two observers: the dirty pages, and those counted with those
  still left (`Found`), are covered by a huge page for each fault known since the bits were
  cleared and not still on its way, and by the kernel's writes (`Credit`, `Debt`).

**Config** (`ConfigProofs`): any lines, any length of the file, any number of groups. `ConfigSettingsLastWins` and
`ConfigGroupsLastWins` from `ConfigInv`, which adds that the parser's section is the one
the file is in at its end (`InSection`). `ConfigLongestPrefixWins` is a fact about the
loop `BestGroup`. A loop is followed by taking the first turn at which the
claim would fail (`Least`, `LoopExists`, `LoopFinds`), since the induction theorems of the library take an operator as parameter.

**Only model-checked**: everything with fairness, which the prover does not handle:
`FreeRunsReturned`, `FreePagesReturned`, `SearchEnds`, `ColdProcessReclaimed`,
`ClientReturns`, `StopHonoured`, `CyclesKeepRunning`, `MallocReturns`,
`StartupCompletes`, `FaultsReported`, `SamplesEnd`; and that the assumptions hold of the real table
and constants, as far as the instances use them.

## Not modelled

The texts of answers and logs; the parsing of `/proc` and `/sys` and the writing of
kernel settings (DAMON, MGLRU, KSM, sysctl), which is one read or write each; the
characters of configuration lines; the contents of memory (calloc's memset, realloc's
memcpy); the counters behind `MEMFLUX_STATS`; code without a caller (`tcache`,
`parse_mode`, `ebpf::unload`); tools, tests and packaging. `PROJECT.json` gives the
reason for each part.

## Plan

Left, in order:

1. `RunList`: the doubly linked class list, pointer by pointer, refining the set of
   runs in `Allocator`, with the refinement proved.
2. A fork in `Startup`, between `g_ready` and the handlers, and what of
   `StartupIInv` holds in the child.
3. `Memfluxd`: `Daemon` composed with `Engine`, so that pause, force and adjust act
   on real cycles; their product is at present too large for TLC.
