------------------------------ MODULE Allocator ------------------------------
(***************************************************************************)
(* The small-block allocator of memflux-preload under concurrency: threads *)
(* that call malloc, free and fork, and the memflux-trim thread that gives *)
(* idle memory back to the kernel.                                         *)
(*                                                                         *)
(* A run is identified by its rank in the reserve: g_res_bump only grows,  *)
(* so the rank is also the order of the addresses.  run_insert puts a new  *)
(* run at the head of its class list and nothing reorders the list, hence  *)
(* the list of a class is its mapped runs by decreasing rank and "the      *)
(* first run that is not full" is the one of highest rank.                 *)
(*                                                                         *)
(* Time stamps are kept as ages (milliseconds ago), saturated where no     *)
(* comparison can tell them apart, so that time is unbounded.              *)
(*                                                                         *)
(* The thread cache is absent: tcache(), the only function that creates    *)
(* one, is never called, pthread_getspecific returns NULL in malloc and    *)
(* free, and both always go through the class mutex.                       *)
(***************************************************************************)
EXTENDS RunGeometry, FiniteSets

CONSTANTS
  Threads,     \* application threads
  Forkers,     \* the threads that may call fork
  Trim,        \* the memflux-trim thread
  None,        \* no owner
  MaxRuns,     \* runs that fit in the reserve
  RunIdle,     \* env_run_idle_ms
  DirtyIdle,   \* env_dirty_idle_ms
  MaxPass      \* bound: the most time one pass of the trim thread takes

ASSUME AllocatorAssumption ==
  /\ Forkers \subseteq Threads
  /\ Trim \notin Threads
  /\ None \notin Threads \cup {Trim}
  /\ MaxRuns \in Nat
  /\ RunIdle \in Nat
  /\ DirtyIdle \in Nat
  /\ MaxPass \in Nat
  /\ kNumClasses > 0

VARIABLES
  mu,      \* g_mu: owner of every class mutex
  slot,    \* g_slot_mu: its owner
  pc,      \* where every thread is
  reg,     \* its locals: a class, a run, a block index
  held,    \* blocks the application holds: <<run, index>>
  mapped,  \* runs that are mapped (and linked in their class list)
  run,     \* the run headers
  bump,    \* g_res_bump, in runs
  wiped,   \* held blocks of which madvise has destroyed bytes
  trim     \* the trim thread: its pc, class, and the age of `t`

vars == <<mu, slot, pc, reg, held, mapped, run, bump, wiped, trim>>

RunIds == 1 .. MaxRuns
NotFree == -1                      \* last_fully_free_ms = 0
RunAgeCap == RunIdle + MaxPass
TouchAgeCap == DirtyIdle + MaxPass

Blocks == RunIds \X (0 .. kMaxElems - 1)

Run == [cls   : Classes,
        used  : Nat,
        free  : SUBSET Nat,         \* bits: 1 = free
        lff   : {NotFree} \cup (0 .. RunAgeCap),
        touch : 0 .. TouchAgeCap,
        rss   : SUBSET Nat]         \* resident data pages

NewRun(c) == [cls |-> c, used |-> 0, free |-> Idx(c), lff |-> 0, touch |-> 0,
              rss |-> {}]

Goto(t, from, to) ==
  /\ pc[t] = from
  /\ pc' = [pc EXCEPT ![t] = to]

\* No block: what a thread outside the allocator remembers.
NoReg == [c |-> 1, r |-> 0, i |-> 0]

\* Thread t leaves the allocator, and its local variables are gone.
Leave(t, from) ==
  /\ Goto(t, from, "idle")
  /\ reg' = [reg EXCEPT ![t] = NoReg]

Init ==
  /\ mu = [c \in Classes |-> None]
  /\ slot = None
  /\ pc = [t \in Threads |-> "idle"]
  /\ reg = [t \in Threads |-> NoReg]
  /\ held = {}
  /\ mapped = {}
  /\ run = [r \in RunIds |-> NewRun(1)]
  /\ bump = 0
  /\ wiped = {}
  /\ trim = [pc |-> "sleep", c |-> 1, t |-> 0]
-----------------------------------------------------------------------------
(* malloc                                                                  *)

MallocCall(t, c) ==
  /\ Goto(t, "idle", "m_lock")
  /\ reg' = [reg EXCEPT ![t] = [c |-> c, r |-> 0, i |-> 0]]
  /\ UNCHANGED <<mu, slot, held, mapped, run, bump, wiped, trim>>

\* MUTANT of MallocLock: the mutex is not waited for.
MallocLock_NoWait(t) ==
  /\ Goto(t, "m_lock", "m_find")
  /\ mu' = [mu EXCEPT ![reg[t].c] = t]
  /\ UNCHANGED <<slot, reg, held, mapped, run, bump, wiped, trim>>

MallocLock(t) ==
  /\ Goto(t, "m_lock", "m_find")
  /\ mu[reg[t].c] = None
  /\ mu' = [mu EXCEPT ![reg[t].c] = t]
  /\ UNCHANGED <<slot, reg, held, mapped, run, bump, wiped, trim>>

\* The runs of class c that are not full.
Candidates(c) == {r \in mapped : run[r].cls = c /\ run[r].used # Elems(c)}

\* The walk of the class list, and the search of the bitmap (run_take).  A run
\* that is not full has a free bit (UsedCountsBlocks), so run_take's fall-through
\* to nullptr never happens.
MallocFind(t) ==
  LET c == reg[t].c IN
  /\ Goto(t, "m_find", "m_take")
  /\ \E r \in Candidates(c) :
       /\ \A q \in Candidates(c) : q <= r
       /\ \E i \in run[r].free :
            /\ \A j \in run[r].free : i <= j
            /\ reg' = [reg EXCEPT ![t] = [c |-> c, r |-> r, i |-> i]]
  /\ UNCHANGED <<mu, slot, held, mapped, run, bump, wiped, trim>>

\* Every run is full: run_new waits for g_slot_mu with the class mutex held.
MallocFindNone(t) ==
  /\ Candidates(reg[t].c) = {}
  /\ Goto(t, "m_find", "m_slot")
  /\ UNCHANGED <<mu, slot, reg, held, mapped, run, bump, wiped, trim>>

SlotLock(t) ==
  /\ Goto(t, "m_slot", "m_map")
  /\ slot = None
  /\ slot' = t
  /\ UNCHANGED <<mu, reg, held, mapped, run, bump, wiped, trim>>

\* MUTANT of RunNew: g_res_bump is read but not advanced.
RunNew_SameSpace(t) ==
  LET c == reg[t].c
      r == bump + 1
  IN
  /\ bump < MaxRuns
  /\ Goto(t, "m_map", "m_take")
  /\ slot' = None
  /\ run' = [run EXCEPT ![r] = NewRun(c)]
  /\ mapped' = mapped \cup {r}
  /\ reg' = [reg EXCEPT ![t] = [c |-> c, r |-> r, i |-> 0]]
  /\ UNCHANGED <<mu, held, bump, wiped, trim>>

RunNew(t) ==
  LET c == reg[t].c
      r == bump + 1
  IN
  /\ bump < MaxRuns
  /\ Goto(t, "m_map", "m_take")
  /\ slot' = None
  /\ bump' = r
  /\ run' = [run EXCEPT ![r] = NewRun(c)]
  /\ mapped' = mapped \cup {r}
  /\ reg' = [reg EXCEPT ![t] = [c |-> c, r |-> r, i |-> 0]]
  /\ UNCHANGED <<mu, held, wiped, trim>>

\* MUTANT of RunNewFails: malloc returns without unlocking the class.
RunNewFails_KeepsMutex(t) ==
  /\ Leave(t, "m_map")
  /\ bump' = IF bump < MaxRuns THEN bump + 1 ELSE bump
  /\ slot' = None
  /\ UNCHANGED <<mu, held, mapped, run, wiped, trim>>

\* The reserve is exhausted, or mmap fails: the space it would have taken is
\* lost, and malloc returns NULL.
RunNewFails(t) ==
  /\ Leave(t, "m_map")
  /\ bump' = IF bump < MaxRuns THEN bump + 1 ELSE bump
  /\ slot' = None
  /\ mu' = [mu EXCEPT ![reg[t].c] = None]
  /\ UNCHANGED <<held, mapped, run, wiped, trim>>

\* run_take's update of the header h; the caller then writes to its block.
run_take(h, i) ==
  [cls   |-> h.cls,
   free  |-> h.free \ {i},
   used  |-> h.used + 1,
   lff   |-> IF h.used = 0 THEN NotFree ELSE h.lff,
   touch |-> 0,
   rss   |-> h.rss \cup {k \in Pages(h.cls) : Overlaps(h.cls, i, k)}]

RunTake(t) ==
  LET r == reg[t].r
      i == reg[t].i
  IN
  /\ Leave(t, "m_take")
  /\ run' = [run EXCEPT ![r] = run_take(@, i)]
  /\ held' = held \cup {<<r, i>>}
  /\ mu' = [mu EXCEPT ![reg[t].c] = None]
  /\ UNCHANGED <<slot, mapped, bump, wiped, trim>>
-----------------------------------------------------------------------------
(* free: any thread may free any block the application holds.              *)

FreeCall(t, b) ==
  LET c == run[b[1]].cls IN
  /\ b \in held
  /\ run_of_finds(c, b[2])
  /\ Goto(t, "idle", "f_lock")
  /\ reg' = [reg EXCEPT ![t] = [c |-> c, r |-> b[1], i |-> b[2]]]
  /\ held' = held \ {b}
  /\ wiped' = wiped \ {b}
  /\ UNCHANGED <<mu, slot, mapped, run, bump, trim>>

\* run_of yields an address inside the run's data: ours_small and ours_large
\* find no magic number there, and free returns without doing anything.
FreeIgnored(t, b) ==
  /\ b \in held
  /\ ~ run_of_finds(run[b[1]].cls, b[2])
  /\ pc[t] = "idle"
  /\ held' = held \ {b}
  /\ wiped' = wiped \ {b}
  /\ UNCHANGED <<mu, slot, pc, reg, mapped, run, bump, trim>>

FreeLock(t) ==
  /\ Goto(t, "f_lock", "f_give")
  /\ mu[reg[t].c] = None
  /\ mu' = [mu EXCEPT ![reg[t].c] = t]
  /\ UNCHANGED <<slot, reg, held, mapped, run, bump, wiped, trim>>

\* MUTANT of run_give: used is not decremented.
run_give_KeepsUsed(h, i) == [h EXCEPT !.free = @ \cup {i}, !.touch = 0]

run_give(h, i) ==
  LET used == IF h.used > 0 THEN h.used - 1 ELSE 0 IN
  [cls   |-> h.cls,
   free  |-> h.free \cup {i},
   used  |-> used,
   lff   |-> IF used = 0 /\ h.lff = NotFree THEN 0 ELSE h.lff,
   touch |-> 0,
   rss   |-> h.rss]

RunGive(t) ==
  /\ Leave(t, "f_give")
  /\ run' = [run EXCEPT ![reg[t].r] = run_give(@, reg[t].i)]
  /\ mu' = [mu EXCEPT ![reg[t].c] = None]
  /\ UNCHANGED <<slot, held, mapped, bump, wiped, trim>>
-----------------------------------------------------------------------------
(* The trim thread.  `t` is read once per pass, before any mutex is taken; *)
(* the stamps it is compared with are read later, under the class mutex.   *)

TrimWake ==
  /\ trim.pc = "sleep"
  /\ trim' = [pc |-> "lock", c |-> 1, t |-> 0]
  /\ UNCHANGED <<mu, slot, pc, reg, held, mapped, run, bump, wiped>>

TrimLock ==
  /\ trim.pc = "lock"
  /\ mu[trim.c] = None
  /\ mu' = [mu EXCEPT ![trim.c] = Trim]
  /\ trim' = [trim EXCEPT !.pc = "scan"]
  /\ UNCHANGED <<slot, pc, reg, held, mapped, run, bump, wiped>>

\* t - stamp >= idle in uint64_t: a stamp taken after t wraps around to a
\* number close to 2^64.
Elapsed(age, idle) == age < trim.t \/ age - trim.t >= idle

Expired(r) == run[r].used = 0 /\ Elapsed(run[r].lff, RunIdle)

\* MUTANT of Dirty: only empty runs are purged.
Dirty_EmptyOnly(r) ==
  ~ Expired(r) /\ run[r].used = 0 /\ Elapsed(run[r].touch, DirtyIdle)

Dirty(r) == ~ Expired(r) /\ Elapsed(run[r].touch, DirtyIdle)

Purged(r) == purge_pages(run[r].cls, run[r].free)

\* purge_run on every run of the class, under its mutex.
TrimScan ==
  LET scanned == {r \in mapped : run[r].cls = trim.c} IN
  /\ trim.pc = "scan"
  /\ mapped' = {r \in mapped : ~ (r \in scanned /\ Expired(r))}
  /\ run' = [r \in RunIds |->
       IF r \in scanned /\ Expired(r) THEN NewRun(1)
       ELSE IF r \in scanned /\ Dirty(r)
            THEN [run[r] EXCEPT !.touch = trim.t, !.rss = @ \ Purged(r)]
            ELSE run[r]]
  /\ wiped' = wiped \cup
       {b \in held : /\ b[1] \in scanned
                     /\ Dirty(b[1])
                     /\ \E k \in Purged(b[1]) : Overlaps(trim.c, b[2], k)}
  /\ mu' = [mu EXCEPT ![trim.c] = None]
  /\ trim' = IF trim.c < kNumClasses
             THEN [trim EXCEPT !.pc = "lock", !.c = @ + 1]
             ELSE [pc |-> "sleep", c |-> 1, t |-> 0]
  /\ UNCHANGED <<slot, pc, reg, held, bump>>
-----------------------------------------------------------------------------
(* fork, with the handlers ensure_init registers with pthread_atfork.      *)

ForkCall(t) ==
  /\ Goto(t, "idle", "k_slot")
  /\ UNCHANGED <<mu, slot, reg, held, mapped, run, bump, wiped, trim>>

ForkLockSlot(t) ==
  /\ Goto(t, "k_slot", "k_class")
  /\ slot = None
  /\ slot' = t
  /\ reg' = [reg EXCEPT ![t].c = 1]
  /\ UNCHANGED <<mu, held, mapped, run, bump, wiped, trim>>

ForkLockClass(t) ==
  LET c == reg[t].c IN
  /\ Goto(t, "k_class", IF c < kNumClasses THEN "k_class" ELSE "k_fork")
  /\ mu[c] = None
  /\ mu' = [mu EXCEPT ![c] = t]
  /\ reg' = [reg EXCEPT ![t].c = IF c < kNumClasses THEN c + 1 ELSE c]
  /\ UNCHANGED <<slot, held, mapped, run, bump, wiped, trim>>

\* atfork_release, the same handler in the parent and in the child.
AtforkRelease ==
  /\ mu' = [c \in Classes |-> None]
  /\ slot' = None

\* The behaviour goes on in the parent.
ForkParent(t) ==
  /\ Leave(t, "k_fork")
  /\ AtforkRelease
  /\ UNCHANGED <<held, mapped, run, bump, wiped, trim>>

\* The behaviour goes on in the child: a copy of the memory with one thread.
ForkChild(t) ==
  /\ pc[t] = "k_fork"
  /\ pc' = [u \in Threads |-> IF u = t THEN "idle" ELSE "gone"]
  /\ trim' = [pc |-> "gone", c |-> 1, t |-> 0]
  /\ reg' = [reg EXCEPT ![t] = NoReg]
  /\ AtforkRelease
  /\ UNCHANGED <<held, mapped, run, bump, wiped>>
-----------------------------------------------------------------------------
Older(age, cap) == IF age = NotFree \/ age = cap THEN age ELSE age + 1

\* A millisecond passes.
Tick ==
  /\ trim.pc \in {"sleep", "gone"} \/ trim.t < MaxPass
  /\ run' = [r \in RunIds |->
       IF r \in mapped
       THEN [run[r] EXCEPT !.lff = Older(@, RunAgeCap), !.touch = Older(@, TouchAgeCap)]
       ELSE run[r]]
  /\ trim' = IF trim.pc \in {"sleep", "gone"} THEN trim ELSE [trim EXCEPT !.t = @ + 1]
  /\ UNCHANGED <<mu, slot, pc, reg, held, mapped, bump, wiped>>

\* What the application chooses to do.
Call(t) ==
  \/ \E c \in Classes : MallocCall(t, c)
  \/ \E b \in held : FreeCall(t, b) \/ FreeIgnored(t, b)
  \/ t \in Forkers /\ ForkCall(t)

\* What a thread does once it has called.
Step(t) ==
  \/ MallocLock(t) \/ MallocFind(t) \/ MallocFindNone(t)
  \/ SlotLock(t) \/ RunNew(t) \/ RunNewFails(t) \/ RunTake(t)
  \/ FreeLock(t) \/ RunGive(t)
  \/ ForkLockSlot(t) \/ ForkLockClass(t) \/ ForkParent(t) \/ ForkChild(t)

TrimStep == TrimWake \/ TrimLock \/ TrimScan

Next ==
  \/ \E t \in Threads : Call(t) \/ Step(t)
  \/ TrimStep
  \/ Tick

Spec == Init /\ [][Next]_vars

\* Threads that have called malloc, free or fork are scheduled, the trim thread
\* is scheduled and time passes; nothing is assumed about who gets a mutex.
Fairness ==
  /\ \A t \in Threads : WF_vars(Step(t))
  /\ WF_vars(TrimStep)
  /\ WF_vars(Tick)

FairSpec == Spec /\ Fairness
-----------------------------------------------------------------------------
(* Properties                                                              *)

AppPCs == {"idle", "m_lock", "m_find", "m_slot", "m_map", "m_take",
           "f_lock", "f_give", "k_slot", "k_class", "k_fork", "gone"}

\* The shape of the state.
TypeOK ==
  /\ mu \in [Classes -> Threads \cup {Trim, None}]
  /\ slot \in Threads \cup {None}
  /\ pc \in [Threads -> AppPCs]
  /\ reg \in [Threads -> [c : Classes, r : {0} \cup RunIds, i : Nat]]
  /\ held \subseteq Blocks
  /\ mapped \subseteq 1 .. bump
  /\ run \in [RunIds -> Run]
  /\ bump \in 0 .. MaxRuns
  /\ wiped \subseteq held
  /\ trim \in [pc : {"sleep", "lock", "scan", "gone"}, c : Classes, t : 0 .. MaxPass]

\* Thread t is inside the critical section of g_mu[c].
InClass(t, c) ==
  \/ pc[t] \in {"m_find", "m_slot", "m_map", "m_take", "f_give"} /\ reg[t].c = c
  \/ pc[t] = "k_class" /\ c < reg[t].c
  \/ pc[t] = "k_fork"

InSlot(t) == pc[t] \in {"m_map", "k_class", "k_fork"}

\* A mutex is owned by the thread that is inside its critical section, on every
\* path through malloc, free, the trim thread and the fork handlers, in the
\* parent and in the child: none is left locked, none is released by another.
LocksMatchOwners ==
  /\ \A c \in Classes, t \in Threads : mu[c] = t <=> InClass(t, c)
  /\ \A c \in Classes : mu[c] = Trim <=> trim.pc = "scan" /\ trim.c = c
  /\ \A t \in Threads : slot = t <=> InSlot(t)

\* Block i of run r is out: its run is mapped and its bit is 0.
Taken(r, i) == r \in mapped /\ i \in Idx(run[r].cls) \ run[r].free

\* The block thread t is giving back has left the application, not yet the run.
Giving(t) == pc[t] \in {"f_lock", "f_give"}

\* A block the application holds lies in a mapped run and is marked as taken,
\* whatever the trim thread, the other threads and a fork do meanwhile: malloc
\* cannot give it a second time and the run below it is not unmapped.
HeldBlocksTaken == \A b \in held : Taken(b[1], b[2])

\* The same for a block in a free() that waits for the class mutex: the run the
\* thread found without any lock is still there when it gets the lock, no other
\* thread is freeing the block, and nobody else was given it.
BlocksInFreeTaken ==
  \A t \in Threads : Giving(t) =>
    /\ Taken(reg[t].r, reg[t].i)
    /\ run[reg[t].r].cls = reg[t].c
    /\ <<reg[t].r, reg[t].i>> \notin held
    /\ \A u \in Threads \ {t} :
         Giving(u) => <<reg[u].r, reg[u].i>> # <<reg[t].r, reg[t].i>>

\* The block malloc has chosen is still free, in a mapped run of the right class,
\* when its bit is cleared.
ChosenBlockFree ==
  \A t \in Threads : pc[t] = "m_take" =>
    /\ reg[t].r \in mapped
    /\ run[reg[t].r].cls = reg[t].c
    /\ reg[t].i \in run[reg[t].r].free

\* Run::used, which alone decides whether a run is full and whether it may be
\* unmapped, is the number of bits that are 0; an empty run has a time stamp.
UsedCountsBlocks ==
  \A r \in mapped :
    /\ run[r].free \subseteq Idx(run[r].cls)
    /\ run[r].used = Cardinality(Idx(run[r].cls) \ run[r].free)
    /\ run[r].lff = NotFree <=> run[r].used # 0

\* What makes the heap safe; inductive together with TypeOK.
HeapSafe ==
  /\ LocksMatchOwners
  /\ HeldBlocksTaken
  /\ BlocksInFreeTaken
  /\ ChosenBlockFree
  /\ UsedCountsBlocks

\* purge_run never destroys the contents of a block the application holds: what
\* README.md:158 promises, and true only of sizes that divide the page.
NoLiveDataWiped == wiped = {}

\* The block b crosses the boundary between two pages of its run.
Crosses(b) == Straddles(run[b[1]].cls, b[2])

\* What does hold, of any table of sizes: of the blocks the application holds,
\* purge_run destroys bytes only of those that cross a page boundary.  Whatever
\* else is on a page it drops is free, through every interleaving and fork.
OnlyStraddlersWiped == \A b \in wiped : Crosses(b)

\* Every block that is out is held by the application or on its way back in a
\* free(): a pointer given to free is never dropped.  Two exceptions: the blocks
\* that start kRunSize or more after the base of their run, and, in the child of
\* a fork, the block that a thread the child does not have was giving back.
NoBlockLost ==
  \A r \in mapped : \A i \in Idx(run[r].cls) \ run[r].free :
    block_offset(run[r].cls, i) < kRunSize =>
      \/ <<r, i>> \in held
      \/ \E t \in Threads :
           (Giving(t) \/ pc[t] = "gone") /\ reg[t].r = r /\ reg[t].i = i

\* The owner of the mutex that thread t is waiting for.
WaitsFor(t) ==
  CASE pc[t] \in {"m_lock", "f_lock", "k_class"} -> mu[reg[t].c]
    [] pc[t] \in {"m_slot", "k_slot"} -> slot
    [] OTHER -> None

\* No set of threads wait for each other: taking a class mutex, then g_slot_mu
\* when a new run is needed, never ends in a circle with the other users of the
\* two mutexes.
NoCircularWait ==
  \A S \in (SUBSET Threads) \ {{}} : \E t \in S : WaitsFor(t) \notin S

Quiet == \A t \in Threads : pc[t] \in {"idle", "gone"}

\* Once the application leaves the heap alone, the trim thread gives back every
\* run that is entirely free.
FreeRunsReturned ==
  <>[]Quiet => <>[](\A r \in mapped : run[r].free # Idx(run[r].cls))

\* ... and, of the runs that stay, every page on which no block is taken.
FreePagesReturned ==
  <>[]Quiet =>
    <>[](\A r \in mapped : \A k \in run[r].rss :
           \E i \in Idx(run[r].cls) \ run[r].free : Overlaps(run[r].cls, i, k))
-----------------------------------------------------------------------------
(* The abstract heap.  A held block is damaged when its run has been       *)
(* unmapped, or when madvise has dropped a page of it; a block that        *)
(* crosses a page boundary is exempt from the latter, since the purge does *)
(* not spare it (NoLiveDataWiped).                                         *)

H == INSTANCE Heap WITH
       Block <- Blocks,
       held <- held,
       damaged <- {b \in wiped : ~ Crosses(b)} \cup {b \in held : b[1] \notin mapped}

\* The allocator implements the abstract heap: every step of a thread, of the
\* trim thread or of fork is a malloc of a block nobody holds, a free of a held
\* one, or changes nothing the application can see, the contents of the blocks
\* that cross a page boundary apart.
ImplementsHeap == H!Spec
=============================================================================
