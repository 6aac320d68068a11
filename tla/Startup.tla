------------------------------- MODULE Startup -------------------------------
(***************************************************************************)
(* The first calls of malloc.  Threads race through ensure_init: one maps  *)
(* the reserve, one runs do_init under pthread_once, one registers the     *)
(* fork handlers and starts the trim thread, and none waits for the        *)
(* others except inside pthread_once.  A thread that has passed malloc's   *)
(* test of g_ready allocates at once, from the reserve if it sees one.     *)
(*                                                                         *)
(* Abstractions.  A thread calls malloc and then free once.  Every malloc  *)
(* needs a new run, and the run's address stands for the block's.  An      *)
(* address is a number: a reserve is [b, b + Slots) for a multiple b of    *)
(* 2 * Slots, addresses below the first one are those an unset g_res_bump  *)
(* counts through, and the kernel's other mappings are above Elsewhere.    *)
(***************************************************************************)
EXTENDS Integers, FiniteSets

CONSTANTS
  Threads,
  Slots,           \* runs in the reserve: more than the threads use
  MayFail          \* the kernel may refuse the reserve or the trim thread

ASSUME StartupAssumption ==
  /\ IsFiniteSet(Threads) /\ Threads # {}
  /\ Slots \in Nat /\ Slots > Cardinality(Threads) + 1
  /\ MayFail \in BOOLEAN

VARIABLES
  res_done, started,                    \* the two flags of ensure_init
  g_init_once,                          \* "new", "running" or "done"
  g_ready,
  g_res_start, g_res_end, g_res_bump,
  pc,
  reg,       \* per thread: reserve_init's p; what pthread_create's malloc is ("no", "early"
             \* or "late"); the pointer malloc returned; whether its call began before there
             \* was a reserve; what free did with it
  did        \* history: how often each part was done, and why there is no trim thread

flags == <<res_done, started, g_init_once, g_ready>>
reserve == <<g_res_start, g_res_end, g_res_bump>>
svars == <<flags, reserve, pc, reg, did>>

\* Above every reserve that the threads could map.
Elsewhere == 2 * Slots * (Cardinality(Threads) + 1)

\* The reserve can be used: its three words are stored.
Published == g_res_bump >= g_res_start /\ g_res_end > 0

StartupInit ==
  /\ res_done = FALSE /\ started = FALSE
  /\ g_init_once = "new" /\ g_ready = FALSE
  /\ g_res_start = 0 /\ g_res_end = 0 /\ g_res_bump = 0
  /\ pc = [t \in Threads |-> "new"]
  /\ reg = [t \in Threads |-> [base |-> 0, nested |-> "no", ptr |-> 0, early |-> FALSE, freed |-> "no"]]
  /\ did = [map |-> 0, init |-> 0, atfork |-> 0, trim |-> 0, refused |-> "no"]

At(t, l) == pc[t] = l
Goto(t, l) == pc' = [pc EXCEPT ![t] = l]
-----------------------------------------------------------------------------
(* ensure_init                                                             *)

\* malloc is called, and tests g_ready.
MallocCall(t) ==
  /\ At(t, "new")
  /\ Goto(t, IF g_ready THEN "place" ELSE "started")
  /\ reg' = [reg EXCEPT ![t].early = ~ Published]
  /\ UNCHANGED <<flags, reserve, did>>

\* if(started) return
TestStarted(t) ==
  /\ At(t, "started")
  /\ Goto(t, IF started THEN "check" ELSE "reserve")
  /\ UNCHANGED <<flags, reserve, reg, did>>

\* MUTANT of ClaimReserve: a test of the flag in place of the exchange.
ClaimReserve_NoExchange(t) ==
  /\ At(t, "reserve")
  /\ Goto(t, IF res_done THEN "once" ELSE "mmap")
  /\ UNCHANGED <<flags, reserve, reg, did>>

\* The exchange on res_done; nobody waits for the winner.
ClaimReserve(t) ==
  /\ At(t, "reserve")
  /\ Goto(t, IF res_done THEN "once" ELSE "mmap")
  /\ res_done' = TRUE
  /\ UNCHANGED <<started, g_init_once, g_ready, reserve, reg, did>>

\* reserve_init: the mapping.
ReserveMmap(t) ==
  /\ At(t, "mmap")
  /\ \/ /\ did' = [did EXCEPT !.map = @ + 1]
        /\ reg' = [reg EXCEPT ![t].base = 2 * Slots * did'.map]
        /\ Goto(t, "start")
     \/ /\ MayFail
        /\ Goto(t, "once")
        /\ UNCHANGED <<did, reg>>
  /\ UNCHANGED <<flags, reserve>>

\* MUTANT of ReserveEnd: the size is taken for the end.
ReserveEnd_Size(b) == Slots

ReserveEnd(b) == b + Slots

\* Its three stores, which others may see one by one.
ReserveStore(t) ==
  /\ \/ /\ At(t, "start") /\ Goto(t, "end")
        /\ g_res_start' = reg[t].base
        /\ UNCHANGED <<g_res_end, g_res_bump>>
     \/ /\ At(t, "end") /\ Goto(t, "bump")
        /\ g_res_end' = ReserveEnd(g_res_start)
        /\ UNCHANGED <<g_res_start, g_res_bump>>
     \/ /\ At(t, "bump") /\ Goto(t, "once")
        /\ g_res_bump' = g_res_start
        /\ UNCHANGED <<g_res_start, g_res_end>>
  /\ UNCHANGED <<flags, reg, did>>

\* MUTANT of Once: do_init sets g_ready before the rest.
Once_ReadyFirst(t) ==
  /\ At(t, "once")
  /\ g_init_once # "running"
  /\ Goto(t, IF g_init_once = "new" THEN "do_init" ELSE "claim")
  /\ g_init_once' = IF g_init_once = "new" THEN "running" ELSE "done"
  /\ g_ready' = TRUE
  /\ UNCHANGED <<res_done, started, reserve, reg, did>>

\* pthread_once: the first runs do_init, the others wait for it to return.
Once(t) ==
  /\ At(t, "once")
  /\ g_init_once # "running"
  /\ Goto(t, IF g_init_once = "new" THEN "do_init" ELSE "claim")
  /\ g_init_once' = IF g_init_once = "new" THEN "running" ELSE "done"
  /\ UNCHANGED <<res_done, started, g_ready, reserve, reg, did>>

\* do_init: settings, mutexes, key.
DoInit(t) ==
  /\ At(t, "do_init")
  /\ Goto(t, "ready")
  /\ did' = [did EXCEPT !.init = @ + 1]
  /\ UNCHANGED <<flags, reserve, reg>>

\* MUTANT of Ready: an allocation on the way, a log line say, calls malloc again.
Ready_Allocates(t) ==
  /\ At(t, "ready")
  /\ Goto(t, "started")
  /\ UNCHANGED <<flags, reserve, reg, did>>

\* g_ready = true, and the end of do_init.
Ready(t) ==
  /\ At(t, "ready")
  /\ Goto(t, "claim")
  /\ g_ready' = TRUE
  /\ g_init_once' = "done"
  /\ UNCHANGED <<res_done, started, reserve, reg, did>>

\* MUTANTS of ClaimStart: a test in place of the exchange; exp2 initialised to true.
ClaimStart_NoExchange(t) ==
  /\ At(t, "claim")
  /\ Goto(t, IF started THEN "check" ELSE "atfork")
  /\ UNCHANGED <<flags, reserve, reg, did>>
ClaimStart_WrongExpected(t) ==
  /\ At(t, "claim")
  /\ Goto(t, IF started THEN "atfork" ELSE "check")
  /\ UNCHANGED <<flags, reserve, reg, did>>

\* The exchange on started.
ClaimStart(t) ==
  /\ At(t, "claim")
  /\ Goto(t, IF started \/ ~ g_ready THEN "check" ELSE "atfork")
  /\ started' = (started \/ g_ready)
  /\ UNCHANGED <<res_done, g_init_once, g_ready, reserve, reg, did>>

\* pthread_atfork, then start_trim: pthread_create allocates the thread's data, which
\* is a call of malloc from inside the first one.
StartTrim(t) ==
  /\ At(t, "atfork")
  /\ Goto(t, IF g_ready THEN "place" ELSE "started")
  /\ did' = [did EXCEPT !.atfork = @ + 1]
  /\ reg' = [reg EXCEPT ![t].nested = IF Published THEN "late" ELSE "early"]
  /\ UNCHANGED <<flags, reserve>>

\* The rest of pthread_create and of ensure_init.  If there was no memory, or the kernel
\* gives no thread, there is no trim thread, and nobody tries again.
TrimStarted(t) ==
  /\ \/ At(t, "created") /\ did' = [did EXCEPT !.trim = @ + 1]
     \/ At(t, "created") /\ MayFail /\ did' = [did EXCEPT !.refused = "kernel"]
     \/ At(t, "no memory") /\ did' = [did EXCEPT !.refused = reg[t].nested]
  /\ Goto(t, "check")
  /\ reg' = [reg EXCEPT ![t].nested = "no"]
  /\ UNCHANGED <<flags, reserve>>
-----------------------------------------------------------------------------
(* malloc and free                                                         *)

\* if(!g_ready) return nullptr
Check(t) ==
  /\ At(t, "check")
  /\ Goto(t, IF g_ready THEN "place" ELSE "done")
  /\ UNCHANGED <<flags, reserve, reg, did>>

\* The memory of pthread_create is never given back; that of a call is the thread's.
Got(t, p) ==
  IF reg[t].nested = "no"
  THEN Goto(t, "held") /\ reg' = [reg EXCEPT ![t].ptr = p]
  ELSE Goto(t, IF p = 0 THEN "no memory" ELSE "created") /\ UNCHANGED reg

\* run_new, with the mutex of the class: is there a reserve?
Place(t) ==
  /\ At(t, "place")
  /\ \/ g_res_start # 0 /\ Goto(t, "fetch") /\ UNCHANGED reg
     \/ g_res_start = 0 /\ \E q \in Elsewhere + 1 .. Elsewhere + Cardinality(Threads) :
          (\A u \in Threads : reg[u].ptr # q) /\ Got(t, q)
  /\ UNCHANGED <<flags, reserve, did>>

\* reserve_map.  Nothing can be mapped at address 0.
Fetch(t) ==
  /\ At(t, "fetch")
  /\ g_res_bump' = g_res_bump + 1
  /\ Got(t, IF g_res_bump < g_res_end THEN g_res_bump ELSE 0)
  /\ UNCHANGED <<flags, g_res_start, g_res_end, did>>

in_reserve(p) == p >= g_res_start /\ p < g_res_end

\* free: to the libc, to its run, or nowhere.
Free(t) ==
  /\ At(t, "held")
  /\ Goto(t, "done")
  /\ reg' = [reg EXCEPT ![t].freed =
       IF reg[t].ptr = 0 THEN "no"
       ELSE IF in_reserve(reg[t].ptr) THEN "run"
       ELSE IF g_res_start # 0 THEN "libc" ELSE "ignored"]
  /\ UNCHANGED <<flags, reserve, did>>

InCall(t) ==
  \/ TestStarted(t) \/ ClaimReserve(t) \/ ReserveMmap(t) \/ ReserveStore(t)
  \/ Once(t) \/ DoInit(t) \/ Ready(t) \/ ClaimStart(t) \/ StartTrim(t) \/ TrimStarted(t)
  \/ Check(t) \/ Place(t) \/ Fetch(t)

StartupNext == \E t \in Threads : MallocCall(t) \/ InCall(t) \/ Free(t)

\* A thread inside malloc is scheduled.
StartupSpec ==
  StartupInit /\ [][StartupNext]_svars /\ \A t \in Threads : WF_svars(InCall(t))
-----------------------------------------------------------------------------
(* Properties                                                              *)

\* Types of the state of the initialisation: what in_reserve compares with is unset or
\* is the two ends of a reserve that was mapped.
StartupTypeOK ==
  /\ res_done \in BOOLEAN /\ started \in BOOLEAN /\ g_ready \in BOOLEAN
  /\ g_init_once \in {"new", "running", "done"}
  /\ did \in [map : Nat, init : Nat, atfork : Nat, trim : Nat,
              refused : {"no", "kernel", "early", "late"}]
  /\ g_res_start \in {2 * Slots * k : k \in 0 .. did.map}
  /\ g_res_end \in {0} \cup {Slots + 2 * Slots * k : k \in 1 .. did.map}
  /\ g_res_bump \in Nat
  /\ pc \in [Threads -> {"new", "started", "reserve", "mmap", "start", "end", "bump", "once",
                         "do_init", "ready", "claim", "atfork", "created", "no memory",
                         "check", "place", "fetch", "held", "done"}]
  /\ reg \in [Threads -> [base : Nat, nested : {"no", "early", "late"}, ptr : Nat,
                          early : BOOLEAN, freed : {"no", "run", "libc", "ignored"}]]

\* However many threads enter ensure_init at once, the reserve is mapped, do_init run,
\* the fork handlers registered and the trim thread started at most once: handlers
\* registered twice would make fork wait for the mutexes it has just taken.
AtMostOnce == did.map <= 1 /\ did.init <= 1 /\ did.atfork <= 1 /\ did.trim <= 1

\* Nobody takes a class mutex, and no trim thread exists, before do_init has
\* initialised the mutexes or while it does.
MutexesReady ==
  (did.trim > 0 \/ \E t \in Threads : pc[t] \in {"place", "fetch", "created"}) =>
    did.init > 0 /\ \A t \in Threads : pc[t] # "do_init"

\* Two threads never hold the same address, even while the words of the reserve are
\* being stored under them.
NoSharedPointer ==
  \A t, u \in Threads : t # u /\ reg[t].ptr # 0 => reg[t].ptr # reg[u].ptr

\* A call that begins once the reserve is there is served from it: free recognises its
\* pointer and neither ignores it nor gives it to the libc, which does not know it, and
\* the trim thread is not lost for want of memory.
LateCallsServed ==
  /\ \A t \in Threads : At(t, "done") /\ ~ reg[t].early => reg[t].freed = "run"
  /\ did.refused # "late"

\* Every malloc returns: no thread waits for ever for another one's initialisation,
\* nor for its own.
MallocReturns == \A t \in Threads : pc[t] # "new" ~> pc[t] \in {"held", "done"}

\* Once somebody has called malloc, the allocator is complete in the end: the fork
\* handlers are there and the trim thread has been started, or refused for good,
\* whoever won which of the races.
StartupCompletes ==
  (\E t \in Threads : pc[t] # "new") ~>
    (g_ready /\ started /\ did.atfork > 0 /\ (did.trim > 0 \/ did.refused # "no"))
===============================================================================
