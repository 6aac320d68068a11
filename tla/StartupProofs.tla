---------------------------- MODULE StartupProofs ----------------------------
(***************************************************************************)
(* Proofs about the first calls of malloc: for any number of threads and   *)
(* any reserve that has room for them, everything is initialised once and  *)
(* before it is used, no two threads get the same memory, and a call that  *)
(* comes after the reserve is served from it.                              *)
(***************************************************************************)
EXTENDS Startup, FiniteSetTheorems, TLAPS

Labels == {"new", "started", "reserve", "mmap", "start", "end", "bump", "once",
           "do_init", "ready", "claim", "atfork", "created", "no memory",
           "check", "place", "fetch", "held", "done"}

Regs == [Threads -> [base : Nat, nested : {"no", "early", "late"}, ptr : Nat,
                     early : BOOLEAN, freed : {"no", "run", "libc", "ignored"}]]

Dids == [map : Nat, init : Nat, atfork : Nat, trim : Nat,
         refused : {"no", "kernel", "early", "late"}]

\* Types, without the two ends of the reserve.
Types ==
  /\ res_done \in BOOLEAN /\ started \in BOOLEAN /\ g_ready \in BOOLEAN
  /\ g_init_once \in {"new", "running", "done"}
  /\ did \in Dids
  /\ g_res_start \in Nat /\ g_res_end \in Nat /\ g_res_bump \in Nat
  /\ pc \in [Threads -> Labels]
  /\ reg \in Regs

\* The flags of pthread_once and do_init move together.
OnceFlags ==
  /\ started => g_ready
  /\ g_ready <=> g_init_once = "done"
  /\ g_init_once = "new" => did.init = 0
  /\ g_init_once = "done" => did.init = 1
  /\ did.init <= 1

\* One thread at most is in do_init.
OnceAlone ==
  /\ \A t \in Threads : pc[t] \in {"do_init", "ready"} => g_init_once = "running"
  /\ \A t \in Threads : pc[t] = "do_init" => did.init = 0
  /\ \A t \in Threads : pc[t] = "ready" => did.init = 1
  /\ \A t, u \in Threads :
       pc[t] \in {"do_init", "ready"} /\ pc[u] \in {"do_init", "ready"} => t = u

\* Nobody has passed do_init before it has ended.
OncePassed ==
  \A t \in Threads :
    pc[t] \in {"claim", "atfork", "created", "no memory", "check", "place", "fetch", "held"}
      => g_ready

OnceInv == OnceFlags /\ OnceAlone /\ OncePassed

\* The thread that won the exchange on started, until the trim thread is settled.
Starter(t) == pc[t] = "atfork" \/ reg[t].nested # "no"

\* There is one at most, and nothing has come of it yet.
StarterAlone ==
  /\ \A t \in Threads : Starter(t) => started /\ did.trim = 0 /\ did.refused = "no"
  /\ \A t, u \in Threads : Starter(t) /\ Starter(u) => t = u

\* Where it can be.
StarterPlace ==
  \A t \in Threads :
    /\ pc[t] = "atfork" => reg[t].nested = "no" /\ did.atfork = 0
    /\ reg[t].nested # "no" => pc[t] \in {"place", "fetch", "created", "no memory"}
    /\ pc[t] \in {"created", "no memory"} => reg[t].nested # "no"

StarterCount ==
  /\ ~ started => did.atfork = 0 /\ did.trim = 0 /\ did.refused = "no"
  /\ did.atfork <= 1 /\ did.trim <= 1

StarterInv == StarterAlone /\ StarterPlace /\ StarterCount

\* The thread that won the exchange on res_done, until the reserve is stored.
Mapper(t) == pc[t] \in {"mmap", "start", "end", "bump"}

\* How far the three stores have come.
MapperInv ==
  /\ \A t \in Threads : Mapper(t) => res_done
  /\ \A t, u \in Threads : Mapper(t) /\ Mapper(u) => t = u
  /\ ~ res_done => did.map = 0
  /\ did.map \in {0, 1}
  /\ \/ g_res_start = 0 /\ g_res_end = 0
     \/ did.map = 1 /\ g_res_start = 2 * Slots /\ g_res_end \in {0, 3 * Slots}
  /\ \A t \in Threads :
       /\ pc[t] = "mmap" => did.map = 0
       /\ pc[t] = "start" => did.map = 1 /\ reg[t].base = 2 * Slots /\ g_res_start = 0
       /\ pc[t] = "end" => g_res_start = 2 * Slots /\ g_res_end = 0
       /\ pc[t] = "bump" => g_res_start = 2 * Slots /\ g_res_end = 3 * Slots

\* How often reserve_map may have been called: once by every thread whose malloc has
\* returned, and once by pthread_create's.
Returned == {t \in Threads : pc[t] \in {"held", "done"}}
NestedReturned ==
  \/ did.trim > 0 \/ did.refused # "no"
  \/ \E t \in Threads : pc[t] \in {"created", "no memory"}
Used == Cardinality(Returned) + IF NestedReturned THEN 1 ELSE 0

\* g_res_bump counts the calls, from 0 and then from the start of the reserve.
BumpInv ==
  \/ g_res_bump <= Used
  \/ /\ g_res_start = 2 * Slots /\ g_res_end = 3 * Slots
     /\ 2 * Slots <= g_res_bump /\ g_res_bump - 2 * Slots <= Used
     /\ \A t \in Threads : ~ Mapper(t)

\* What has been given out is below g_res_bump or not from the reserve at all.
PtrInv ==
  /\ \A t \in Threads :
       reg[t].ptr # 0 => reg[t].ptr < g_res_bump \/ reg[t].ptr > Elsewhere
  /\ NoSharedPointer

\* Whoever began after the reserve was there sees it,
LateSees ==
  \A t \in Threads :
    /\ pc[t] # "new" /\ ~ reg[t].early => Published
    /\ reg[t].nested = "late" => Published

\* and gets its memory from it.
LateGets ==
  /\ \A t \in Threads :
       /\ pc[t] = "held" /\ ~ reg[t].early => in_reserve(reg[t].ptr) /\ reg[t].ptr # 0
       /\ pc[t] = "done" /\ ~ reg[t].early => reg[t].freed = "run"
       /\ pc[t] = "no memory" => reg[t].nested # "late"
  /\ did.refused # "late"

StartupIInv ==
  Types /\ OnceInv /\ StarterInv /\ MapperInv /\ BumpInv /\ PtrInv
  /\ LateSees /\ LateGets
-------------------------------------------------------------------------------
(* Arithmetic and counting.                                                *)

\* The kernel's other mappings are above the reserve, and numbers.
LEMMA ElsewhereHigh == Elsewhere \in Nat /\ 3 * Slots < Elsewhere
  <1>1. Cardinality(Threads) \in Nat
    BY StartupAssumption, FS_CardinalityType DEF StartupAssumption
  <1>2. Cardinality(Threads) > 0
    BY <1>1, StartupAssumption, FS_EmptySet DEF StartupAssumption
  <1>3. PICK c \in Nat : Cardinality(Threads) = c /\ c >= 1
    BY <1>1, <1>2
  <1>4. 2 * Slots * (c + 1) = 2 * Slots * (c - 1) + 4 * Slots /\ 2 * Slots * (c - 1) \in Nat
    BY <1>3, StartupAssumption DEF StartupAssumption
  <1> QED
    BY <1>3, <1>4, StartupAssumption DEF StartupAssumption, Elsewhere

\* Threads are counted.
LEMMA CountBound ==
  ASSUME NEW S \in SUBSET Threads
  PROVE  /\ IsFiniteSet(S) /\ Cardinality(S) \in Nat
         /\ Cardinality(S) + 1 < Slots
  <1>1. IsFiniteSet(S) /\ Cardinality(S) <= Cardinality(Threads)
    BY FS_Subset, StartupAssumption DEF StartupAssumption
  <1>2. Cardinality(S) \in Nat /\ Cardinality(Threads) \in Nat
    BY <1>1, FS_CardinalityType, StartupAssumption DEF StartupAssumption
  <1> QED
    BY <1>1, <1>2, StartupAssumption DEF StartupAssumption

LEMMA SlotsPositive == Slots \in Nat \ {0}
  BY CountBound, StartupAssumption DEF StartupAssumption

-------------------------------------------------------------------------------
(* What a step does, field by field.                                       *)

\* Thread t goes to l, and its registers become what is given; no other thread is touched.
After(t, l, b, n, p, e, f) ==
  /\ pc'[t] = l
  /\ reg'[t].base = b /\ reg'[t].nested = n /\ reg'[t].ptr = p
  /\ reg'[t].early <=> e
  /\ reg'[t].freed = f
  /\ \A u \in Threads \ {t} : pc'[u] = pc[u] /\ reg'[u] = reg[u]

DidIs(m, i, a, n, r) ==
  /\ did'.map = m /\ did'.init = i /\ did'.atfork = a /\ did'.trim = n /\ did'.refused = r

MallocCallDoes(t) ==
  /\ pc[t] = "new"
  /\ \/ g_ready /\ pc'[t] = "place"
     \/ ~ g_ready /\ pc'[t] = "started"
  /\ After(t, pc'[t], reg[t].base, reg[t].nested, reg[t].ptr, ~ Published, reg[t].freed)
  /\ DidIs(did.map, did.init, did.atfork, did.trim, did.refused)
  /\ UNCHANGED <<res_done, started, g_init_once, g_ready, g_res_start, g_res_end, g_res_bump>>

TestStartedDoes(t) ==
  /\ pc[t] = "started"
  /\ \/ started /\ pc'[t] = "check"
     \/ ~ started /\ pc'[t] = "reserve"
  /\ After(t, pc'[t], reg[t].base, reg[t].nested, reg[t].ptr, reg[t].early, reg[t].freed)
  /\ DidIs(did.map, did.init, did.atfork, did.trim, did.refused)
  /\ UNCHANGED <<res_done, started, g_init_once, g_ready, g_res_start, g_res_end, g_res_bump>>

ClaimReserveDoes(t) ==
  /\ pc[t] = "reserve"
  /\ \/ res_done /\ pc'[t] = "once"
     \/ ~ res_done /\ pc'[t] = "mmap"
  /\ After(t, pc'[t], reg[t].base, reg[t].nested, reg[t].ptr, reg[t].early, reg[t].freed)
  /\ DidIs(did.map, did.init, did.atfork, did.trim, did.refused)
  /\ res_done' = TRUE
  /\ UNCHANGED <<started, g_init_once, g_ready, g_res_start, g_res_end, g_res_bump>>

ReserveMmapDoes(t) ==
  /\ pc[t] = "mmap"
  /\ UNCHANGED <<res_done, started, g_init_once, g_ready, g_res_start, g_res_end, g_res_bump>>
  /\ \/ /\ After(t, "start", 2 * Slots * (did.map + 1),
                 reg[t].nested, reg[t].ptr, reg[t].early, reg[t].freed)
        /\ DidIs(did.map + 1, did.init, did.atfork, did.trim, did.refused)
     \/ /\ After(t, "once", reg[t].base, reg[t].nested, reg[t].ptr, reg[t].early, reg[t].freed)
        /\ DidIs(did.map, did.init, did.atfork, did.trim, did.refused)

ReserveStoreDoes(t) ==
  /\ UNCHANGED <<res_done, started, g_init_once, g_ready>>
  /\ \/ /\ pc[t] = "start"
        /\ After(t, "end", reg[t].base, reg[t].nested, reg[t].ptr, reg[t].early, reg[t].freed)
        /\ DidIs(did.map, did.init, did.atfork, did.trim, did.refused)
        /\ g_res_start' = reg[t].base
        /\ UNCHANGED <<g_res_end, g_res_bump>>
     \/ /\ pc[t] = "end"
        /\ After(t, "bump", reg[t].base, reg[t].nested, reg[t].ptr, reg[t].early, reg[t].freed)
        /\ DidIs(did.map, did.init, did.atfork, did.trim, did.refused)
        /\ g_res_end' = ReserveEnd(g_res_start)
        /\ UNCHANGED <<g_res_start, g_res_bump>>
     \/ /\ pc[t] = "bump"
        /\ After(t, "once", reg[t].base, reg[t].nested, reg[t].ptr, reg[t].early, reg[t].freed)
        /\ DidIs(did.map, did.init, did.atfork, did.trim, did.refused)
        /\ g_res_bump' = g_res_start
        /\ UNCHANGED <<g_res_start, g_res_end>>

OnceDoes(t) ==
  /\ pc[t] = "once" /\ g_init_once # "running"
  /\ \/ g_init_once = "new" /\ pc'[t] = "do_init"
     \/ g_init_once # "new" /\ pc'[t] = "claim"
  /\ After(t, pc'[t], reg[t].base, reg[t].nested, reg[t].ptr, reg[t].early, reg[t].freed)
  /\ DidIs(did.map, did.init, did.atfork, did.trim, did.refused)
  /\ g_init_once' = IF g_init_once = "new" THEN "running" ELSE "done"
  /\ UNCHANGED <<res_done, started, g_ready, g_res_start, g_res_end, g_res_bump>>

DoInitDoes(t) ==
  /\ pc[t] = "do_init"
  /\ After(t, "ready", reg[t].base, reg[t].nested, reg[t].ptr, reg[t].early, reg[t].freed)
  /\ DidIs(did.map, did.init + 1, did.atfork, did.trim, did.refused)
  /\ UNCHANGED <<res_done, started, g_init_once, g_ready, g_res_start, g_res_end, g_res_bump>>

ReadyDoes(t) ==
  /\ pc[t] = "ready"
  /\ After(t, "claim", reg[t].base, reg[t].nested, reg[t].ptr, reg[t].early, reg[t].freed)
  /\ DidIs(did.map, did.init, did.atfork, did.trim, did.refused)
  /\ g_ready' = TRUE /\ g_init_once' = "done"
  /\ UNCHANGED <<res_done, started, g_res_start, g_res_end, g_res_bump>>

ClaimStartDoes(t) ==
  /\ pc[t] = "claim"
  /\ \/ (started \/ ~ g_ready) /\ pc'[t] = "check"
     \/ ~ (started \/ ~ g_ready) /\ pc'[t] = "atfork"
  /\ After(t, pc'[t], reg[t].base, reg[t].nested, reg[t].ptr, reg[t].early, reg[t].freed)
  /\ DidIs(did.map, did.init, did.atfork, did.trim, did.refused)
  /\ started' = (started \/ g_ready)
  /\ UNCHANGED <<res_done, g_init_once, g_ready, g_res_start, g_res_end, g_res_bump>>

StartTrimDoes(t) ==
  /\ pc[t] = "atfork"
  /\ \/ g_ready /\ pc'[t] = "place"
     \/ ~ g_ready /\ pc'[t] = "started"
  /\ After(t, pc'[t], reg[t].base, IF Published THEN "late" ELSE "early",
           reg[t].ptr, reg[t].early, reg[t].freed)
  /\ DidIs(did.map, did.init, did.atfork + 1, did.trim, did.refused)
  /\ UNCHANGED <<res_done, started, g_init_once, g_ready, g_res_start, g_res_end, g_res_bump>>

TrimStartedDoes(t) ==
  /\ UNCHANGED <<res_done, started, g_init_once, g_ready, g_res_start, g_res_end, g_res_bump>>
  /\ \/ /\ pc[t] = "created"
        /\ After(t, "check", reg[t].base, "no", reg[t].ptr, reg[t].early, reg[t].freed)
        /\ DidIs(did.map, did.init, did.atfork, did.trim + 1, did.refused)
     \/ /\ pc[t] = "created"
        /\ After(t, "check", reg[t].base, "no", reg[t].ptr, reg[t].early, reg[t].freed)
        /\ DidIs(did.map, did.init, did.atfork, did.trim, "kernel")
     \/ /\ pc[t] = "no memory"
        /\ After(t, "check", reg[t].base, "no", reg[t].ptr, reg[t].early, reg[t].freed)
        /\ DidIs(did.map, did.init, did.atfork, did.trim, reg[t].nested)

CheckDoes(t) ==
  /\ pc[t] = "check"
  /\ \/ g_ready /\ pc'[t] = "place"
     \/ ~ g_ready /\ pc'[t] = "done"
  /\ After(t, pc'[t], reg[t].base, reg[t].nested, reg[t].ptr, reg[t].early, reg[t].freed)
  /\ DidIs(did.map, did.init, did.atfork, did.trim, did.refused)
  /\ UNCHANGED <<res_done, started, g_init_once, g_ready, g_res_start, g_res_end, g_res_bump>>

PlaceDoes(t) ==
  /\ pc[t] = "place"
  /\ UNCHANGED <<res_done, started, g_init_once, g_ready, g_res_start, g_res_end, g_res_bump>>
  /\ \/ /\ g_res_start # 0
        /\ After(t, "fetch", reg[t].base, reg[t].nested, reg[t].ptr, reg[t].early, reg[t].freed)
        /\ DidIs(did.map, did.init, did.atfork, did.trim, did.refused)
     \/ /\ g_res_start = 0 /\ reg[t].nested # "no"
        /\ After(t, "created", reg[t].base, reg[t].nested, reg[t].ptr, reg[t].early, reg[t].freed)
        /\ DidIs(did.map, did.init, did.atfork, did.trim, did.refused)
     \/ /\ g_res_start = 0 /\ reg[t].nested = "no"
        /\ After(t, "held", reg[t].base, reg[t].nested, reg'[t].ptr, reg[t].early, reg[t].freed)
        /\ DidIs(did.map, did.init, did.atfork, did.trim, did.refused)
        /\ reg'[t].ptr \in Nat /\ reg'[t].ptr > Elsewhere
        /\ \A u \in Threads : reg[u].ptr # reg'[t].ptr

FetchDoes(t) ==
  /\ pc[t] = "fetch" /\ g_res_bump' = g_res_bump + 1
  /\ UNCHANGED <<res_done, started, g_init_once, g_ready, g_res_start, g_res_end>>
  /\ \/ /\ reg[t].nested = "no"
        /\ After(t, "held", reg[t].base, reg[t].nested, IF g_res_bump < g_res_end THEN g_res_bump ELSE 0,
                 reg[t].early, reg[t].freed)
        /\ DidIs(did.map, did.init, did.atfork, did.trim, did.refused)
     \/ /\ reg[t].nested # "no" /\ g_res_bump < g_res_end /\ g_res_bump # 0
        /\ After(t, "created", reg[t].base, reg[t].nested, reg[t].ptr, reg[t].early, reg[t].freed)
        /\ DidIs(did.map, did.init, did.atfork, did.trim, did.refused)
     \/ /\ reg[t].nested # "no" /\ (g_res_bump >= g_res_end \/ g_res_bump = 0)
        /\ After(t, "no memory", reg[t].base, reg[t].nested, reg[t].ptr, reg[t].early, reg[t].freed)
        /\ DidIs(did.map, did.init, did.atfork, did.trim, did.refused)

FreeDoes(t) ==
  /\ pc[t] = "held"
  /\ After(t, "done", reg[t].base, reg[t].nested, reg[t].ptr, reg[t].early, reg'[t].freed)
  /\ DidIs(did.map, did.init, did.atfork, did.trim, did.refused)
  /\ reg'[t].freed \in {"no", "run", "libc", "ignored"}
  /\ in_reserve(reg[t].ptr) /\ reg[t].ptr # 0 => reg'[t].freed = "run"
  /\ UNCHANGED <<res_done, started, g_init_once, g_ready, g_res_start, g_res_end, g_res_bump>>

\* Every step does what its action is said to do.
LEMMA StepDoes ==
  ASSUME Types, [StartupNext]_svars
  PROVE  \/ UNCHANGED svars
         \/ \E t \in Threads :
              \/ MallocCallDoes(t) \/ TestStartedDoes(t) \/ ClaimReserveDoes(t)
              \/ ReserveMmapDoes(t) \/ ReserveStoreDoes(t) \/ OnceDoes(t)
              \/ DoInitDoes(t) \/ ReadyDoes(t) \/ ClaimStartDoes(t)
              \/ StartTrimDoes(t) \/ TrimStartedDoes(t) \/ CheckDoes(t)
              \/ PlaceDoes(t) \/ FetchDoes(t) \/ FreeDoes(t)
  <1> USE DEF Types, Regs, Dids, After, DidIs, At, Goto, flags, reserve
  <1>1. ASSUME NEW t \in Threads, MallocCall(t) PROVE MallocCallDoes(t)
    BY <1>1 DEF MallocCall, MallocCallDoes
  <1>2. ASSUME NEW t \in Threads, TestStarted(t) PROVE TestStartedDoes(t)
    BY <1>2 DEF TestStarted, TestStartedDoes
  <1>3. ASSUME NEW t \in Threads, ClaimReserve(t) PROVE ClaimReserveDoes(t)
    BY <1>3 DEF ClaimReserve, ClaimReserveDoes
  <1>4. ASSUME NEW t \in Threads, ReserveMmap(t) PROVE ReserveMmapDoes(t)
    BY <1>4 DEF ReserveMmap, ReserveMmapDoes
  <1>5. ASSUME NEW t \in Threads, ReserveStore(t) PROVE ReserveStoreDoes(t)
    BY <1>5 DEF ReserveStore, ReserveStoreDoes
  <1>6. ASSUME NEW t \in Threads, Once(t) PROVE OnceDoes(t)
    BY <1>6 DEF Once, OnceDoes
  <1>7. ASSUME NEW t \in Threads, DoInit(t) PROVE DoInitDoes(t)
    BY <1>7 DEF DoInit, DoInitDoes
  <1>8. ASSUME NEW t \in Threads, Ready(t) PROVE ReadyDoes(t)
    BY <1>8 DEF Ready, ReadyDoes
  <1>9. ASSUME NEW t \in Threads, ClaimStart(t) PROVE ClaimStartDoes(t)
    BY <1>9 DEF ClaimStart, ClaimStartDoes
  <1>10. ASSUME NEW t \in Threads, StartTrim(t) PROVE StartTrimDoes(t)
    BY <1>10 DEF StartTrim, StartTrimDoes
  <1>11. ASSUME NEW t \in Threads, TrimStarted(t) PROVE TrimStartedDoes(t)
    <2> USE <1>11 DEF TrimStarted, TrimStartedDoes
    <2>1. CASE At(t, "created") /\ did' = [did EXCEPT !.trim = @ + 1]
      BY <2>1
    <2>2. CASE At(t, "created") /\ did' = [did EXCEPT !.refused = "kernel"]
      BY <2>2
    <2>3. CASE At(t, "no memory") /\ did' = [did EXCEPT !.refused = reg[t].nested]
      BY <2>3
    <2> QED
      BY <2>1, <2>2, <2>3
  <1>12. ASSUME NEW t \in Threads, Check(t) PROVE CheckDoes(t)
    BY <1>12 DEF Check, CheckDoes
  <1>13. ASSUME NEW t \in Threads, Place(t) PROVE PlaceDoes(t)
    <2> USE <1>13 DEF Place, PlaceDoes
    <2>1. CASE g_res_start # 0
      BY <2>1
    <2>2. CASE g_res_start = 0
      <3>1. PICK q \in Elsewhere + 1 .. Elsewhere + Cardinality(Threads) :
              (\A u \in Threads : reg[u].ptr # q) /\ Got(t, q)
        BY <2>2
      <3>2. q \in Nat /\ q > Elsewhere /\ q # 0
        BY <3>1, ElsewhereHigh
      <3>3. CASE reg[t].nested # "no"
        BY <2>2, <3>1, <3>2, <3>3 DEF Got
      <3>4. CASE reg[t].nested = "no"
        BY <2>2, <3>1, <3>2, <3>4 DEF Got
      <3> QED
        BY <3>3, <3>4
    <2> QED
      BY <2>1, <2>2
  <1>14. ASSUME NEW t \in Threads, Fetch(t) PROVE FetchDoes(t)
    <2> DEFINE q == IF g_res_bump < g_res_end THEN g_res_bump ELSE 0
    <2>1. Got(t, q)
      BY <1>14 DEF Fetch
    <2>2. q \in Nat /\ (q = 0 <=> g_res_bump >= g_res_end \/ g_res_bump = 0)
      BY DEF Types
    <2> USE <1>14 DEF Fetch, FetchDoes
    <2>3. CASE reg[t].nested # "no" /\ q # 0
      <3> HIDE DEF q
      <3> QED BY <2>1, <2>2, <2>3 DEF Got
    <2>4. CASE reg[t].nested # "no" /\ q = 0
      <3> HIDE DEF q
      <3> QED BY <2>1, <2>2, <2>4 DEF Got
    <2>5. CASE reg[t].nested = "no"
      BY <2>1, <2>2, <2>5 DEF Got
    <2> QED
      BY <2>3, <2>4, <2>5
  <1>15. ASSUME NEW t \in Threads, Free(t) PROVE FreeDoes(t)
    BY <1>15 DEF Free, in_reserve, FreeDoes
  <1> QED
    BY <1>1, <1>2, <1>3, <1>4, <1>5, <1>6, <1>7, <1>8, <1>9, <1>10, <1>11, <1>12, <1>13, <1>14,
       <1>15
    DEF StartupNext, InCall

-------------------------------------------------------------------------------
(* The invariant is preserved.                                             *)

\* Types are kept.
LEMMA TypesNext == Types /\ [StartupNext]_svars => Types'
  <1> SUFFICES ASSUME Types, [StartupNext]_svars PROVE Types'
    OBVIOUS
  <1> USE DEF At, Goto, flags, reserve
  <1>0. CASE UNCHANGED svars
    BY <1>0 DEF Types, svars
  <1>1. ASSUME NEW t \in Threads, MallocCall(t) PROVE Types'
    <2>1. pc' \in [Threads -> Labels]
      BY <1>1 DEF MallocCall, Types, Labels
    <2>2. reg' \in Regs
      BY <1>1 DEF MallocCall, Types, Regs
    <2> QED
      BY <1>1, <2>1, <2>2 DEF MallocCall, Types
  <1>2. ASSUME NEW t \in Threads, TestStarted(t) PROVE Types'
    BY <1>2 DEF TestStarted, Types, Labels
  <1>3. ASSUME NEW t \in Threads, ClaimReserve(t) PROVE Types'
    BY <1>3 DEF ClaimReserve, Types, Labels
  <1>4. ASSUME NEW t \in Threads, ReserveMmap(t) PROVE Types'
    <2>1. pc' \in [Threads -> Labels]
      BY <1>4 DEF ReserveMmap, Types, Labels
    <2>2. reg' \in Regs /\ did' \in Dids
      <3>1. CASE UNCHANGED <<did, reg>>
        BY <3>1 DEF Types
      <3>2. CASE /\ did' = [did EXCEPT !.map = @ + 1]
                 /\ reg' = [reg EXCEPT ![t].base = 2 * Slots * did'.map]
        <4>1. did' \in Dids /\ did'.map \in Nat
          BY <3>2 DEF Types, Dids
        <4>2. 2 * Slots * did'.map \in Nat
          BY <4>1, StartupAssumption DEF StartupAssumption
        <4> QED
          BY <3>2, <4>1, <4>2 DEF Types, Regs
      <3> QED
        BY <1>4, <3>1, <3>2 DEF ReserveMmap
    <2> QED
      BY <1>4, <2>1, <2>2 DEF ReserveMmap, Types
  <1>5. ASSUME NEW t \in Threads, ReserveStore(t) PROVE Types'
    <2>1. pc' \in [Threads -> Labels]
      BY <1>5 DEF ReserveStore, Types, Labels
    <2>4. g_res_start' \in Nat /\ g_res_end' \in Nat /\ g_res_bump' \in Nat
      BY <1>5, StartupAssumption DEF ReserveStore, ReserveEnd, Types, StartupAssumption, Regs
    <2> QED
      BY <1>5, <2>1, <2>4 DEF ReserveStore, Types
  <1>6. ASSUME NEW t \in Threads, Once(t) PROVE Types'
    BY <1>6 DEF Once, Types, Labels
  <1>7. ASSUME NEW t \in Threads, DoInit(t) PROVE Types'
    <2>1. pc' \in [Threads -> Labels]
      BY <1>7 DEF DoInit, Types, Labels
    <2>3. did' \in Dids
      BY <1>7 DEF DoInit, Types, Dids
    <2> QED
      BY <1>7, <2>1, <2>3 DEF DoInit, Types
  <1>8. ASSUME NEW t \in Threads, Ready(t) PROVE Types'
    BY <1>8 DEF Ready, Types, Labels
  <1>9. ASSUME NEW t \in Threads, ClaimStart(t) PROVE Types'
    BY <1>9 DEF ClaimStart, Types, Labels
  <1>10. ASSUME NEW t \in Threads, StartTrim(t) PROVE Types'
    <2>1. pc' \in [Threads -> Labels]
      BY <1>10 DEF StartTrim, Types, Labels
    <2>2. reg' \in Regs
      BY <1>10 DEF StartTrim, Types, Regs
    <2>3. did' \in Dids
      BY <1>10 DEF StartTrim, Types, Dids
    <2> QED
      BY <1>10, <2>1, <2>2, <2>3 DEF StartTrim, Types
  <1>11. ASSUME NEW t \in Threads, TrimStarted(t) PROVE Types'
    <2>1. pc' \in [Threads -> Labels]
      BY <1>11 DEF TrimStarted, Types, Labels
    <2>2. reg' \in Regs
      BY <1>11 DEF TrimStarted, Types, Regs
    <2>3. reg[t].nested \in {"no", "early", "late"}
      BY DEF Types, Regs
    <2>4. did' \in Dids
      <3>1. CASE did' = [did EXCEPT !.trim = @ + 1]
        BY <3>1 DEF Types, Dids
      <3>2. CASE did' = [did EXCEPT !.refused = "kernel"]
        BY <3>2 DEF Types, Dids
      <3>3. CASE did' = [did EXCEPT !.refused = reg[t].nested]
        BY <2>3, <3>3 DEF Types, Dids
      <3> QED
        BY <1>11, <3>1, <3>2, <3>3 DEF TrimStarted
    <2> QED
      BY <1>11, <2>1, <2>2, <2>4 DEF TrimStarted, Types
  <1>12. ASSUME NEW t \in Threads, Check(t) PROVE Types'
    BY <1>12 DEF Check, Types, Labels
  <1>13. ASSUME NEW t \in Threads, Place(t) PROVE Types'
    <2>1. CASE g_res_start # 0
      BY <1>13, <2>1 DEF Place, Types, Labels
    <2>2. CASE g_res_start = 0
      <3>1. PICK q \in Elsewhere + 1 .. Elsewhere + Cardinality(Threads) : Got(t, q)
        BY <1>13, <2>2 DEF Place
      <3>2. q \in Nat
        BY ElsewhereHigh
      <3>3. pc' \in [Threads -> Labels]
        BY <3>1 DEF Got, Types, Labels
      <3>4. reg' \in Regs
        <4>1. CASE reg[t].nested = "no"
          BY <3>1, <3>2, <4>1 DEF Got, Types, Regs
        <4>2. CASE reg[t].nested # "no"
          BY <3>1, <4>2 DEF Got, Types
        <4> QED
          BY <4>1, <4>2
      <3> QED
        BY <1>13, <3>3, <3>4 DEF Place, Types
    <2> QED
      BY <2>1, <2>2 DEF Types
  <1>14. ASSUME NEW t \in Threads, Fetch(t) PROVE Types'
    <2>1. PICK q \in Nat : Got(t, q)
      BY <1>14 DEF Fetch, Types
    <2>2. pc' \in [Threads -> Labels]
      BY <2>1 DEF Got, Types, Labels
    <2>3. reg' \in Regs
      <3>1. CASE reg[t].nested = "no"
        BY <2>1, <3>1 DEF Got, Types, Regs
      <3>2. CASE reg[t].nested # "no"
        BY <2>1, <3>2 DEF Got, Types
      <3> QED
        BY <3>1, <3>2
    <2> QED
      BY <1>14, <2>2, <2>3 DEF Fetch, Types
  <1>15. ASSUME NEW t \in Threads, Free(t) PROVE Types'
    <2>1. pc' \in [Threads -> Labels]
      BY <1>15 DEF Free, Types, Labels
    <2>2. reg' \in Regs
      BY <1>15 DEF Free, Types, Regs
    <2> QED
      BY <1>15, <2>1, <2>2 DEF Free, Types
  <1> QED
    BY <1>0, <1>1, <1>2, <1>3, <1>4, <1>5, <1>6, <1>7, <1>8, <1>9, <1>10, <1>11, <1>12, <1>13,
       <1>14, <1>15
    DEF StartupNext, InCall

\* What the other lemmas need of the types.
LEMMA Numbers ==
  ASSUME Types
  PROVE  /\ did.map \in Nat /\ did.init \in Nat /\ did.atfork \in Nat /\ did.trim \in Nat
         /\ \A t \in Threads : reg[t].ptr \in Nat /\ reg[t].base \in Nat
         /\ started \in BOOLEAN /\ g_ready \in BOOLEAN /\ res_done \in BOOLEAN
         /\ g_init_once \in {"new", "running", "done"}
  BY DEF Types, Dids, Regs

\* Whoever is inside pthread_once is alone there.
LEMMA OnceNext ==
  Types /\ OnceInv /\ [StartupNext]_svars => OnceInv'
  <1> SUFFICES ASSUME Types, OnceInv, [StartupNext]_svars PROVE OnceInv'
    OBVIOUS
  <1>0. CASE UNCHANGED svars
    BY <1>0 DEF svars, flags, OnceInv, OnceFlags, OnceAlone, OncePassed
  <1>1. ASSUME NEW t \in Threads, MallocCallDoes(t) PROVE OnceInv'
    BY <1>1 DEF MallocCallDoes, After, DidIs, OnceInv, OnceFlags, OnceAlone, OncePassed
  <1>2. ASSUME NEW t \in Threads, TestStartedDoes(t) PROVE OnceInv'
    BY <1>2 DEF TestStartedDoes, After, DidIs, OnceInv, OnceFlags, OnceAlone, OncePassed
  <1>3. ASSUME NEW t \in Threads, ClaimReserveDoes(t) PROVE OnceInv'
    BY <1>3 DEF ClaimReserveDoes, After, DidIs, OnceInv, OnceFlags, OnceAlone, OncePassed
  <1>4. ASSUME NEW t \in Threads, ReserveMmapDoes(t) PROVE OnceInv'
    BY <1>4 DEF ReserveMmapDoes, After, DidIs, OnceInv, OnceFlags, OnceAlone, OncePassed
  <1>5. ASSUME NEW t \in Threads, ReserveStoreDoes(t) PROVE OnceInv'
    BY <1>5 DEF ReserveStoreDoes, After, DidIs, OnceInv, OnceFlags, OnceAlone, OncePassed
  <1>6. ASSUME NEW t \in Threads, OnceDoes(t) PROVE OnceInv'
    <2>1. /\ pc[t] = "once" /\ \A u \in Threads : u # t => pc'[u] = pc[u]
          /\ \/ g_init_once = "new" /\ pc'[t] = "do_init" /\ g_init_once' = "running"
             \/ g_init_once = "done" /\ pc'[t] = "claim" /\ g_init_once' = "done"
          /\ did'.init = did.init /\ UNCHANGED <<started, g_ready>>
      BY <1>6, Numbers DEF OnceDoes, After, DidIs
    <2> QED
      BY <2>1 DEF OnceInv, OnceFlags, OnceAlone, OncePassed
  <1>7. ASSUME NEW t \in Threads, DoInitDoes(t) PROVE OnceInv'
    <2>1. /\ pc[t] = "do_init" /\ pc'[t] = "ready"
          /\ \A u \in Threads : u # t => pc'[u] = pc[u]
          /\ did'.init = did.init + 1
          /\ UNCHANGED <<started, g_init_once, g_ready>>
      BY <1>7 DEF DoInitDoes, After, DidIs
    <2>2. did.init = 0 /\ g_init_once = "running"
      BY <2>1 DEF OnceInv, OnceFlags, OnceAlone, OncePassed
    <2>3. \A u \in Threads : u # t => pc[u] \notin {"do_init", "ready"}
      BY <2>1 DEF OnceInv, OnceFlags, OnceAlone, OncePassed
    <2>4. did'.init = 1
      BY <2>1, <2>2
    <2>5. \A u \in Threads : pc'[u] # "do_init" /\ (pc'[u] = "ready" => u = t)
      BY <2>1, <2>3
    <2>6. OnceFlags'
      BY <2>1, <2>2, <2>4 DEF OnceInv, OnceFlags
    <2>8. OncePassed'
      BY <2>1 DEF OnceInv, OncePassed
    <2>7. OnceAlone'
      BY <2>1, <2>2, <2>4, <2>5 DEF OnceAlone
    <2> QED
      BY <2>6, <2>7, <2>8 DEF OnceInv
  <1>8. ASSUME NEW t \in Threads, ReadyDoes(t) PROVE OnceInv'
    BY <1>8 DEF ReadyDoes, After, DidIs, OnceInv, OnceFlags, OnceAlone, OncePassed
  <1>9. ASSUME NEW t \in Threads, ClaimStartDoes(t) PROVE OnceInv'
    BY <1>9 DEF ClaimStartDoes, After, DidIs, OnceInv, OnceFlags, OnceAlone, OncePassed
  <1>10. ASSUME NEW t \in Threads, StartTrimDoes(t) PROVE OnceInv'
    BY <1>10 DEF StartTrimDoes, After, DidIs, OnceInv, OnceFlags, OnceAlone, OncePassed
  <1>11. ASSUME NEW t \in Threads, TrimStartedDoes(t) PROVE OnceInv'
    BY <1>11 DEF TrimStartedDoes, After, DidIs, OnceInv, OnceFlags, OnceAlone, OncePassed
  <1>12. ASSUME NEW t \in Threads, CheckDoes(t) PROVE OnceInv'
    BY <1>12 DEF CheckDoes, After, DidIs, OnceInv, OnceFlags, OnceAlone, OncePassed
  <1>13. ASSUME NEW t \in Threads, PlaceDoes(t) PROVE OnceInv'
    BY <1>13 DEF PlaceDoes, After, DidIs, OnceInv, OnceFlags, OnceAlone, OncePassed
  <1>14. ASSUME NEW t \in Threads, FetchDoes(t) PROVE OnceInv'
    BY <1>14 DEF FetchDoes, After, DidIs, OnceInv, OnceFlags, OnceAlone, OncePassed
  <1>15. ASSUME NEW t \in Threads, FreeDoes(t) PROVE OnceInv'
    BY <1>15 DEF FreeDoes, After, DidIs, OnceInv, OnceFlags, OnceAlone, OncePassed
  <1> QED
    BY <1>0, <1>1, <1>2, <1>3, <1>4, <1>5, <1>6, <1>7, <1>8, <1>9, <1>10, <1>11, <1>12, <1>13,
       <1>14, <1>15, StepDoes

\* The winner of the exchange on started does not mind what the others do.
StarterFrame(t) ==
  /\ \A u \in Threads : reg'[u].nested = reg[u].nested /\ (u # t => pc'[u] = pc[u])
  /\ started' = started
  /\ did'.atfork = did.atfork /\ did'.trim = did.trim /\ did'.refused = did.refused

LEMMA StarterQuiet ==
  ASSUME Types, StarterInv, NEW t \in Threads, StarterFrame(t),
         reg[t].nested = "no" => pc'[t] \notin {"atfork", "created", "no memory"},
         reg[t].nested # "no" => pc'[t] \in {"place", "fetch", "created", "no memory"}
  PROVE  StarterInv'
  <1>1. \A u \in Threads : Starter(u)' => Starter(u)
    BY DEF StarterFrame, Starter
  <1>2. StarterAlone'
    BY <1>1 DEF StarterFrame, StarterInv, StarterAlone
  <1>3. StarterPlace'
    BY DEF StarterFrame, StarterInv, StarterPlace
  <1>4. StarterCount'
    BY DEF StarterFrame, StarterInv, StarterCount
  <1> QED
    BY <1>2, <1>3, <1>4 DEF StarterInv

\* Whoever starts the trim thread is alone there.
LEMMA StarterNext ==
  Types /\ OnceInv /\ StarterInv /\ [StartupNext]_svars => StarterInv'
  <1> SUFFICES ASSUME Types, OnceInv, StarterInv, [StartupNext]_svars PROVE StarterInv'
    OBVIOUS
  <1>0. CASE UNCHANGED svars
    BY <1>0 DEF svars, flags, StarterInv, StarterAlone, StarterPlace, StarterCount, Starter
  <1>1. ASSUME NEW t \in Threads, MallocCallDoes(t) PROVE StarterInv'
    <2>1. StarterFrame(t)
      BY <1>1 DEF MallocCallDoes, After, DidIs, StarterFrame
    <2> QED
      BY <1>1, <2>1, StarterQuiet DEF MallocCallDoes, After, StarterInv, StarterPlace
  <1>2. ASSUME NEW t \in Threads, TestStartedDoes(t) PROVE StarterInv'
    <2>1. StarterFrame(t)
      BY <1>2 DEF TestStartedDoes, After, DidIs, StarterFrame
    <2> QED
      BY <1>2, <2>1, StarterQuiet DEF TestStartedDoes, After, StarterInv, StarterPlace
  <1>3. ASSUME NEW t \in Threads, ClaimReserveDoes(t) PROVE StarterInv'
    <2>1. StarterFrame(t)
      BY <1>3 DEF ClaimReserveDoes, After, DidIs, StarterFrame
    <2> QED
      BY <1>3, <2>1, StarterQuiet DEF ClaimReserveDoes, After, StarterInv, StarterPlace
  <1>4. ASSUME NEW t \in Threads, ReserveMmapDoes(t) PROVE StarterInv'
    <2>1. StarterFrame(t)
      BY <1>4 DEF ReserveMmapDoes, After, DidIs, StarterFrame
    <2> QED
      BY <1>4, <2>1, StarterQuiet DEF ReserveMmapDoes, After, StarterInv, StarterPlace
  <1>5. ASSUME NEW t \in Threads, ReserveStoreDoes(t) PROVE StarterInv'
    <2>1. StarterFrame(t)
      BY <1>5 DEF ReserveStoreDoes, After, DidIs, StarterFrame
    <2> QED
      BY <1>5, <2>1, StarterQuiet DEF ReserveStoreDoes, After, StarterInv, StarterPlace
  <1>6. ASSUME NEW t \in Threads, OnceDoes(t) PROVE StarterInv'
    <2>1. StarterFrame(t)
      BY <1>6 DEF OnceDoes, After, DidIs, StarterFrame
    <2> QED
      BY <1>6, <2>1, StarterQuiet DEF OnceDoes, After, StarterInv, StarterPlace
  <1>7. ASSUME NEW t \in Threads, DoInitDoes(t) PROVE StarterInv'
    <2>1. StarterFrame(t)
      BY <1>7 DEF DoInitDoes, After, DidIs, StarterFrame
    <2> QED
      BY <1>7, <2>1, StarterQuiet DEF DoInitDoes, After, StarterInv, StarterPlace
  <1>8. ASSUME NEW t \in Threads, ReadyDoes(t) PROVE StarterInv'
    <2>1. StarterFrame(t)
      BY <1>8 DEF ReadyDoes, After, DidIs, StarterFrame
    <2> QED
      BY <1>8, <2>1, StarterQuiet DEF ReadyDoes, After, StarterInv, StarterPlace
  <1>9. ASSUME NEW t \in Threads, ClaimStartDoes(t) PROVE StarterInv'
    <2>1. CASE started \/ ~ g_ready
      <3>1. StarterFrame(t)
        BY <1>9, <2>1, Numbers DEF ClaimStartDoes, After, DidIs, StarterFrame
      <3> QED
        BY <1>9, <2>1, <3>1, StarterQuiet DEF ClaimStartDoes, After, StarterInv, StarterPlace
    <2>2. CASE ~ started /\ g_ready
      <3>1. /\ started' /\ pc'[t] = "atfork" /\ reg'[t].nested = reg[t].nested
            /\ \A u \in Threads : u # t => reg'[u].nested = reg[u].nested /\ pc'[u] = pc[u]
        BY <1>9, <2>2 DEF ClaimStartDoes, After
      <3>2. did'.atfork = 0 /\ did'.trim = 0 /\ did'.refused = "no"
        BY <1>9, <2>2 DEF ClaimStartDoes, DidIs, StarterInv, StarterCount
      <3>3. reg[t].nested = "no"
        BY <1>9 DEF ClaimStartDoes, StarterInv, StarterPlace
      <3>4. \A u \in Threads : Starter(u)' => u = t
        BY <2>2, <3>1 DEF StarterInv, StarterAlone, Starter
      <3>5. StarterAlone'
        BY <3>1, <3>2, <3>4 DEF StarterAlone
      <3>6. StarterPlace'
        BY <3>1, <3>2, <3>3 DEF StarterInv, StarterPlace
      <3>7. StarterCount'
        BY <3>1, <3>2 DEF StarterCount
      <3> QED
        BY <3>5, <3>6, <3>7 DEF StarterInv
    <2> QED
      BY <2>1, <2>2
  <1>10. ASSUME NEW t \in Threads, StartTrimDoes(t) PROVE StarterInv'
    <2>1. Starter(t) /\ started /\ g_ready /\ did.atfork = 0
      BY <1>10 DEF StartTrimDoes, Starter, StarterInv, StarterAlone, StarterPlace, OnceInv, OnceFlags
    <2>2. /\ pc'[t] = "place" /\ reg'[t].nested # "no" /\ started' = started
          /\ \A u \in Threads : u # t => reg'[u].nested = reg[u].nested /\ pc'[u] = pc[u]
      BY <1>10, <2>1 DEF StartTrimDoes, After
    <2>3. did'.atfork = 1 /\ did'.trim = did.trim /\ did'.refused = did.refused
      BY <1>10, <2>1 DEF StartTrimDoes, DidIs
    <2>4. \A u \in Threads : Starter(u)' => Starter(u)
      BY <2>1, <2>2 DEF Starter
    <2>5. StarterAlone'
      BY <2>2, <2>3, <2>4 DEF StarterInv, StarterAlone
    <2>6. \A u \in Threads : pc'[u] # "atfork"
      BY <2>1, <2>2 DEF StarterInv, StarterAlone, Starter
    <2>7. StarterPlace'
      BY <2>2, <2>6 DEF StarterInv, StarterPlace
    <2>8. StarterCount'
      BY <2>1, <2>2, <2>3 DEF StarterInv, StarterCount
    <2> QED
      BY <2>5, <2>7, <2>8 DEF StarterInv
  <1>11. ASSUME NEW t \in Threads, TrimStartedDoes(t) PROVE StarterInv'
    <2>1. Starter(t) /\ started /\ did.trim = 0
      BY <1>11 DEF TrimStartedDoes, Starter, StarterInv, StarterAlone, StarterPlace
    <2>2. /\ pc'[t] = "check" /\ reg'[t].nested = "no" /\ started' = started
          /\ \A u \in Threads : u # t => reg'[u].nested = reg[u].nested /\ pc'[u] = pc[u]
      BY <1>11 DEF TrimStartedDoes, After
    <2>3. did'.atfork = did.atfork /\ did'.trim \in {0, 1}
      <3>1. did'.atfork = did.atfork /\ (did'.trim = did.trim \/ did'.trim = did.trim + 1)
        BY <1>11 DEF TrimStartedDoes, DidIs
      <3> QED
        BY <2>1, <3>1
    <2>4. \A u \in Threads : ~ Starter(u)'
      BY <2>1, <2>2 DEF StarterInv, StarterAlone, Starter
    <2>5. StarterAlone'
      BY <2>4 DEF StarterAlone
    <2>6. StarterPlace'
      BY <2>2, <2>3 DEF StarterInv, StarterPlace
    <2>7. StarterCount'
      BY <2>1, <2>2, <2>3 DEF StarterInv, StarterCount
    <2> QED
      BY <2>5, <2>6, <2>7 DEF StarterInv
  <1>12. ASSUME NEW t \in Threads, CheckDoes(t) PROVE StarterInv'
    <2>1. StarterFrame(t)
      BY <1>12 DEF CheckDoes, After, DidIs, StarterFrame
    <2> QED
      BY <1>12, <2>1, StarterQuiet DEF CheckDoes, After, StarterInv, StarterPlace
  <1>13. ASSUME NEW t \in Threads, PlaceDoes(t) PROVE StarterInv'
    <2>1. StarterFrame(t)
      BY <1>13 DEF PlaceDoes, After, DidIs, StarterFrame
    <2> QED
      BY <1>13, <2>1, StarterQuiet DEF PlaceDoes, After, StarterInv, StarterPlace
  <1>14. ASSUME NEW t \in Threads, FetchDoes(t) PROVE StarterInv'
    <2>1. StarterFrame(t)
      BY <1>14 DEF FetchDoes, After, DidIs, StarterFrame
    <2> QED
      BY <1>14, <2>1, StarterQuiet DEF FetchDoes, After, StarterInv, StarterPlace
  <1>15. ASSUME NEW t \in Threads, FreeDoes(t) PROVE StarterInv'
    <2>1. StarterFrame(t)
      BY <1>15 DEF FreeDoes, After, DidIs, StarterFrame
    <2> QED
      BY <1>15, <2>1, StarterQuiet DEF FreeDoes, After, StarterInv, StarterPlace
  <1> QED
    BY <1>0, <1>1, <1>2, <1>3, <1>4, <1>5, <1>6, <1>7, <1>8, <1>9, <1>10, <1>11, <1>12, <1>13,
       <1>14, <1>15, StepDoes

\* Whoever maps the reserve is alone there, and its stores come in order.
LEMMA MapperNext ==
  Types /\ MapperInv /\ [StartupNext]_svars => MapperInv'
  <1> SUFFICES ASSUME Types, MapperInv, [StartupNext]_svars PROVE MapperInv'
    OBVIOUS
  <1> USE Numbers, StartupAssumption DEF MapperInv, Mapper
  <1>0. CASE UNCHANGED svars
    BY <1>0 DEF svars, flags, reserve
  <1>1. ASSUME NEW t \in Threads, MallocCallDoes(t) PROVE MapperInv'
    BY <1>1 DEF MallocCallDoes, After, DidIs
  <1>2. ASSUME NEW t \in Threads, TestStartedDoes(t) PROVE MapperInv'
    BY <1>2 DEF TestStartedDoes, After, DidIs
  <1>3. ASSUME NEW t \in Threads, ClaimReserveDoes(t) PROVE MapperInv'
    BY <1>3 DEF ClaimReserveDoes, After, DidIs
  <1>4. ASSUME NEW t \in Threads, ReserveMmapDoes(t) PROVE MapperInv'
    <2>1. /\ pc[t] = "mmap" /\ did.map = 0 /\ g_res_start = 0 /\ g_res_end = 0
          /\ \A u \in Threads : u # t => pc'[u] = pc[u] /\ ~ Mapper(u)
          /\ UNCHANGED <<res_done, g_res_start, g_res_end>>
      BY <1>4 DEF ReserveMmapDoes, After
    <2>2. \/ pc'[t] = "once" /\ did'.map = 0
          \/ pc'[t] = "start" /\ did'.map = 1 /\ reg'[t].base = 2 * Slots
      BY <1>4, <2>1 DEF ReserveMmapDoes, After, DidIs, StartupAssumption
    <2>3. res_done
      BY <2>1
    <2> QED
      BY <2>1, <2>2, <2>3
  <1>5. ASSUME NEW t \in Threads, ReserveStoreDoes(t) PROVE MapperInv'
    BY <1>5 DEF ReserveStoreDoes, After, DidIs, ReserveEnd, Types, StartupAssumption
  <1>6. ASSUME NEW t \in Threads, OnceDoes(t) PROVE MapperInv'
    BY <1>6 DEF OnceDoes, After, DidIs
  <1>7. ASSUME NEW t \in Threads, DoInitDoes(t) PROVE MapperInv'
    BY <1>7 DEF DoInitDoes, After, DidIs
  <1>8. ASSUME NEW t \in Threads, ReadyDoes(t) PROVE MapperInv'
    BY <1>8 DEF ReadyDoes, After, DidIs
  <1>9. ASSUME NEW t \in Threads, ClaimStartDoes(t) PROVE MapperInv'
    BY <1>9 DEF ClaimStartDoes, After, DidIs
  <1>10. ASSUME NEW t \in Threads, StartTrimDoes(t) PROVE MapperInv'
    BY <1>10 DEF StartTrimDoes, After, DidIs
  <1>11. ASSUME NEW t \in Threads, TrimStartedDoes(t) PROVE MapperInv'
    BY <1>11 DEF TrimStartedDoes, After, DidIs
  <1>12. ASSUME NEW t \in Threads, CheckDoes(t) PROVE MapperInv'
    BY <1>12 DEF CheckDoes, After, DidIs
  <1>13. ASSUME NEW t \in Threads, PlaceDoes(t) PROVE MapperInv'
    BY <1>13 DEF PlaceDoes, After, DidIs
  <1>14. ASSUME NEW t \in Threads, FetchDoes(t) PROVE MapperInv'
    BY <1>14 DEF FetchDoes, After, DidIs
  <1>15. ASSUME NEW t \in Threads, FreeDoes(t) PROVE MapperInv'
    BY <1>15 DEF FreeDoes, After, DidIs
  <1> QED
    BY <1>0, <1>1, <1>2, <1>3, <1>4, <1>5, <1>6, <1>7, <1>8, <1>9, <1>10, <1>11, <1>12, <1>13,
       <1>14, <1>15, StepDoes

\* reserve_map is called less often than the reserve has slots.
LEMMA UsedBound == Used \in Nat /\ Used < Slots /\ Used' \in Nat /\ Used' < Slots
  <1>1. Returned \in SUBSET Threads /\ Returned' \in SUBSET Threads
    BY DEF Returned
  <1>2. /\ Cardinality(Returned) \in Nat /\ Cardinality(Returned) + 1 < Slots
        /\ Cardinality(Returned') \in Nat /\ Cardinality(Returned') + 1 < Slots
    BY <1>1, CountBound
  <1> QED
    BY <1>2, StartupAssumption DEF Used, StartupAssumption

LEMMA UsedMonotone ==
  ASSUME Returned \subseteq Returned', NestedReturned => NestedReturned'
  PROVE  Used <= Used'
  <1>1. Returned' \in SUBSET Threads /\ Returned \in SUBSET Threads
    BY DEF Returned
  <1>2. IsFiniteSet(Returned') /\ Cardinality(Returned) \in Nat /\ Cardinality(Returned') \in Nat
    BY <1>1, CountBound
  <1>3. Cardinality(Returned) <= Cardinality(Returned')
    BY <1>2, FS_Subset
  <1> QED
    BY <1>2, <1>3 DEF Used

\* The count never falls: who has returned stays returned.
UsedKept ==
  /\ \A t \in Threads : pc[t] \in {"held", "done"} => pc'[t] \in {"held", "done"}
  /\ NestedReturned => NestedReturned'

\* No step takes back a call of reserve_map.
LEMMA UsedKeptNext ==
  Types /\ StarterInv /\ [StartupNext]_svars => UsedKept
  <1> SUFFICES ASSUME Types, StarterInv, [StartupNext]_svars PROVE UsedKept
    OBVIOUS
  <1>0. CASE UNCHANGED svars
    BY <1>0 DEF svars, UsedKept, NestedReturned
  <1>1. ASSUME NEW t \in Threads, MallocCallDoes(t) PROVE UsedKept
    BY <1>1 DEF MallocCallDoes, After, DidIs, UsedKept, NestedReturned
  <1>2. ASSUME NEW t \in Threads, TestStartedDoes(t) PROVE UsedKept
    BY <1>2 DEF TestStartedDoes, After, DidIs, UsedKept, NestedReturned
  <1>3. ASSUME NEW t \in Threads, ClaimReserveDoes(t) PROVE UsedKept
    BY <1>3 DEF ClaimReserveDoes, After, DidIs, UsedKept, NestedReturned
  <1>4. ASSUME NEW t \in Threads, ReserveMmapDoes(t) PROVE UsedKept
    BY <1>4 DEF ReserveMmapDoes, After, DidIs, UsedKept, NestedReturned
  <1>5. ASSUME NEW t \in Threads, ReserveStoreDoes(t) PROVE UsedKept
    BY <1>5 DEF ReserveStoreDoes, After, DidIs, UsedKept, NestedReturned
  <1>6. ASSUME NEW t \in Threads, OnceDoes(t) PROVE UsedKept
    BY <1>6 DEF OnceDoes, After, DidIs, UsedKept, NestedReturned
  <1>7. ASSUME NEW t \in Threads, DoInitDoes(t) PROVE UsedKept
    BY <1>7 DEF DoInitDoes, After, DidIs, UsedKept, NestedReturned
  <1>8. ASSUME NEW t \in Threads, ReadyDoes(t) PROVE UsedKept
    BY <1>8 DEF ReadyDoes, After, DidIs, UsedKept, NestedReturned
  <1>9. ASSUME NEW t \in Threads, ClaimStartDoes(t) PROVE UsedKept
    BY <1>9 DEF ClaimStartDoes, After, DidIs, UsedKept, NestedReturned
  <1>10. ASSUME NEW t \in Threads, StartTrimDoes(t) PROVE UsedKept
    BY <1>10 DEF StartTrimDoes, After, DidIs, UsedKept, NestedReturned
  <1>11. ASSUME NEW t \in Threads, TrimStartedDoes(t) PROVE UsedKept
    <2>1. reg[t].nested # "no"
      BY <1>11 DEF TrimStartedDoes, StarterInv, StarterPlace
    <2>2. \A u \in Threads : pc[u] \in {"held", "done"} => pc'[u] \in {"held", "done"}
      BY <1>11 DEF TrimStartedDoes, After
    <2>3. did'.trim > 0 \/ did'.refused # "no"
      <3>1. did.trim \in Nat
        BY Numbers
      <3>2. \/ did'.trim = did.trim + 1 \/ did'.refused = "kernel" \/ did'.refused = reg[t].nested
        BY <1>11 DEF TrimStartedDoes, DidIs
      <3> QED
        BY <2>1, <3>1, <3>2
    <2> QED
      BY <2>2, <2>3 DEF UsedKept, NestedReturned
  <1>12. ASSUME NEW t \in Threads, CheckDoes(t) PROVE UsedKept
    BY <1>12 DEF CheckDoes, After, DidIs, UsedKept, NestedReturned
  <1>13. ASSUME NEW t \in Threads, PlaceDoes(t) PROVE UsedKept
    BY <1>13 DEF PlaceDoes, After, DidIs, UsedKept, NestedReturned
  <1>14. ASSUME NEW t \in Threads, FetchDoes(t) PROVE UsedKept
    BY <1>14 DEF FetchDoes, After, DidIs, UsedKept, NestedReturned
  <1>15. ASSUME NEW t \in Threads, FreeDoes(t) PROVE UsedKept
    BY <1>15 DEF FreeDoes, After, DidIs, UsedKept, NestedReturned
  <1> QED
    BY <1>0, <1>1, <1>2, <1>3, <1>4, <1>5, <1>6, <1>7, <1>8, <1>9, <1>10, <1>11, <1>12, <1>13,
       <1>14, <1>15, StepDoes

LEMMA UsedGrows ==
  ASSUME Types, StarterInv, [StartupNext]_svars
  PROVE  Used <= Used'
  <1>1. UsedKept
    BY UsedKeptNext
  <1>2. Returned \subseteq Returned'
    BY <1>1 DEF UsedKept, Returned
  <1> QED
    BY <1>1, <1>2, UsedMonotone DEF UsedKept

\* A call of reserve_map counts.
LEMMA FetchCounts ==
  ASSUME Types, StarterInv, NEW t \in Threads, FetchDoes(t)
  PROVE  Used + 1 <= Used'
  <1>1. Returned \in SUBSET Threads
    BY DEF Returned
  <1>2. IsFiniteSet(Returned) /\ Cardinality(Returned) \in Nat
    BY <1>1, CountBound
  <1>3. CASE reg[t].nested = "no"
    <2>1. pc[t] = "fetch" /\ pc'[t] = "held" /\ \A u \in Threads : u # t => pc'[u] = pc[u]
      BY <1>3 DEF FetchDoes, After
    <2>2. did'.trim = did.trim /\ did'.refused = did.refused
      BY <1>3 DEF FetchDoes, DidIs
    <2>3. t \notin Returned /\ Returned' = Returned \cup {t}
      BY <2>1 DEF Returned
    <2>4. Cardinality(Returned') = Cardinality(Returned) + 1
      BY <1>2, <2>3, FS_AddElement
    <2>5. NestedReturned => NestedReturned'
      BY <2>1, <2>2 DEF NestedReturned
    <2> QED
      BY <1>2, <2>4, <2>5 DEF Used
  <1>4. CASE reg[t].nested # "no"
    <2>1. /\ pc[t] = "fetch" /\ pc'[t] \in {"created", "no memory"}
          /\ \A u \in Threads : u # t => pc'[u] = pc[u]
      BY <1>4 DEF FetchDoes, After
    <2>2. Returned' = Returned
      BY <2>1 DEF Returned
    <2>3. NestedReturned'
      BY <2>1 DEF NestedReturned
    <2>4. Starter(t) /\ did.trim = 0 /\ did.refused = "no"
      BY <1>4 DEF Starter, StarterInv, StarterAlone
    <2>5. \A u \in Threads : pc[u] \in {"created", "no memory"} => u = t
      BY <2>4 DEF Starter, StarterInv, StarterAlone, StarterPlace
    <2>6. ~ (did.trim > 0)
      BY <2>4
    <2>7. ~ NestedReturned
      BY <2>1, <2>4, <2>5, <2>6, Zenon DEF NestedReturned
    <2> QED
      BY <1>2, <2>2, <2>3, <2>7 DEF Used
  <1> QED
    BY <1>3, <1>4

\* The counter g_res_bump covers what was handed out, and jumps once, upwards.
LEMMA BumpNext ==
  ASSUME Types, StarterInv, MapperInv, BumpInv, [StartupNext]_svars
  PROVE  BumpInv' /\ g_res_bump <= g_res_bump'
  <1>1. Used \in Nat /\ Used' \in Nat /\ Used <= Used' /\ Used < Slots
    BY UsedBound, UsedGrows
  <1>2. g_res_bump \in Nat /\ Slots \in Nat
    BY StartupAssumption DEF Types, StartupAssumption
  <1>3. CASE /\ UNCHANGED <<g_res_start, g_res_end, g_res_bump>>
             /\ \A t \in Threads : Mapper(t)' => Mapper(t)
    <2>1. CASE g_res_bump <= Used
      <3>1. g_res_bump' <= Used' /\ g_res_bump <= g_res_bump'
        BY <1>1, <1>2, <1>3, <2>1
      <3> QED
        BY <3>1 DEF BumpInv
    <2>2. CASE ~ (g_res_bump <= Used)
      <3>1. /\ g_res_start' = 2 * Slots /\ g_res_end' = 3 * Slots
            /\ 2 * Slots <= g_res_bump' /\ g_res_bump' - 2 * Slots <= Used'
            /\ g_res_bump <= g_res_bump'
        <4>1. /\ g_res_start = 2 * Slots /\ g_res_end = 3 * Slots
              /\ 2 * Slots <= g_res_bump /\ g_res_bump - 2 * Slots <= Used
          BY <2>2 DEF BumpInv
        <4>2. 2 * Slots \in Nat
          BY <1>2
        <4> QED
          BY <1>1, <1>2, <1>3, <4>1, <4>2
      <3>2. \A t \in Threads : ~ Mapper(t)'
        BY <1>3, <2>2 DEF BumpInv
      <3> QED
        BY <3>1, <3>2 DEF BumpInv
    <2> QED
      BY <2>1, <2>2
  <1>4. ASSUME NEW t \in Threads, FetchDoes(t) PROVE BumpInv' /\ g_res_bump <= g_res_bump'
    <2>1. Used + 1 <= Used'
      BY <1>4, FetchCounts
    <2>2. g_res_bump' = g_res_bump + 1 /\ UNCHANGED <<g_res_start, g_res_end>>
      BY <1>4 DEF FetchDoes
    <2>3. \A u \in Threads : Mapper(u)' => Mapper(u)
      BY <1>4 DEF FetchDoes, After, Mapper
    <2>4. CASE g_res_bump <= Used
      <3>1. g_res_bump' <= Used' /\ g_res_bump <= g_res_bump'
        BY <1>1, <1>2, <2>1, <2>2, <2>4
      <3> QED
        BY <3>1 DEF BumpInv
    <2>5. CASE ~ (g_res_bump <= Used)
      <3>1. /\ g_res_start' = 2 * Slots /\ g_res_end' = 3 * Slots
            /\ 2 * Slots <= g_res_bump' /\ g_res_bump' - 2 * Slots <= Used'
            /\ g_res_bump <= g_res_bump'
        <4>1. /\ g_res_start = 2 * Slots /\ g_res_end = 3 * Slots
              /\ 2 * Slots <= g_res_bump /\ g_res_bump - 2 * Slots <= Used
          BY <2>5 DEF BumpInv
        <4>2. 2 * Slots \in Nat
          BY <1>2
        <4> QED
          BY <1>1, <1>2, <2>1, <2>2, <4>1, <4>2
      <3>2. \A u \in Threads : ~ Mapper(u)'
        BY <2>3, <2>5 DEF BumpInv
      <3> QED
        BY <3>1, <3>2 DEF BumpInv
    <2> QED
      BY <2>4, <2>5
  <1>5. ASSUME NEW t \in Threads, ClaimReserveDoes(t) PROVE BumpInv' /\ g_res_bump <= g_res_bump'
    <2>1. UNCHANGED <<g_res_start, g_res_end, g_res_bump>>
      BY <1>5 DEF ClaimReserveDoes
    <2>2. CASE res_done
      <3>1. \A u \in Threads : Mapper(u)' => Mapper(u)
        BY <1>5, <2>2 DEF ClaimReserveDoes, After, Mapper
      <3> QED
        BY <1>3, <2>1, <3>1
    <2>3. CASE ~ res_done
      <3>1. g_res_start = 0
        BY <2>3 DEF MapperInv
      <3>2. g_res_bump <= Used
        BY <1>1, <1>2, <3>1 DEF BumpInv
      <3>3. g_res_bump' <= Used' /\ g_res_bump <= g_res_bump'
        BY <1>1, <1>2, <2>1, <3>2
      <3> QED
        BY <3>3 DEF BumpInv
    <2> QED
      BY <2>2, <2>3
  <1>6. ASSUME NEW t \in Threads, ReserveStoreDoes(t) PROVE BumpInv' /\ g_res_bump <= g_res_bump'
    <2>1. Mapper(t)
      BY <1>6 DEF ReserveStoreDoes, Mapper
    <2>2. g_res_bump <= Used
      BY <2>1 DEF BumpInv
    <2>3. CASE g_res_bump' = g_res_bump
      <3>1. g_res_bump' <= Used' /\ g_res_bump <= g_res_bump'
        BY <1>1, <1>2, <2>2, <2>3
      <3> QED
        BY <3>1 DEF BumpInv
    <2>4. CASE pc[t] = "bump"
      <3>1. /\ pc'[t] = "once" /\ g_res_bump' = g_res_start
            /\ UNCHANGED <<g_res_start, g_res_end>>
            /\ \A u \in Threads : u # t => pc'[u] = pc[u]
        BY <1>6, <2>4 DEF ReserveStoreDoes, After
      <3>2. g_res_start = 2 * Slots /\ g_res_end = 3 * Slots
        BY <2>4 DEF MapperInv
      <3>3. \A u \in Threads : ~ Mapper(u)'
        <4>1. \A u \in Threads : u # t => ~ Mapper(u)
          BY <2>1 DEF MapperInv
        <4> QED
          BY <3>1, <4>1 DEF Mapper
      <3>4. /\ g_res_start' = 2 * Slots /\ g_res_end' = 3 * Slots
            /\ 2 * Slots <= g_res_bump' /\ g_res_bump' - 2 * Slots <= Used'
            /\ g_res_bump <= g_res_bump'
        <4>1. 2 * Slots \in Nat /\ Used <= 2 * Slots
          BY <1>1, <1>2
        <4> QED
          BY <1>1, <1>2, <2>2, <3>1, <3>2, <4>1
      <3> QED
        BY <3>3, <3>4 DEF BumpInv
    <2> QED
      BY <1>6, <2>3, <2>4 DEF ReserveStoreDoes
  <1>7. ASSUME UNCHANGED svars PROVE BumpInv' /\ g_res_bump <= g_res_bump'
    BY <1>3, <1>7 DEF svars, reserve, Mapper
  <1>8. ASSUME NEW t \in Threads, MallocCallDoes(t) PROVE BumpInv' /\ g_res_bump <= g_res_bump'
    BY <1>3, <1>8 DEF MallocCallDoes, After, Mapper
  <1>9. ASSUME NEW t \in Threads, TestStartedDoes(t) PROVE BumpInv' /\ g_res_bump <= g_res_bump'
    BY <1>3, <1>9 DEF TestStartedDoes, After, Mapper
  <1>10. ASSUME NEW t \in Threads, ReserveMmapDoes(t) PROVE BumpInv' /\ g_res_bump <= g_res_bump'
    BY <1>3, <1>10 DEF ReserveMmapDoes, After, Mapper
  <1>11. ASSUME NEW t \in Threads, OnceDoes(t) PROVE BumpInv' /\ g_res_bump <= g_res_bump'
    BY <1>3, <1>11 DEF OnceDoes, After, Mapper
  <1>12. ASSUME NEW t \in Threads, DoInitDoes(t) PROVE BumpInv' /\ g_res_bump <= g_res_bump'
    BY <1>3, <1>12 DEF DoInitDoes, After, Mapper
  <1>13. ASSUME NEW t \in Threads, ReadyDoes(t) PROVE BumpInv' /\ g_res_bump <= g_res_bump'
    BY <1>3, <1>13 DEF ReadyDoes, After, Mapper
  <1>14. ASSUME NEW t \in Threads, ClaimStartDoes(t) PROVE BumpInv' /\ g_res_bump <= g_res_bump'
    BY <1>3, <1>14 DEF ClaimStartDoes, After, Mapper
  <1>15. ASSUME NEW t \in Threads, StartTrimDoes(t) PROVE BumpInv' /\ g_res_bump <= g_res_bump'
    BY <1>3, <1>15 DEF StartTrimDoes, After, Mapper
  <1>16. ASSUME NEW t \in Threads, TrimStartedDoes(t) PROVE BumpInv' /\ g_res_bump <= g_res_bump'
    BY <1>3, <1>16 DEF TrimStartedDoes, After, Mapper
  <1>17. ASSUME NEW t \in Threads, CheckDoes(t) PROVE BumpInv' /\ g_res_bump <= g_res_bump'
    BY <1>3, <1>17 DEF CheckDoes, After, Mapper
  <1>18. ASSUME NEW t \in Threads, PlaceDoes(t) PROVE BumpInv' /\ g_res_bump <= g_res_bump'
    BY <1>3, <1>18 DEF PlaceDoes, After, Mapper
  <1>19. ASSUME NEW t \in Threads, FreeDoes(t) PROVE BumpInv' /\ g_res_bump <= g_res_bump'
    BY <1>3, <1>19 DEF FreeDoes, After, Mapper
  <1> QED
    BY <1>3, <1>4, <1>5, <1>6, <1>7, <1>8, <1>9, <1>10, <1>11, <1>12, <1>13, <1>14, <1>15,
       <1>16, <1>17, <1>18, <1>19, StepDoes

\* No two threads get the same pointer: the counter only rises, and the kernel gives
\* nothing twice.
LEMMA PtrNext ==
  Types /\ StarterInv /\ MapperInv /\ BumpInv /\ PtrInv /\ [StartupNext]_svars => PtrInv'
  <1> SUFFICES ASSUME Types, StarterInv, MapperInv, BumpInv, PtrInv, [StartupNext]_svars
               PROVE  PtrInv'
    OBVIOUS
  <1>1. /\ g_res_bump \in Nat /\ g_res_bump' \in Nat /\ g_res_bump <= g_res_bump'
        /\ \A u \in Threads : reg[u].ptr \in Nat
    BY BumpNext, TypesNext, Numbers DEF Types
  <1>2. CASE \A u \in Threads : reg'[u].ptr = reg[u].ptr
    BY <1>1, <1>2, ElsewhereHigh DEF PtrInv, NoSharedPointer
  <1>3. ASSUME NEW t \in Threads, FetchDoes(t) PROVE PtrInv'
    <2>1. CASE reg[t].nested # "no"
      BY <1>2, <1>3, <2>1 DEF FetchDoes, After
    <2>2. CASE reg[t].nested = "no"
      <3>1. /\ reg'[t].ptr = IF g_res_bump < g_res_end THEN g_res_bump ELSE 0
            /\ \A u \in Threads : u # t => reg'[u].ptr = reg[u].ptr
            /\ g_res_bump' = g_res_bump + 1
        BY <1>3, <2>2 DEF FetchDoes, After
      <3>2. g_res_end \in Nat /\ g_res_end <= 3 * Slots /\ Slots \in Nat
        BY StartupAssumption DEF MapperInv, StartupAssumption
      <3>3. CASE g_res_bump < g_res_end
        <4>1. reg'[t].ptr = g_res_bump /\ g_res_bump < Elsewhere
          BY <1>1, <3>1, <3>2, <3>3, ElsewhereHigh
        <4>2. \A u \in Threads : u # t => reg'[u].ptr # g_res_bump \/ reg'[u].ptr = 0
          BY <1>1, <3>1, <4>1, ElsewhereHigh DEF PtrInv
        <4>3. NoSharedPointer'
          BY <3>1, <4>1, <4>2 DEF PtrInv, NoSharedPointer
        <4>4. \A u \in Threads :
                reg'[u].ptr # 0 => reg'[u].ptr < g_res_bump' \/ reg'[u].ptr > Elsewhere
          BY <1>1, <3>1, <4>1, ElsewhereHigh DEF PtrInv
        <4> QED
          BY <4>3, <4>4 DEF PtrInv
      <3>4. CASE ~ (g_res_bump < g_res_end)
        <4>1. reg'[t].ptr = 0
          BY <3>1, <3>4
        <4> QED
          BY <1>1, <3>1, <4>1, ElsewhereHigh DEF PtrInv, NoSharedPointer
      <3> QED
        BY <3>3, <3>4
    <2> QED
      BY <2>1, <2>2
  <1>4. ASSUME NEW t \in Threads, PlaceDoes(t) PROVE PtrInv'
    <2>1. CASE reg'[t].ptr = reg[t].ptr
      <3>1. \A u \in Threads : reg'[u].ptr = reg[u].ptr
        BY <1>4, <2>1 DEF PlaceDoes, After
      <3> QED
        BY <1>2, <3>1
    <2>2. CASE reg'[t].ptr # reg[t].ptr
      <3>1. /\ reg'[t].ptr > Elsewhere
            /\ \A u \in Threads : reg[u].ptr # reg'[t].ptr
            /\ \A u \in Threads : u # t => reg'[u].ptr = reg[u].ptr
        BY <1>4, <2>2 DEF PlaceDoes, After
      <3>2. NoSharedPointer'
        BY <3>1 DEF PtrInv, NoSharedPointer
      <3> QED
        BY <1>1, <3>1, <3>2, ElsewhereHigh DEF PtrInv
    <2> QED
      BY <2>1, <2>2
  <1>5. ASSUME UNCHANGED svars PROVE PtrInv'
    BY <1>2, <1>5 DEF svars
  <1>6. ASSUME NEW t \in Threads, MallocCallDoes(t) PROVE PtrInv'
    BY <1>2, <1>6 DEF MallocCallDoes, After
  <1>7. ASSUME NEW t \in Threads, TestStartedDoes(t) PROVE PtrInv'
    BY <1>2, <1>7 DEF TestStartedDoes, After
  <1>8. ASSUME NEW t \in Threads, ClaimReserveDoes(t) PROVE PtrInv'
    BY <1>2, <1>8 DEF ClaimReserveDoes, After
  <1>9. ASSUME NEW t \in Threads, ReserveMmapDoes(t) PROVE PtrInv'
    BY <1>2, <1>9 DEF ReserveMmapDoes, After
  <1>10. ASSUME NEW t \in Threads, ReserveStoreDoes(t) PROVE PtrInv'
    BY <1>2, <1>10 DEF ReserveStoreDoes, After
  <1>11. ASSUME NEW t \in Threads, OnceDoes(t) PROVE PtrInv'
    BY <1>2, <1>11 DEF OnceDoes, After
  <1>12. ASSUME NEW t \in Threads, DoInitDoes(t) PROVE PtrInv'
    BY <1>2, <1>12 DEF DoInitDoes, After
  <1>13. ASSUME NEW t \in Threads, ReadyDoes(t) PROVE PtrInv'
    BY <1>2, <1>13 DEF ReadyDoes, After
  <1>14. ASSUME NEW t \in Threads, ClaimStartDoes(t) PROVE PtrInv'
    BY <1>2, <1>14 DEF ClaimStartDoes, After
  <1>15. ASSUME NEW t \in Threads, StartTrimDoes(t) PROVE PtrInv'
    BY <1>2, <1>15 DEF StartTrimDoes, After
  <1>16. ASSUME NEW t \in Threads, TrimStartedDoes(t) PROVE PtrInv'
    BY <1>2, <1>16 DEF TrimStartedDoes, After
  <1>17. ASSUME NEW t \in Threads, CheckDoes(t) PROVE PtrInv'
    BY <1>2, <1>17 DEF CheckDoes, After
  <1>18. ASSUME NEW t \in Threads, FreeDoes(t) PROVE PtrInv'
    BY <1>2, <1>18 DEF FreeDoes, After
  <1> QED
    BY <1>3, <1>4, <1>5, <1>6, <1>7, <1>8, <1>9, <1>10, <1>11, <1>12, <1>13, <1>14, <1>15,
       <1>16, <1>17, <1>18, StepDoes

\* A reserve that can be used stays what it is.
LEMMA PublishedStays ==
  ASSUME Types, StarterInv, MapperInv, BumpInv, [StartupNext]_svars, Published
  PROVE  /\ Published' /\ UNCHANGED <<g_res_start, g_res_end>>
         /\ g_res_start = 2 * Slots /\ g_res_end = 3 * Slots
         /\ g_res_start <= g_res_bump /\ g_res_bump < g_res_end
  <1>1. Used \in Nat /\ Used < Slots /\ g_res_bump \in Nat /\ Slots \in Nat
    BY UsedBound, StartupAssumption DEF Types, StartupAssumption
  <1>2. g_res_start = 2 * Slots /\ g_res_end = 3 * Slots
    BY <1>1 DEF Published, MapperInv
  <1>3. ~ (g_res_bump <= Used)
    BY <1>1, <1>2 DEF Published
  <1>4. /\ g_res_bump - 2 * Slots <= Used /\ \A t \in Threads : ~ Mapper(t)
    BY <1>3 DEF BumpInv
  <1>5. UNCHANGED <<g_res_start, g_res_end>>
    <2>1. ASSUME NEW t \in Threads PROVE ~ ReserveStoreDoes(t)
      BY <1>4 DEF ReserveStoreDoes, Mapper
    <2>2. ASSUME UNCHANGED svars PROVE UNCHANGED <<g_res_start, g_res_end>>
      BY <2>2 DEF svars, reserve
    <2>3. ASSUME NEW t \in Threads, MallocCallDoes(t) PROVE UNCHANGED <<g_res_start, g_res_end>>
      BY <2>3 DEF MallocCallDoes
    <2>4. ASSUME NEW t \in Threads, TestStartedDoes(t) PROVE UNCHANGED <<g_res_start, g_res_end>>
      BY <2>4 DEF TestStartedDoes
    <2>5. ASSUME NEW t \in Threads, ClaimReserveDoes(t) PROVE UNCHANGED <<g_res_start, g_res_end>>
      BY <2>5 DEF ClaimReserveDoes
    <2>6. ASSUME NEW t \in Threads, ReserveMmapDoes(t) PROVE UNCHANGED <<g_res_start, g_res_end>>
      BY <2>6 DEF ReserveMmapDoes
    <2>7. ASSUME NEW t \in Threads, OnceDoes(t) PROVE UNCHANGED <<g_res_start, g_res_end>>
      BY <2>7 DEF OnceDoes
    <2>8. ASSUME NEW t \in Threads, DoInitDoes(t) PROVE UNCHANGED <<g_res_start, g_res_end>>
      BY <2>8 DEF DoInitDoes
    <2>9. ASSUME NEW t \in Threads, ReadyDoes(t) PROVE UNCHANGED <<g_res_start, g_res_end>>
      BY <2>9 DEF ReadyDoes
    <2>10. ASSUME NEW t \in Threads, ClaimStartDoes(t) PROVE UNCHANGED <<g_res_start, g_res_end>>
      BY <2>10 DEF ClaimStartDoes
    <2>11. ASSUME NEW t \in Threads, StartTrimDoes(t) PROVE UNCHANGED <<g_res_start, g_res_end>>
      BY <2>11 DEF StartTrimDoes
    <2>12. ASSUME NEW t \in Threads, TrimStartedDoes(t) PROVE UNCHANGED <<g_res_start, g_res_end>>
      BY <2>12 DEF TrimStartedDoes
    <2>13. ASSUME NEW t \in Threads, CheckDoes(t) PROVE UNCHANGED <<g_res_start, g_res_end>>
      BY <2>13 DEF CheckDoes
    <2>14. ASSUME NEW t \in Threads, PlaceDoes(t) PROVE UNCHANGED <<g_res_start, g_res_end>>
      BY <2>14 DEF PlaceDoes
    <2>15. ASSUME NEW t \in Threads, FetchDoes(t) PROVE UNCHANGED <<g_res_start, g_res_end>>
      BY <2>15 DEF FetchDoes
    <2>16. ASSUME NEW t \in Threads, FreeDoes(t) PROVE UNCHANGED <<g_res_start, g_res_end>>
      BY <2>16 DEF FreeDoes
    <2> QED
      BY <2>1, <2>2, <2>3, <2>4, <2>5, <2>6, <2>7, <2>8, <2>9, <2>10, <2>11, <2>12, <2>13,
         <2>14, <2>15, <2>16, StepDoes
  <1>6. g_res_bump <= g_res_bump' /\ g_res_bump' \in Nat
    BY BumpNext, TypesNext DEF Types
  <1>7. Published'
    BY <1>1, <1>2, <1>5, <1>6 DEF Published
  <1> QED
    BY <1>1, <1>2, <1>4, <1>5, <1>7 DEF Published

\* What a call has seen of the reserve stays true.
LEMMA LateSeesNext ==
  Types /\ StarterInv /\ MapperInv /\ BumpInv /\ LateSees /\ [StartupNext]_svars => LateSees'
  <1> SUFFICES ASSUME Types, StarterInv, MapperInv, BumpInv, LateSees, [StartupNext]_svars
               PROVE  LateSees'
    OBVIOUS
  <1>1. Published => Published'
    BY PublishedStays
  <1>2. ASSUME UNCHANGED svars PROVE LateSees'
    BY <1>1, <1>2 DEF svars, LateSees
  <1>3. ASSUME NEW t \in Threads, MallocCallDoes(t) PROVE LateSees'
    BY <1>1, <1>3 DEF MallocCallDoes, After, LateSees
  <1>4. ASSUME NEW t \in Threads, TestStartedDoes(t) PROVE LateSees'
    BY <1>1, <1>4 DEF TestStartedDoes, After, LateSees
  <1>5. ASSUME NEW t \in Threads, ClaimReserveDoes(t) PROVE LateSees'
    BY <1>1, <1>5 DEF ClaimReserveDoes, After, LateSees
  <1>6. ASSUME NEW t \in Threads, ReserveMmapDoes(t) PROVE LateSees'
    BY <1>1, <1>6 DEF ReserveMmapDoes, After, LateSees
  <1>7. ASSUME NEW t \in Threads, ReserveStoreDoes(t) PROVE LateSees'
    BY <1>1, <1>7 DEF ReserveStoreDoes, After, LateSees
  <1>8. ASSUME NEW t \in Threads, OnceDoes(t) PROVE LateSees'
    BY <1>1, <1>8 DEF OnceDoes, After, LateSees
  <1>9. ASSUME NEW t \in Threads, DoInitDoes(t) PROVE LateSees'
    BY <1>1, <1>9 DEF DoInitDoes, After, LateSees
  <1>10. ASSUME NEW t \in Threads, ReadyDoes(t) PROVE LateSees'
    BY <1>1, <1>10 DEF ReadyDoes, After, LateSees
  <1>11. ASSUME NEW t \in Threads, ClaimStartDoes(t) PROVE LateSees'
    BY <1>1, <1>11 DEF ClaimStartDoes, After, LateSees
  <1>12. ASSUME NEW t \in Threads, StartTrimDoes(t) PROVE LateSees'
    BY <1>1, <1>12 DEF StartTrimDoes, After, LateSees
  <1>13. ASSUME NEW t \in Threads, TrimStartedDoes(t) PROVE LateSees'
    BY <1>1, <1>13 DEF TrimStartedDoes, After, LateSees
  <1>14. ASSUME NEW t \in Threads, CheckDoes(t) PROVE LateSees'
    BY <1>1, <1>14 DEF CheckDoes, After, LateSees
  <1>15. ASSUME NEW t \in Threads, PlaceDoes(t) PROVE LateSees'
    BY <1>1, <1>15 DEF PlaceDoes, After, LateSees
  <1>16. ASSUME NEW t \in Threads, FetchDoes(t) PROVE LateSees'
    BY <1>1, <1>16 DEF FetchDoes, After, LateSees
  <1>17. ASSUME NEW t \in Threads, FreeDoes(t) PROVE LateSees'
    BY <1>1, <1>17 DEF FreeDoes, After, LateSees
  <1> QED
    BY <1>2, <1>3, <1>4, <1>5, <1>6, <1>7, <1>8, <1>9, <1>10, <1>11, <1>12, <1>13, <1>14, <1>15,
       <1>16, <1>17, StepDoes

\* A call that sees the reserve is served from it, and its pointer is freed to its run.
LEMMA LateGetsNext ==
  ASSUME Types, OnceInv, StarterInv, MapperInv, BumpInv, LateSees, LateGets, [StartupNext]_svars
  PROVE  LateGets'
  <1>1. \A p \in Nat : Published /\ in_reserve(p) => in_reserve(p)'
    BY PublishedStays DEF in_reserve
  <1>2. \A u \in Threads : reg[u].ptr \in Nat
    BY Numbers
  <1>3. \A u \in Threads : pc[u] # "new" /\ ~ reg[u].early => Published
    BY DEF LateSees
  <1>4. ASSUME UNCHANGED svars PROVE LateGets'
    BY <1>4 DEF svars, reserve, LateGets, in_reserve
  <1>5. ASSUME NEW t \in Threads, MallocCallDoes(t) PROVE LateGets'
    <2>1. /\ pc'[t] \notin {"held", "done", "no memory"} /\ did'.refused = did.refused
          /\ \A u \in Threads : u # t => pc'[u] = pc[u] /\ reg'[u] = reg[u]
      BY <1>5 DEF MallocCallDoes, After, DidIs
    <2> QED
      BY <2>1, <1>1, <1>2, <1>3 DEF LateGets
  <1>6. ASSUME NEW t \in Threads, TestStartedDoes(t) PROVE LateGets'
    <2>1. /\ pc'[t] \notin {"held", "done", "no memory"} /\ did'.refused = did.refused
          /\ \A u \in Threads : u # t => pc'[u] = pc[u] /\ reg'[u] = reg[u]
      BY <1>6 DEF TestStartedDoes, After, DidIs
    <2> QED
      BY <2>1, <1>1, <1>2, <1>3 DEF LateGets
  <1>7. ASSUME NEW t \in Threads, ClaimReserveDoes(t) PROVE LateGets'
    <2>1. /\ pc'[t] \notin {"held", "done", "no memory"} /\ did'.refused = did.refused
          /\ \A u \in Threads : u # t => pc'[u] = pc[u] /\ reg'[u] = reg[u]
      BY <1>7 DEF ClaimReserveDoes, After, DidIs
    <2> QED
      BY <2>1, <1>1, <1>2, <1>3 DEF LateGets
  <1>8. ASSUME NEW t \in Threads, ReserveMmapDoes(t) PROVE LateGets'
    <2>1. /\ pc'[t] \notin {"held", "done", "no memory"} /\ did'.refused = did.refused
          /\ \A u \in Threads : u # t => pc'[u] = pc[u] /\ reg'[u] = reg[u]
      BY <1>8 DEF ReserveMmapDoes, After, DidIs
    <2> QED
      BY <2>1, <1>1, <1>2, <1>3 DEF LateGets
  <1>9. ASSUME NEW t \in Threads, ReserveStoreDoes(t) PROVE LateGets'
    <2>1. /\ pc'[t] \notin {"held", "done", "no memory"} /\ did'.refused = did.refused
          /\ \A u \in Threads : u # t => pc'[u] = pc[u] /\ reg'[u] = reg[u]
      BY <1>9 DEF ReserveStoreDoes, After, DidIs
    <2> QED
      BY <2>1, <1>1, <1>2, <1>3 DEF LateGets
  <1>10. ASSUME NEW t \in Threads, OnceDoes(t) PROVE LateGets'
    <2>1. /\ pc'[t] \notin {"held", "done", "no memory"} /\ did'.refused = did.refused
          /\ \A u \in Threads : u # t => pc'[u] = pc[u] /\ reg'[u] = reg[u]
      BY <1>10 DEF OnceDoes, After, DidIs
    <2> QED
      BY <2>1, <1>1, <1>2, <1>3 DEF LateGets
  <1>11. ASSUME NEW t \in Threads, DoInitDoes(t) PROVE LateGets'
    <2>1. /\ pc'[t] \notin {"held", "done", "no memory"} /\ did'.refused = did.refused
          /\ \A u \in Threads : u # t => pc'[u] = pc[u] /\ reg'[u] = reg[u]
      BY <1>11 DEF DoInitDoes, After, DidIs
    <2> QED
      BY <2>1, <1>1, <1>2, <1>3 DEF LateGets
  <1>12. ASSUME NEW t \in Threads, ReadyDoes(t) PROVE LateGets'
    <2>1. /\ pc'[t] \notin {"held", "done", "no memory"} /\ did'.refused = did.refused
          /\ \A u \in Threads : u # t => pc'[u] = pc[u] /\ reg'[u] = reg[u]
      BY <1>12 DEF ReadyDoes, After, DidIs
    <2> QED
      BY <2>1, <1>1, <1>2, <1>3 DEF LateGets
  <1>13. ASSUME NEW t \in Threads, ClaimStartDoes(t) PROVE LateGets'
    <2>1. /\ pc'[t] \notin {"held", "done", "no memory"} /\ did'.refused = did.refused
          /\ \A u \in Threads : u # t => pc'[u] = pc[u] /\ reg'[u] = reg[u]
      BY <1>13 DEF ClaimStartDoes, After, DidIs
    <2> QED
      BY <2>1, <1>1, <1>2, <1>3 DEF LateGets
  <1>14. ASSUME NEW t \in Threads, StartTrimDoes(t) PROVE LateGets'
    <2>1. /\ pc'[t] \notin {"held", "done", "no memory"} /\ did'.refused = did.refused
          /\ \A u \in Threads : u # t => pc'[u] = pc[u] /\ reg'[u] = reg[u]
      BY <1>14 DEF StartTrimDoes, After, DidIs
    <2> QED
      BY <2>1, <1>1, <1>2, <1>3 DEF LateGets
  <1>15. ASSUME NEW t \in Threads, TrimStartedDoes(t) PROVE LateGets'
    <2>1. /\ pc'[t] = "check" /\ pc[t] \in {"created", "no memory"}
          /\ \A u \in Threads : u # t => pc'[u] = pc[u] /\ reg'[u] = reg[u]
      BY <1>15 DEF TrimStartedDoes, After
    <2>2. did'.refused # "late"
      <3>1. \/ did'.refused = did.refused \/ did'.refused = "kernel"
            \/ pc[t] = "no memory" /\ did'.refused = reg[t].nested
        BY <1>15 DEF TrimStartedDoes, DidIs
      <3> QED
        BY <3>1 DEF LateGets
    <2> QED
      BY <2>1, <2>2, <1>1, <1>2, <1>3 DEF LateGets
  <1>16. ASSUME NEW t \in Threads, CheckDoes(t) PROVE LateGets'
    <2>1. /\ pc'[t] \notin {"held", "done", "no memory"} /\ did'.refused = did.refused
          /\ \A u \in Threads : u # t => pc'[u] = pc[u] /\ reg'[u] = reg[u]
      BY <1>16 DEF CheckDoes, After, DidIs, OnceInv, OncePassed
    <2> QED
      BY <2>1, <1>1, <1>2, <1>3 DEF LateGets
  <1>17. ASSUME NEW t \in Threads, PlaceDoes(t) PROVE LateGets'
    <2>1. /\ pc[t] = "place" /\ did'.refused = did.refused
          /\ pc'[t] \in {"fetch", "created", "held"}
          /\ pc'[t] = "held" => g_res_start = 0
          /\ \A u \in Threads : u # t => pc'[u] = pc[u] /\ reg'[u] = reg[u]
      BY <1>17 DEF PlaceDoes, After, DidIs
    <2>2. reg'[t].early <=> reg[t].early
      BY <1>17 DEF PlaceDoes, After
    <2>3. Published => g_res_start # 0
      BY PublishedStays, SlotsPositive
    <2>4. pc'[t] = "held" => reg'[t].early
      BY <1>3, <2>1, <2>2, <2>3
    <2> QED
      BY <2>1, <2>4, <1>1, <1>2, <1>3 DEF LateGets
  <1>18. ASSUME NEW t \in Threads, FetchDoes(t) PROVE LateGets'
    <2>1. /\ pc[t] = "fetch" /\ did'.refused = did.refused
          /\ \A u \in Threads : u # t => pc'[u] = pc[u] /\ reg'[u] = reg[u]
      BY <1>18 DEF FetchDoes, After, DidIs
    <2>2. CASE ~ Published
      <3>1. pc'[t] = "held" => reg'[t].early
        BY <1>18, <1>3, <2>1, <2>2 DEF FetchDoes, After
      <3>2. pc'[t] # "done" /\ reg'[t].nested # "late"
        BY <1>18, <2>2 DEF FetchDoes, After, LateSees
      <3> QED
        BY <2>1, <3>1, <3>2, <1>1, <1>2, <1>3 DEF LateGets
    <2>3. CASE Published
      <3>1. /\ g_res_start = 2 * Slots /\ g_res_start <= g_res_bump /\ g_res_bump < g_res_end
            /\ UNCHANGED <<g_res_start, g_res_end>>
        BY <2>3, PublishedStays
      <3>2. g_res_bump \in Nat /\ g_res_end \in Nat /\ g_res_bump # 0
        BY <3>1, SlotsPositive DEF Types
      <3>3. \/ pc'[t] = "held" /\ reg'[t].ptr = g_res_bump
            \/ pc'[t] = "created"
        <4>1. CASE reg[t].nested = "no"
          BY <1>18, <3>1, <4>1 DEF FetchDoes, After
        <4>2. CASE reg[t].nested # "no"
          <5>1. ~ (g_res_bump >= g_res_end \/ g_res_bump = 0)
            BY <3>1, <3>2
          <5> QED
            BY <1>18, <4>2, <5>1 DEF FetchDoes, After
        <4> QED
          BY <4>1, <4>2
      <3>4. pc'[t] = "held" => in_reserve(reg[t].ptr)' /\ reg'[t].ptr # 0
        BY <3>1, <3>2, <3>3 DEF in_reserve
      <3> QED
        BY <2>1, <3>3, <3>4, <1>1, <1>2, <1>3 DEF LateGets
    <2> QED
      BY <2>2, <2>3
  <1>19. ASSUME NEW t \in Threads, FreeDoes(t) PROVE LateGets'
    <2>1. /\ pc[t] = "held" /\ pc'[t] = "done" /\ did'.refused = did.refused
          /\ \A u \in Threads : u # t => pc'[u] = pc[u] /\ reg'[u] = reg[u]
      BY <1>19 DEF FreeDoes, After, DidIs
    <2>2. ~ reg'[t].early => reg'[t].freed = "run"
      BY <1>19, <2>1 DEF FreeDoes, After, LateGets
    <2> QED
      BY <2>1, <2>2, <1>1, <1>2, <1>3 DEF LateGets
  <1> QED
    BY <1>4, <1>5, <1>6, <1>7, <1>8, <1>9, <1>10, <1>11, <1>12, <1>13, <1>14, <1>15, <1>16,
       <1>17, <1>18, <1>19, StepDoes

LEMMA StartupInitIInv == StartupInit => StartupIInv
  <1> SUFFICES ASSUME StartupInit PROVE StartupIInv
    OBVIOUS
  <1>1. Types
    <2>1. pc \in [Threads -> Labels]
      BY DEF StartupInit, Labels
    <2>2. reg \in Regs /\ did \in Dids
      BY DEF StartupInit, Regs, Dids
    <2> QED
      BY <2>1, <2>2 DEF StartupInit, Types
  <1>2. /\ \A t \in Threads : pc[t] = "new"
        /\ \A t \in Threads : reg[t].nested = "no" /\ reg[t].ptr = 0
        /\ did.map = 0 /\ did.init = 0 /\ did.atfork = 0 /\ did.trim = 0 /\ did.refused = "no"
    BY DEF StartupInit
  <1>3. OnceInv
    BY <1>2 DEF StartupInit, OnceInv, OnceFlags, OnceAlone, OncePassed
  <1>4. StarterInv
    BY <1>2 DEF StartupInit, StarterInv, StarterAlone, StarterPlace, StarterCount, Starter
  <1>5. MapperInv
    BY <1>2 DEF StartupInit, MapperInv, Mapper
  <1>6. BumpInv
    BY UsedBound DEF StartupInit, BumpInv
  <1>7. PtrInv
    BY <1>2 DEF PtrInv, NoSharedPointer
  <1>8. LateSees /\ LateGets
    BY <1>2 DEF LateSees, LateGets
  <1> QED
    BY <1>1, <1>3, <1>4, <1>5, <1>6, <1>7, <1>8 DEF StartupIInv

LEMMA StartupNextIInv == StartupIInv /\ [StartupNext]_svars => StartupIInv'
  BY TypesNext, OnceNext, StarterNext, MapperNext, BumpNext, PtrNext, LateSeesNext, LateGetsNext
  DEF StartupIInv

LEMMA StartupInvariant == StartupSpec => []StartupIInv
  BY StartupInitIInv, StartupNextIInv, PTL DEF StartupSpec
-------------------------------------------------------------------------------
(* Theorems                                                                *)

\* The words that in_reserve compares with are unset or the two ends of a reserve that
\* reserve_init has mapped, at every moment and for every thread.
THEOREM StartupTypeCorrect == StartupSpec => []StartupTypeOK
  <1>1. StartupIInv => StartupTypeOK
    <2> SUFFICES ASSUME StartupIInv PROVE StartupTypeOK
      OBVIOUS
    <2>1. did.map \in {0, 1} /\ Slots \in Nat
      BY StartupAssumption DEF StartupIInv, MapperInv, StartupAssumption
    <2>2. 2 * Slots * 0 = 0 /\ 2 * Slots * 1 = 2 * Slots /\ Slots + 2 * Slots * 1 = 3 * Slots
      BY <2>1
    <2>3. \/ g_res_start = 0 /\ g_res_end = 0
          \/ did.map = 1 /\ g_res_start = 2 * Slots /\ g_res_end \in {0, 3 * Slots}
      BY DEF StartupIInv, MapperInv
    <2>4. 0 \in 0 .. did.map /\ (did.map = 1 => 1 \in 0 .. did.map /\ 1 \in 1 .. did.map)
      BY <2>1
    <2>5. g_res_start \in {2 * Slots * k : k \in 0 .. did.map}
      BY <2>2, <2>3, <2>4
    <2>6. g_res_end \in {0} \cup {Slots + 2 * Slots * k : k \in 1 .. did.map}
      BY <2>2, <2>3, <2>4
    <2> QED
      BY <2>5, <2>6 DEF StartupIInv, Types, Regs, Dids, Labels, StartupTypeOK
  <1> QED
    BY <1>1, StartupInvariant, PTL

\* The two exchanges and pthread_once of ensure_init each let one thread through, however
\* many call malloc at once.
THEOREM StartupAtMostOnce == StartupSpec => []AtMostOnce
  <1>1. StartupIInv => AtMostOnce
    BY DEF StartupIInv, MapperInv, OnceInv, OnceFlags, StarterInv, StarterCount, AtMostOnce
  <1> QED
    BY <1>1, StartupInvariant, PTL

\* No class mutex is used, and no trim thread runs, before do_init has ended.
THEOREM StartupMutexesReady == StartupSpec => []MutexesReady
  <1>1. StartupIInv => MutexesReady
    <2> SUFFICES ASSUME StartupIInv,
                        did.trim > 0 \/ \E t \in Threads : pc[t] \in {"place", "fetch", "created"}
                 PROVE  did.init > 0 /\ \A t \in Threads : pc[t] # "do_init"
      BY DEF MutexesReady
    <2>1. g_ready
      <3>1. CASE did.trim > 0
        BY <3>1 DEF StartupIInv, StarterInv, StarterCount, OnceInv, OnceFlags
      <3>2. CASE \E t \in Threads : pc[t] \in {"place", "fetch", "created"}
        BY <3>2 DEF StartupIInv, OnceInv, OncePassed
      <3> QED
        BY <3>1, <3>2
    <2>2. g_init_once = "done" /\ did.init = 1
      BY <2>1 DEF StartupIInv, OnceInv, OnceFlags
    <2> QED
      BY <2>2 DEF StartupIInv, OnceInv, OnceAlone
  <1> QED
    BY <1>1, StartupInvariant, PTL

\* malloc never returns one address to two threads, even if they allocate while
\* reserve_init is storing the three words of the reserve.
THEOREM StartupNoSharedPointer == StartupSpec => []NoSharedPointer
  <1>1. StartupIInv => NoSharedPointer
    BY DEF StartupIInv, PtrInv
  <1> QED
    BY <1>1, StartupInvariant, PTL

\* A malloc that begins once the reserve is stored returns memory of the reserve, free
\* recognises it, and pthread_create gets its memory as well.
THEOREM StartupLateCallsServed == StartupSpec => []LateCallsServed
  <1>1. StartupIInv => LateCallsServed
    BY DEF StartupIInv, LateGets, LateCallsServed, At
  <1> QED
    BY <1>1, StartupInvariant, PTL
===============================================================================
