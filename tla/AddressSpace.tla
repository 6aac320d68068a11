----------------------------- MODULE AddressSpace -----------------------------
(***************************************************************************)
(* memflux-preload at the level of addresses: where reserve_map puts runs  *)
(* and large objects, and how free and realloc find out, from nothing but  *)
(* a pointer, whose it is.  Calls are atomic here; Allocator.tla models    *)
(* their interleavings.                                                    *)
(*                                                                         *)
(* Unmapped parts of the reserve stay unmapped: the kernel puts nobody     *)
(* else's mapping there.  The page below the reserve is not mapped either. *)
(* Arithmetic on uintptr_t and size_t is modulo WordMod.  Memory contents  *)
(* are the headers of the objects that are mapped: bytes the application   *)
(* owns never look like one of the two magic numbers.                      *)
(***************************************************************************)
EXTENDS RunGeometry, FiniteSets

CONSTANTS
  Reserved,     \* reserve_init succeeded
  ResStart,     \* g_res_start: page aligned, and no more than that
  ResEnd,       \* g_res_end
  WordMod,      \* modulus of uintptr_t
  LargeHdr,     \* sizeof(LargeHdr)
  PtrSize,      \* sizeof(void*)
  Requests,     \* sizes asked for
  Aligns,       \* alignments asked for, powers of two
  Foreign,      \* pointers the libc returned before the interposition
  MaxBump,      \* bound: no call is made once g_res_bump is beyond
  Null

ASSUME AddressAssumption ==
  /\ Reserved \in BOOLEAN
  /\ ResStart \in Nat /\ ResEnd \in Nat /\ ResStart <= ResEnd
  /\ ResStart % PageSize = 0
  /\ WordMod \in Nat /\ ResEnd < WordMod
  /\ LargeHdr \in 1 .. PageSize
  /\ PtrSize \in Nat \ {0}
  /\ Requests \subseteq 0 .. WordMod - 1
  /\ Aligns \subseteq Nat \ {0}
  /\ \A p \in Foreign : p \in Nat /\ p \notin ResStart .. ResEnd - 1
  /\ MaxBump \in Nat
  /\ Null \notin Nat
  /\ kNumClasses > 0

VARIABLES
  mem,       \* [bump, obj]: g_res_bump, and the mapped objects by address
  live,      \* [ptr, size]: what the application has been given
  libc,      \* pointers that belong to the libc
  crashed    \* "no", or why the process has died

avars == <<mem, live, libc, crashed>>

kLargeMin == kSizes[kNumClasses] + 1

NewRunAt(c) == [kind |-> "run", cls |-> c, map |-> run_map(c), user |-> 0, free |-> Idx(c)]
NewLarge(map, n) == [kind |-> "large", cls |-> 0, map |-> map, user |-> n, free |-> {}]

AddrInit ==
  /\ mem = [bump |-> ResStart, obj |-> << >>]
  /\ live = {}
  /\ libc = Foreign
  /\ crashed = "no"
-----------------------------------------------------------------------------
(* Mapping                                                                 *)

\* MUTANT of AlignUp: rounding down.
AlignUp_Down(a, align) == (a \div align) * align

AlignUp(a, align) == (((a + align - 1) % WordMod) \div align) * align

in_reserve(p) == Reserved /\ ResStart <= p /\ p < ResEnd

\* The bytes of the object at b.
Extent(m, b) == b .. b + m.obj[b].map - 1

\* Address a can be read.
Readable(m, a) == \E b \in DOMAIN m.obj : a \in Extent(m, b)

\* MUTANT of reserve_bump: the alignment is not paid for.
reserve_bump_NoAlign(a, size, align) == (a + size) % WordMod

\* What fetch_add leaves in g_res_bump.
reserve_bump(a, size, align) == (a + size + align) % WordMod

\* The addresses reserve_map may answer; it advances g_res_bump in any case.
reserve_map(m, size, align) ==
  LET base == AlignUp(m.bump, align)
  IN  {Null} \cup (IF (base + size) % WordMod > ResEnd \/ size = 0 THEN {} ELSE {base})

\* Without a reserve the kernel chooses a free place.
mmap(m, size) ==
  {Null} \cup {b \in ResStart .. ResEnd - size :
                 b % PageSize = 0 /\ \A a \in b .. b + size - 1 : ~ Readable(m, a)}

\* Mapping object o: MAP_FIXED replaces what was there.
Place(m, o, align) ==
  LET bump == IF Reserved THEN reserve_bump(m.bump, o.map, align) ELSE m.bump
      New(b) == b .. b + o.map - 1
      kept(b) == {x \in DOMAIN m.obj : Extent(m, x) \cap New(b) = {}}
  IN  {[base |-> b,
        mem  |-> [bump |-> bump,
                  obj  |-> IF b = Null THEN m.obj
                           ELSE [x \in kept(b) \cup {b} |-> IF x = b THEN o ELSE m.obj[x]]]] :
          b \in IF Reserved THEN reserve_map(m, o.map, align) ELSE mmap(m, o.map)}
-----------------------------------------------------------------------------
(* malloc                                                                  *)

class_of(n) == CHOOSE c \in Classes : kSizes[c] >= n /\ \A d \in Classes : kSizes[d] >= n => c <= d

block_addr(b, c, i) == b + block_offset(c, i)

\* run_take from the run at b: its first free block.
take(m, b) ==
  LET o == m.obj[b]
      i == CHOOSE x \in o.free : \A y \in o.free : x <= y
  IN  [mem |-> [m EXCEPT !.obj[b].free = @ \ {i}], ptr |-> block_addr(b, o.cls, i)]

\* The runs of a class that are not full; the list has the newest one first.
NotFull(m, c) == {b \in DOMAIN m.obj : m.obj[b].kind = "run" /\ m.obj[b].cls = c /\ m.obj[b].free # {}}

malloc_small(m, n) ==
  LET c == class_of(n)
      R == NotFull(m, c)
  IN  IF R # {}
      THEN {take(m, CHOOSE b \in R : \A d \in R : d <= b)}
      ELSE {IF x.base = Null THEN [mem |-> x.mem, ptr |-> Null] ELSE take(x.mem, x.base) :
              x \in Place(m, NewRunAt(c), kRunSize)}

malloc_large(m, n) ==
  LET need == (LargeHdr + n) % WordMod
      map == AlignUp(need, PageSize)
  IN  {[mem |-> x.mem, ptr |-> IF x.base = Null THEN Null ELSE x.base + LargeHdr] :
         x \in Place(m, NewLarge(map, n), PageSize)}

\* What malloc(n) may do: a new memory and a pointer.
malloc(m, n) ==
  LET s == IF n = 0 THEN 1 ELSE n
  IN  IF s >= kLargeMin THEN malloc_large(m, s) ELSE malloc_small(m, s)
-----------------------------------------------------------------------------
(* free                                                                    *)

run_of(p) == (p \div kRunSize) * kRunSize

\* MUTANT of ours_small: the end of the data is not looked at.
ours_small_NoEnd(m, p) ==
  LET b == run_of(p) IN
  /\ b \in DOMAIN m.obj
  /\ m.obj[b].kind = "run"
  /\ LET c == m.obj[b].cls
         off == p - (b + data_offset_padded(Elems(c)))
     IN  off >= 0 /\ off % Elem(c) = 0

\* MUTANT of ours_small: the first block is not let in.
ours_small_NoFirst(m, p) ==
  LET b == run_of(p) IN
  /\ b \in DOMAIN m.obj
  /\ m.obj[b].kind = "run"
  /\ LET c == m.obj[b].cls
         off == p - (b + data_offset_padded(Elems(c)))
     IN  off > 0 /\ off < data_len(c) /\ off % Elem(c) = 0

\* The header at run_of(p) is one of a run, and p is the start of one of its blocks.
ours_small(m, p) ==
  LET b == run_of(p) IN
  /\ b \in DOMAIN m.obj
  /\ m.obj[b].kind = "run"
  /\ LET c == m.obj[b].cls
         off == p - (b + data_offset_padded(Elems(c)))
     IN  off >= 0 /\ off < data_len(c) /\ off % Elem(c) = 0

block_of(m, p) ==
  LET c == m.obj[run_of(p)].cls
  IN  (p - (run_of(p) + data_offset_padded(Elems(c)))) \div Elem(c)

ours_large(m, p) == p - LargeHdr \in DOMAIN m.obj /\ m.obj[p - LargeHdr].kind = "large"

\* Whose p is, as free and realloc find out: "fault" if a header they read is not mapped.
Owner(m, p) ==
  IF Reserved /\ ~ in_reserve(p) THEN "libc"
  ELSE IF ~ in_reserve(p) THEN "none"
  ELSE IF ~ Readable(m, run_of(p)) THEN "fault"
  ELSE IF ours_small(m, p) THEN "small"
  ELSE IF ~ Readable(m, p - LargeHdr) THEN "fault"
  ELSE IF ours_large(m, p) THEN "large"
  ELSE "none"

Unmap(m, b) == [m EXCEPT !.obj = [x \in DOMAIN m.obj \ {b} |-> m.obj[x]]]

\* What free(p) does to the memory.
free(m, p) ==
  CASE Owner(m, p) = "small" -> [m EXCEPT !.obj[run_of(p)].free = @ \cup {block_of(m, p)}]
    [] Owner(m, p) = "large" -> Unmap(m, p - LargeHdr)
    [] OTHER -> m

\* How the process survives free(p): a large object is unmapped first, and its
\* size is read from it for g_freed_to_os afterwards.
FreeOutcome(m, p) ==
  CASE Owner(m, p) = "fault" -> "owner"
    [] Owner(m, p) = "large" -> "count"
    [] Owner(m, p) = "libc" /\ p \notin libc -> "libc"
    [] OTHER -> "no"
-----------------------------------------------------------------------------
(* The calls                                                               *)

Given(p, n) == IF p = Null THEN {} ELSE {[ptr |-> p, size |-> n]}

Alive == crashed = "no" /\ mem.bump <= MaxBump

Malloc(n) ==
  /\ Alive
  /\ \E x \in malloc(mem, n) :
       /\ mem' = x.mem
       /\ live' = live \cup Given(x.ptr, n)
  /\ UNCHANGED <<libc, crashed>>

\* calloc, after its test for overflow.
Calloc(nm, sz) == nm * sz < WordMod /\ Malloc(nm * sz)

Free(l) ==
  /\ Alive
  /\ mem' = free(mem, l.ptr)
  /\ live' = live \ {l}
  /\ libc' = libc \ {l.ptr}
  /\ crashed' = FreeOutcome(mem, l.ptr)

\* The size realloc takes the old object to have.
old(l) ==
  IF Owner(mem, l.ptr) = "small" THEN Elem(mem.obj[run_of(l.ptr)].cls)
  ELSE mem.obj[l.ptr - LargeHdr].user

\* The block is kept: it is small enough not to waste half of it.
ReallocInPlace(l, n) ==
  /\ Alive
  /\ n # 0
  /\ Owner(mem, l.ptr) \in {"small", "large"}
  /\ n <= old(l) /\ old(l) < kLargeMin /\ n > old(l) \div 2
  /\ live' = (live \ {l}) \cup {[ptr |-> l.ptr, size |-> n]}
  /\ UNCHANGED <<mem, libc, crashed>>

\* malloc, memcpy, free; nothing changes if malloc fails.
ReallocMove(l, n) ==
  /\ Alive
  /\ n # 0
  /\ Owner(mem, l.ptr) \in {"small", "large"}
  /\ ~ (n <= old(l) /\ old(l) < kLargeMin /\ n > old(l) \div 2)
  /\ \E x \in malloc(mem, n) :
       IF x.ptr = Null
       THEN mem' = x.mem /\ UNCHANGED <<live, crashed>>
       ELSE /\ mem' = free(x.mem, l.ptr)
            /\ live' = (live \ {l}) \cup Given(x.ptr, n)
            /\ crashed' = FreeOutcome(x.mem, l.ptr)
  /\ UNCHANGED libc

\* realloc(p, 0): free(p), then malloc(1).
ReallocZero(l) ==
  /\ Alive
  /\ \E x \in malloc(free(mem, l.ptr), 1) :
       /\ mem' = x.mem
       /\ live' = (live \ {l}) \cup Given(x.ptr, 1)
  /\ libc' = libc \ {l.ptr}
  /\ crashed' = FreeOutcome(mem, l.ptr)

\* The pointer is not found to be ours: the libc gets it, and keeps its own.
ReallocElsewhere(l, n) ==
  /\ Alive
  /\ n # 0
  /\ Owner(mem, l.ptr) \notin {"small", "large"}
  /\ crashed' = IF Owner(mem, l.ptr) = "fault" THEN "owner"
                ELSE IF l.ptr \in libc THEN "no" ELSE "libc"
  /\ UNCHANGED <<mem, live, libc>>

\* posix_memalign, and through it aligned_alloc, memalign, valloc and pvalloc.
Memalign(align, n) ==
  LET a == IF align < PtrSize THEN PtrSize ELSE align
      need == (n + a + PageSize) % WordMod
  IN
  /\ Alive
  /\ \E x \in malloc(mem, need) :
       /\ mem' = x.mem
       /\ live' = live \cup (IF x.ptr = Null THEN {} ELSE Given(AlignUp(x.ptr, a), n))
  /\ UNCHANGED <<libc, crashed>>

\* The trim thread returns a run whose blocks are all free.
UnmapRun(b) ==
  /\ Alive
  /\ mem.obj[b].kind = "run"
  /\ mem.obj[b].free = Idx(mem.obj[b].cls)
  /\ mem' = Unmap(mem, b)
  /\ UNCHANGED <<live, libc, crashed>>

\* What the application may pass to free and realloc.
Held == live \cup {[ptr |-> p, size |-> 1] : p \in libc}

AddrNext ==
  \/ \E n \in Requests :
       \/ Malloc(n)
       \/ \E nm, sz \in Requests : nm * sz = n /\ Calloc(nm, sz)
       \/ \E a \in Aligns : Memalign(a, n)
       \/ \E l \in Held : ReallocInPlace(l, n) \/ ReallocMove(l, n) \/ ReallocElsewhere(l, n)
  \/ \E l \in Held : Free(l) \/ ReallocZero(l)
  \/ \E b \in DOMAIN mem.obj : UnmapRun(b)

AddrSpec == AddrInit /\ [][AddrNext]_avars
-----------------------------------------------------------------------------
(* Properties                                                              *)

\* Types of the address space: the objects are where reserve_map aligns them.
AddrTypeOK ==
  /\ mem.bump \in 0 .. WordMod - 1
  /\ \A b \in DOMAIN mem.obj :
       LET o == mem.obj[b] IN
       /\ b \in ResStart .. ResEnd - 1
       /\ \/ o.kind = "run" /\ o.cls \in Classes /\ o.free \subseteq Idx(o.cls)
             /\ (Reserved => b % kRunSize = 0)
          \/ o.kind = "large" /\ b % PageSize = 0
  /\ \A l \in live : l.ptr \in 0 .. WordMod - 1 /\ l.size \in 0 .. WordMod - 1
  /\ libc \subseteq Foreign
  /\ crashed \in {"no", "owner", "count", "libc"}

Bytes(l) == l.ptr .. l.ptr + l.size - 1

\* The bytes of block i of the run at b.
BlockBytes(m, b, i) ==
  LET c == m.obj[b].cls IN block_addr(b, c, i) .. block_addr(b, c, i) + Elem(c) - 1

\* The bytes an object has to give, block by block.
Usable(m, b) ==
  LET o == m.obj[b] IN
  IF o.kind = "large" THEN {b + LargeHdr .. b + o.map - 1}
  ELSE {BlockBytes(m, b, i) : i \in Idx(o.cls) \ o.free}

\* What malloc, realloc and posix_memalign return has the size that was asked for,
\* inside one taken block or one large object that is still mapped, and no two of
\* them share a byte, whatever was freed, moved or unmapped in between.
LiveFits ==
  crashed = "no" =>
    /\ \A l \in live :
         l.size > 0 => \E b \in DOMAIN mem.obj : \E u \in Usable(mem, b) : Bytes(l) \subseteq u
    /\ \A l, k \in live : l # k => Bytes(l) \cap Bytes(k) = {}

\* The block free gives back is a taken block of a run, and of its bytes, or of the
\* bytes free unmaps, none belongs to another pointer: run_of never takes a large
\* object, the tail of a run or an aligned pointer for a block that it is not.
FreeHitsOwner ==
  crashed = "no" =>
    \A l \in live :
      LET b == run_of(l.ptr)
          block == BlockBytes(mem, b, block_of(mem, l.ptr))
          Alone(B) == \A k \in live \ {l} : Bytes(k) \cap B = {}
      IN  /\ Owner(mem, l.ptr) = "small" => block \in Usable(mem, b) /\ Alone(block)
          /\ Owner(mem, l.ptr) = "large" => Alone(Extent(mem, l.ptr - LargeHdr))

\* A block that is out is recognised, by the header at run_of and the bounds of the
\* run, exactly if it starts within kRunSize of the base of its run: this is what
\* Allocator.tla assumes of free, whatever lies around the run.
BlocksFound ==
  crashed = "no" =>
    \A b \in {x \in DOMAIN mem.obj : mem.obj[x].kind = "run"} :
      LET c == mem.obj[b].cls IN
      \A i \in Idx(c) \ mem.obj[b].free :
        run_of_finds(c, i) <=> Owner(mem, block_addr(b, c, i)) = "small"
===============================================================================
