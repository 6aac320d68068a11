---------------------------- MODULE AddressProofs ----------------------------
(***************************************************************************)
(* memflux-preload at the level of addresses, for every table of sizes,    *)
(* every reserve and every history of calls: where the objects and the     *)
(* pointers are.                                                           *)
(*                                                                         *)
(* The invariant gives every pointer the application holds a home: a taken *)
(* block of a run, or a large object, that contains it and is the home of  *)
(* no other pointer.                                                       *)
(***************************************************************************)
EXTENDS AddressSpace, WellFoundedInduction, TLAPS

\* The sums of g_res_bump, an alignment and what a call asks for stay below the modulus
\* of uintptr_t: the code does not check them.
NoWrap ==
  /\ \A c \in Classes : MaxBump + run_map(c) + kRunSize < WordMod
  /\ \A n \in Requests \cup {1}, a \in Aligns \cup {PtrSize} :
       /\ MaxBump + LargeHdr + n + a + 3 * PageSize < WordMod
       /\ ResEnd + a < WordMod

Objects == [kind : {"run", "large"}, cls : Nat, map : Nat \ {0}, user : Nat, free : SUBSET Nat]

\* Object o may be at address b.
ObjectOK(b, o) ==
  /\ ResStart <= b /\ b + o.map <= ResEnd
  /\ o.kind = "run" => /\ o.cls \in Classes /\ o.map = run_map(o.cls) /\ o.free \subseteq Idx(o.cls)
                       /\ (Reserved => b % kRunSize = 0)
  /\ o.kind = "large" => /\ b % PageSize = 0
                         /\ o.user >= 1 /\ LargeHdr + o.user <= o.map

\* The objects lie in the reserve, below g_res_bump, one behind the other.
MemOK(m) ==
  /\ m \in [bump : Nat, obj : {m.obj}]
  /\ DOMAIN m.obj \subseteq Nat /\ m.obj \in [DOMAIN m.obj -> Objects]
  /\ \A b \in DOMAIN m.obj : ObjectOK(b, m.obj[b])
  /\ \A b, d \in DOMAIN m.obj : b < d => b + m.obj[b].map <= d
  /\ ResStart <= m.bump
  /\ Reserved => \A b \in DOMAIN m.obj : b + m.obj[b].map <= m.bump

\* What of the object at b has been given: its taken blocks, or all of it.
Parts(m, b) ==
  IF m.obj[b].kind = "run" THEN Idx(m.obj[b].cls) \ m.obj[b].free ELSE {0}

\* Part i of the object at b is the addresses from Low to High - 1.
Low(m, b, i) ==
  IF m.obj[b].kind = "run" THEN block_addr(b, m.obj[b].cls, i) ELSE b + LargeHdr
High(m, b, i) ==
  IF m.obj[b].kind = "run" THEN block_addr(b, m.obj[b].cls, i) + Elem(m.obj[b].cls)
  ELSE b + m.obj[b].map

\* It contains pointer l.
Home(m, l, b, i) ==
  Low(m, b, i) <= l.ptr /\ l.ptr < High(m, b, i) /\ l.ptr + l.size <= High(m, b, i)

\* The pointers in L have homes, each its own.
LiveOK(m, L) ==
  /\ \A l \in L : /\ l.ptr \in Nat /\ l.size \in Nat
                  /\ \E b \in DOMAIN m.obj : \E i \in Parts(m, b) : Home(m, l, b, i)
  /\ \A b \in DOMAIN m.obj : \A i \in Parts(m, b) : \A l, k \in L :
       Home(m, l, b, i) /\ Home(m, k, b, i) => l = k

AddrIInv ==
  /\ MemOK(mem)
  /\ mem.bump < WordMod
  /\ LiveOK(mem, live)
  /\ \A l \in live : l = [ptr |-> l.ptr, size |-> l.size] /\ l.size \in 0 .. WordMod - 1
  /\ libc \subseteq Foreign
  /\ crashed \in {"no", "owner", "count", "libc"}
-----------------------------------------------------------------------------
(* Arithmetic.                                                             *)

\* Multiplication by a positive number reflects the order.
LEMMA MulLess == \A x, y \in Nat, e \in Nat \ {0} : x * e < y * e => x < y
<1> SUFFICES ASSUME NEW x \in Nat, NEW y \in Nat, NEW e \in Nat \ {0}, ~ (x < y)
             PROVE  ~ (x * e < y * e)
  OBVIOUS
<1>1. PICK d \in Nat : x = y + d
  <2>1. x - y \in Nat /\ x = y + (x - y)
    OBVIOUS
  <2> QED
    BY <2>1
<1>2. x * e = y * e + d * e
  BY <1>1
<1>3. d * e \in Nat
  OBVIOUS
<1> QED
  BY <1>2, <1>3

\* Block sizes are positive and no larger than a run.
LEMMA ElemType == \A c \in Classes : Elem(c) \in Nat \ {0} /\ Elem(c) <= kRunSize
  BY GeometryAssumption DEF Classes, kNumClasses, Elem

LEMMA Division ==
  \A x \in Nat, a \in Nat \ {0} :
    /\ x \div a \in Nat /\ x % a \in 0 .. a - 1
    /\ x = (x \div a) * a + (x % a)
<1> SUFFICES ASSUME NEW x \in Nat, NEW a \in Nat \ {0}
             PROVE  /\ x \div a \in Nat /\ x % a \in 0 .. a - 1
                    /\ x = (x \div a) * a + (x % a)
  OBVIOUS
<1>1. x % a \in 0 .. a - 1
  OBVIOUS
<1>2. x \div a \in Nat
  OBVIOUS
<1>3. x = a * (x \div a) + (x % a)
  OBVIOUS
<1>4. a * (x \div a) = (x \div a) * a
  BY <1>2
<1> QED
  BY <1>1, <1>2, <1>3, <1>4

LEMMA Multiples == \A x \in Nat, a \in Nat \ {0} : x * a \in Nat /\ (x * a) % a = 0
  OBVIOUS

\* RoundUp, and AlignUp where nothing wraps.
LEMMA RoundUpBounds ==
  \A x \in Nat, a \in Nat \ {0} :
    RoundUp(x, a) \in Nat /\ x <= RoundUp(x, a) /\ RoundUp(x, a) <= x + a - 1 /\ RoundUp(x, a) % a = 0
<1> SUFFICES ASSUME NEW x \in Nat, NEW a \in Nat \ {0}
             PROVE  /\ RoundUp(x, a) \in Nat /\ x <= RoundUp(x, a)
                    /\ RoundUp(x, a) <= x + a - 1 /\ RoundUp(x, a) % a = 0
  OBVIOUS
<1> DEFINE y == x + a - 1
<1>1. y \in Nat
  OBVIOUS
<1>2. y \div a \in Nat /\ y % a \in 0 .. a - 1 /\ y = (y \div a) * a + (y % a)
  BY <1>1, Division
<1>3. RoundUp(x, a) = (y \div a) * a
  BY DEF RoundUp
<1>4. (y \div a) * a \in Nat /\ ((y \div a) * a) % a = 0
  BY <1>2, Multiples
<1> HIDE DEF y
<1>5. x <= (y \div a) * a /\ (y \div a) * a <= x + a - 1
  <2> DEFINE z == (y \div a) * a
             w == y % a
  <2>1. z \in Nat
    BY <1>4
  <2>0. w \in 0 .. a - 1 /\ y = z + w
    BY <1>2
  <2> HIDE DEF z, w
  <2>2. x <= z /\ z <= x + a - 1
    BY <2>0, <2>1 DEF y
  <2> QED
    BY <2>2 DEF z
<1> QED
  BY <1>3, <1>4, <1>5

LEMMA AlignUpBounds ==
  ASSUME NEW x \in Nat, NEW a \in Nat \ {0}, x + a < WordMod
  PROVE  /\ AlignUp(x, a) \in Nat /\ x <= AlignUp(x, a) /\ AlignUp(x, a) <= x + a - 1
         /\ AlignUp(x, a) % a = 0
<1>1. x + a - 1 \in Nat /\ WordMod \in Nat \ {0} /\ (x + a - 1) % WordMod = x + a - 1
  BY AddressAssumption DEF AddressAssumption
<1>2. AlignUp(x, a) = RoundUp(x, a)
  BY <1>1 DEF AlignUp, RoundUp
<1> QED
  BY <1>2, RoundUpBounds

\* What lies below the modulus is left alone by it.
LEMMA NoMod == \A x \in Nat, w \in Nat : x < w => x % w = x
  OBVIOUS

\* The shape of a run.
LEMMA RunShape ==
  ASSUME NEW c \in Classes
  PROVE  /\ Elem(c) \in Nat \ {0} /\ Elems(c) \in Nat \ {0}
         /\ data_offset_padded(Elems(c)) \in Nat
         /\ data_len(c) \in Nat \ {0} /\ data_len(c) = Elems(c) * Elem(c)
         /\ run_map(c) \in Nat \ {0}
         /\ data_offset_padded(Elems(c)) + data_len(c) <= run_map(c)
         /\ \A i \in Idx(c) : /\ i \in Nat /\ i * Elem(c) \in Nat
                              /\ i * Elem(c) + Elem(c) <= data_len(c)
<1>1. Elem(c) \in Nat \ {0} /\ Elem(c) <= kRunSize
  BY ElemType
<1>2. Elems(c) \in Nat \ {0}
  <2>1. kRunSize \div Elem(c) \in Nat /\ kRunSize \div Elem(c) >= 1
    BY <1>1, GeometryAssumption DEF GeometryAssumption
  <2> QED
    BY <2>1, GeometryAssumption DEF Elems, GeometryAssumption
<1>3. data_offset_padded(Elems(c)) \in Nat
  <2>1. (Elems(c) + WordBits - 1) \div WordBits \in Nat
    BY <1>2, GeometryAssumption DEF GeometryAssumption
  <2>2. RunHdr + bits_words(Elems(c)) * WordBytes \in Nat
    BY <2>1, GeometryAssumption DEF bits_words, GeometryAssumption
  <2> QED
    BY <2>2, RoundUpBounds, GeometryAssumption DEF data_offset_padded, GeometryAssumption
<1>4. data_len(c) \in Nat \ {0} /\ data_len(c) = Elems(c) * Elem(c)
  BY <1>1, <1>2 DEF data_len
<1>5. run_bytes(c) \in Nat /\ run_bytes(c) = data_offset_padded(Elems(c)) + data_len(c)
  BY <1>3, <1>4 DEF run_bytes
<1>6. run_map(c) \in Nat /\ run_bytes(c) <= run_map(c)
  BY <1>5, RoundUpBounds, GeometryAssumption DEF run_map, GeometryAssumption
<1>7. ASSUME NEW i \in Idx(c)
      PROVE  i \in Nat /\ i * Elem(c) \in Nat /\ i * Elem(c) + Elem(c) <= data_len(c)
  <2>1. i \in Nat /\ i + 1 <= Elems(c)
    BY <1>2 DEF Idx
  <2>2. PICK d \in Nat : Elems(c) = i + 1 + d
    <3>1. Elems(c) - (i + 1) \in Nat /\ Elems(c) = i + 1 + (Elems(c) - (i + 1))
      BY <1>2, <2>1
    <3> QED
      BY <3>1
  <2>3. Elems(c) * Elem(c) = i * Elem(c) + Elem(c) + d * Elem(c)
    BY <1>1, <2>1, <2>2
  <2>4. d * Elem(c) \in Nat /\ i * Elem(c) \in Nat
    BY <1>1, <2>1
  <2> QED
    BY <1>1, <1>4, <2>1, <2>3, <2>4
<1> QED
  BY <1>1, <1>2, <1>3, <1>4, <1>5, <1>6, <1>7
-----------------------------------------------------------------------------
(* Objects and their parts.                                                *)

\* Every part of an object, given or not.
Index(m, b) == IF m.obj[b].kind = "run" THEN Idx(m.obj[b].cls) ELSE {0}

LEMMA PartsIndex == \A m, b : Parts(m, b) \subseteq Index(m, b)
  BY DEF Parts, Index

\* A part lies in its object.
LEMMA PartBounds ==
  ASSUME NEW m, MemOK(m), NEW b \in DOMAIN m.obj, NEW i \in Index(m, b)
  PROVE  /\ b \in Nat /\ i \in Nat /\ m.obj[b].map \in Nat \ {0}
         /\ Low(m, b, i) \in Nat /\ High(m, b, i) \in Nat
         /\ b <= Low(m, b, i) /\ Low(m, b, i) < High(m, b, i)
         /\ High(m, b, i) <= b + m.obj[b].map
<1> DEFINE o == m.obj[b]
<1>1. b \in Nat /\ o \in Objects /\ ObjectOK(b, o)
  BY DEF MemOK
<1>2. o.map \in Nat \ {0} /\ o.kind \in {"run", "large"} /\ o.user \in Nat
  BY <1>1 DEF Objects
<1>3. CASE o.kind = "run"
  <2> DEFINE c == o.cls
             off == data_offset_padded(Elems(c))
  <2>1. c \in Classes /\ o.map = run_map(c) /\ i \in Idx(c)
    BY <1>1, <1>3 DEF ObjectOK, Index
  <2>2. /\ off \in Nat /\ Elem(c) \in Nat \ {0} /\ i \in Nat /\ i * Elem(c) \in Nat
        /\ off + (i * Elem(c) + Elem(c)) <= run_map(c)
    BY <2>1, RunShape
  <2>3. Low(m, b, i) = b + (off + i * Elem(c)) /\ High(m, b, i) = b + (off + i * Elem(c)) + Elem(c)
    BY <1>3 DEF Low, High, block_addr, block_offset
  <2> HIDE DEF off, c, o
  <2> DEFINE x == i * Elem(c)
  <2>4. x \in Nat /\ off + (x + Elem(c)) <= o.map
    BY <2>1, <2>2
  <2>5. Low(m, b, i) = b + (off + x) /\ High(m, b, i) = b + (off + x) + Elem(c)
    BY <2>3
  <2> HIDE DEF x
  <2>6. /\ Low(m, b, i) \in Nat /\ High(m, b, i) \in Nat
        /\ b <= Low(m, b, i) /\ Low(m, b, i) < High(m, b, i)
        /\ High(m, b, i) <= b + o.map
    BY <1>1, <1>2, <2>2, <2>4, <2>5
  <2> QED
    BY <1>1, <1>2, <2>2, <2>6 DEF o
<1>4. CASE o.kind = "large"
  <2>1. LargeHdr \in Nat /\ o.user >= 1 /\ LargeHdr + o.user <= o.map /\ i = 0
    BY <1>1, <1>4, AddressAssumption, GeometryAssumption
    DEF ObjectOK, Index, AddressAssumption, GeometryAssumption
  <2> QED
    BY <1>1, <1>2, <1>4, <2>1 DEF Low, High
<1> QED
  BY <1>2, <1>3, <1>4

\* No address is in two objects.
LEMMA ObjectsApart ==
  ASSUME NEW m, MemOK(m), NEW b \in DOMAIN m.obj, NEW d \in DOMAIN m.obj, NEW x \in Nat,
         b <= x, x < b + m.obj[b].map, d <= x, x < d + m.obj[d].map
  PROVE  b = d
<1>1. b \in Nat /\ d \in Nat /\ m.obj[b].map \in Nat /\ m.obj[d].map \in Nat
  BY DEF MemOK, Objects
<1>2. ~ (b < d) /\ ~ (d < b)
  <2>1. b < d => b + m.obj[b].map <= d
    BY DEF MemOK
  <2>2. d < b => d + m.obj[d].map <= b
    BY DEF MemOK
  <2> QED
    BY <1>1, <2>1, <2>2
<1> QED
  BY <1>1, <1>2

\* No address is in two parts.
LEMMA PartsApart ==
  ASSUME NEW m, MemOK(m), NEW b \in DOMAIN m.obj, NEW d \in DOMAIN m.obj, NEW x \in Nat,
         NEW i \in Index(m, b), NEW j \in Index(m, d),
         Low(m, b, i) <= x, x < High(m, b, i), Low(m, d, j) <= x, x < High(m, d, j)
  PROVE  b = d /\ i = j
<1>1. /\ b \in Nat /\ i \in Nat /\ m.obj[b].map \in Nat /\ Low(m, b, i) \in Nat
      /\ High(m, b, i) \in Nat /\ b <= Low(m, b, i) /\ High(m, b, i) <= b + m.obj[b].map
  BY PartBounds
<1>2. /\ d \in Nat /\ j \in Nat /\ m.obj[d].map \in Nat /\ Low(m, d, j) \in Nat
      /\ High(m, d, j) \in Nat /\ d <= Low(m, d, j) /\ High(m, d, j) <= d + m.obj[d].map
  BY PartBounds
<1>3. b <= x /\ x < b + m.obj[b].map /\ d <= x /\ x < d + m.obj[d].map
  BY <1>1, <1>2
<1>4. b = d
  BY <1>3, ObjectsApart
<1>5. CASE m.obj[b].kind = "run"
  <2> DEFINE c == m.obj[b].cls
             off == b + data_offset_padded(Elems(c))
             e == Elem(c)
  <2>1. c \in Classes /\ i \in Idx(c) /\ j \in Idx(c)
    BY <1>4, <1>5 DEF MemOK, ObjectOK, Index
  <2>2. e \in Nat \ {0} /\ off \in Nat /\ i * e \in Nat /\ j * e \in Nat
    <3>1. Elem(c) \in Nat \ {0} /\ data_offset_padded(Elems(c)) \in Nat
      BY <2>1, RunShape
    <3>2. i * Elem(c) \in Nat /\ j * Elem(c) \in Nat
      BY <2>1, RunShape
    <3> QED
      BY <1>1, <3>1, <3>2
  <2>3. off + i * e <= x /\ x < off + i * e + e /\ off + j * e <= x /\ x < off + j * e + e
    <3>1. /\ Low(m, b, i) = b + (data_offset_padded(Elems(c)) + i * e)
          /\ High(m, b, i) = b + (data_offset_padded(Elems(c)) + i * e) + e
          /\ Low(m, d, j) = b + (data_offset_padded(Elems(c)) + j * e)
          /\ High(m, d, j) = b + (data_offset_padded(Elems(c)) + j * e) + e
      BY <1>4, <1>5 DEF Low, High, block_addr, block_offset
    <3>2. data_offset_padded(Elems(c)) \in Nat
      BY <2>1, RunShape
    <3> HIDE DEF e, c
    <3> DEFINE p == i * e
               q == j * e
    <3>3. p \in Nat /\ q \in Nat
      BY <2>2
    <3>4. /\ Low(m, b, i) = b + (data_offset_padded(Elems(c)) + p)
          /\ High(m, b, i) = b + (data_offset_padded(Elems(c)) + p) + e
          /\ Low(m, d, j) = b + (data_offset_padded(Elems(c)) + q)
          /\ High(m, d, j) = b + (data_offset_padded(Elems(c)) + q) + e
      BY <3>1
    <3> HIDE DEF p, q
    <3>5. off + p <= x /\ x < off + p + e /\ off + q <= x /\ x < off + q + e
      BY <1>1, <2>2, <3>2, <3>3, <3>4
    <3> QED
      BY <3>5 DEF p, q
  <2> HIDE DEF off, e, c
  <2>4. i * e < j * e + e /\ j * e < i * e + e
    BY <2>2, <2>3
  <2>5. i * e < (j + 1) * e /\ j * e < (i + 1) * e
    BY <1>1, <1>2, <2>2, <2>4
  <2>6. i < j + 1 /\ j < i + 1
    BY <1>1, <1>2, <2>2, <2>5, MulLess
  <2> QED
    BY <1>1, <1>2, <1>4, <2>6
<1>6. CASE m.obj[b].kind # "run"
  BY <1>4, <1>6 DEF Index
<1> QED
  BY <1>5, <1>6
-----------------------------------------------------------------------------
(* Pointers and their homes from one memory to the next.                   *)

\* The object at b has the same shape in both memories.
SameShape(m, m2, b) ==
  /\ b \in DOMAIN m2.obj
  /\ m2.obj[b].kind = m.obj[b].kind /\ m2.obj[b].cls = m.obj[b].cls
  /\ m2.obj[b].map = m.obj[b].map

LEMMA SameHome ==
  ASSUME NEW m, NEW m2, NEW b, SameShape(m, m2, b)
  PROVE  \A i : Low(m2, b, i) = Low(m, b, i) /\ High(m2, b, i) = High(m, b, i)
  BY DEF SameShape, Low, High

\* Pointers whose homes are still there, and still given, keep them.
LEMMA LiveKeeps ==
  ASSUME NEW m, NEW m2, MemOK(m2), NEW L, NEW L2 \in SUBSET L, LiveOK(m, L),
         \A k \in L2 : \A b \in DOMAIN m.obj : \A i \in Parts(m, b) :
           Home(m, k, b, i) => SameShape(m, m2, b) /\ i \in Parts(m2, b)
  PROVE  LiveOK(m2, L2)
<1>1. ASSUME NEW k \in L2
      PROVE  \E b \in DOMAIN m.obj : \E i \in Parts(m, b) :
               /\ Home(m, k, b, i) /\ b \in DOMAIN m2.obj /\ i \in Parts(m2, b)
               /\ Home(m2, k, b, i)
  <2>1. PICK b \in DOMAIN m.obj : \E i \in Parts(m, b) : Home(m, k, b, i)
    BY DEF LiveOK
  <2>2. PICK i \in Parts(m, b) : Home(m, k, b, i)
    BY <2>1
  <2>3. SameShape(m, m2, b) /\ i \in Parts(m2, b)
    BY <2>2
  <2>4. Home(m2, k, b, i)
    BY <2>2, <2>3, SameHome DEF Home
  <2> QED
    BY <2>2, <2>3, <2>4 DEF SameShape
<1>2. ASSUME NEW b \in DOMAIN m2.obj, NEW i \in Parts(m2, b), NEW k \in L2, Home(m2, k, b, i)
      PROVE  b \in DOMAIN m.obj /\ i \in Parts(m, b) /\ Home(m, k, b, i)
  <2>1. PICK d \in DOMAIN m.obj : \E j \in Parts(m, d) :
               /\ Home(m, k, d, j) /\ d \in DOMAIN m2.obj /\ j \in Parts(m2, d)
               /\ Home(m2, k, d, j)
    BY <1>1
  <2>2. PICK j \in Parts(m, d) :
               /\ Home(m, k, d, j) /\ d \in DOMAIN m2.obj /\ j \in Parts(m2, d)
               /\ Home(m2, k, d, j)
    BY <2>1
  <2>3. k.ptr \in Nat
    BY DEF LiveOK
  <2>4. i \in Index(m2, b) /\ j \in Index(m2, d)
    BY <2>2, PartsIndex
  <2>5. b = d /\ i = j
    BY <1>2, <2>2, <2>3, <2>4, PartsApart DEF Home
  <2> QED
    BY <2>2, <2>5
<1>3. ASSUME NEW b \in DOMAIN m2.obj, NEW i \in Parts(m2, b), NEW l \in L2, NEW k \in L2,
             Home(m2, l, b, i), Home(m2, k, b, i)
      PROVE  l = k
  <2>1. b \in DOMAIN m.obj /\ i \in Parts(m, b) /\ Home(m, l, b, i) /\ Home(m, k, b, i)
    BY <1>2, <1>3
  <2> QED
    BY <2>1 DEF LiveOK
<1>4. \A k \in L2 : k.ptr \in Nat /\ k.size \in Nat
  BY DEF LiveOK
<1> QED
  BY <1>1, <1>3, <1>4 DEF LiveOK

\* Memory m2 has every object of m, and gives what m gives.
Keeps(m, m2) ==
  \A b \in DOMAIN m.obj : SameShape(m, m2, b) /\ Parts(m, b) \subseteq Parts(m2, b)

\* Part i of the object at b has been given since m.
NewPart(m, m2, b, i) ==
  b \in DOMAIN m2.obj /\ i \in Parts(m2, b) /\ ~ (b \in DOMAIN m.obj /\ i \in Parts(m, b))

\* A new part is nobody's home.
LEMMA NewHome ==
  ASSUME NEW m, NEW m2, MemOK(m2), NEW L, LiveOK(m, L), Keeps(m, m2),
         NEW b, NEW i, NewPart(m, m2, b, i), NEW k \in L
  PROVE  ~ Home(m2, k, b, i)
<1>1. PICK d \in DOMAIN m.obj : \E j \in Parts(m, d) : Home(m, k, d, j)
  BY DEF LiveOK
<1>2. PICK j \in Parts(m, d) : Home(m, k, d, j)
  BY <1>1
<1>3. SameShape(m, m2, d) /\ j \in Parts(m2, d)
  BY DEF Keeps
<1>4. d \in DOMAIN m2.obj /\ j \in Parts(m2, d) /\ Home(m2, k, d, j)
  BY <1>2, <1>3, SameHome DEF SameShape, Home
<1>5. b \in DOMAIN m2.obj /\ i \in Parts(m2, b)
  BY DEF NewPart
<1>6. k.ptr \in Nat /\ i \in Index(m2, b) /\ j \in Index(m2, d)
  BY <1>4, <1>5, PartsIndex DEF LiveOK
<1>7. Home(m2, k, b, i) => b = d /\ i = j
  BY <1>4, <1>5, <1>6, PartsApart DEF Home
<1> QED
  BY <1>7 DEF NewPart

\* A new pointer with a home nobody has.
LEMMA LiveGrows ==
  ASSUME NEW m, NEW m2, MemOK(m2), NEW L, LiveOK(m, L), Keeps(m, m2),
         NEW l, l.ptr \in Nat, l.size \in Nat, NEW b, NEW i, NewPart(m, m2, b, i), Home(m2, l, b, i)
  PROVE  LiveOK(m2, L \cup {l})
<1>1. LiveOK(m2, L)
  BY LiveKeeps DEF Keeps
<1>2. b \in DOMAIN m2.obj /\ i \in Parts(m2, b)
  BY DEF NewPart
<1>3. \A k \in L : ~ Home(m2, k, b, i)
  BY NewHome
<1>4. ASSUME NEW d \in DOMAIN m2.obj, NEW j \in Parts(m2, d), NEW k \in L \cup {l}, Home(m2, k, d, j),
             Home(m2, l, d, j)
      PROVE  k = l
  <2>1. i \in Index(m2, b) /\ j \in Index(m2, d)
    BY <1>2, PartsIndex
  <2>2. b = d /\ i = j
    BY <1>2, <1>4, <2>1, PartsApart DEF Home
  <2> QED
    BY <1>3, <1>4, <2>2
<1>5. \A d \in DOMAIN m2.obj : \A j \in Parts(m2, d) : \A h, k \in L \cup {l} :
        Home(m2, h, d, j) /\ Home(m2, k, d, j) => h = k
  BY <1>1, <1>4 DEF LiveOK
<1>6. \A k \in L \cup {l} : /\ k.ptr \in Nat /\ k.size \in Nat
                            /\ \E d \in DOMAIN m2.obj : \E j \in Parts(m2, d) : Home(m2, k, d, j)
  BY <1>1, <1>2 DEF LiveOK
<1> QED
  BY <1>5, <1>6 DEF LiveOK
-----------------------------------------------------------------------------
(* Mapping.                                                                *)

\* An object that is about to be placed, and its alignment.
Newborn(o, al) ==
  /\ o \in Objects
  /\ al \in Nat \ {0}
  /\ o.kind = "run" => /\ al = kRunSize /\ o.cls \in Classes /\ o.map = run_map(o.cls)
                       /\ o.free \subseteq Idx(o.cls)
  /\ o.kind = "large" => al = PageSize /\ o.user >= 1 /\ LargeHdr + o.user <= o.map

\* Where reserve_map, or the kernel, puts it: inside the reserve, in a free place.
LEMMA FreePlace ==
  ASSUME NEW m, MemOK(m), NEW o, NEW al, Newborn(o, al), m.bump + o.map + al < WordMod,
         NEW b, b # Null, b \in IF Reserved THEN reserve_map(m, o.map, al) ELSE mmap(m, o.map)
  PROVE  /\ b \in Nat
         /\ ObjectOK(b, o)
         /\ \A d \in DOMAIN m.obj : d + m.obj[d].map <= b \/ b + o.map <= d
         /\ Reserved => /\ b + o.map <= reserve_bump(m.bump, o.map, al)
                        /\ m.bump <= reserve_bump(m.bump, o.map, al)
<1> USE DEF Newborn
<1>1. /\ ResStart \in Nat /\ ResEnd \in Nat /\ WordMod \in Nat /\ ResEnd < WordMod
      /\ PageSize \in Nat \ {0} /\ kRunSize \in Nat \ {0} /\ ResStart % PageSize = 0
  BY AddressAssumption, GeometryAssumption DEF AddressAssumption, GeometryAssumption
<1>2. /\ o.map \in Nat \ {0} /\ o.kind \in {"run", "large"} /\ m.bump \in Nat /\ ResStart <= m.bump
      /\ \A d \in DOMAIN m.obj : d \in Nat /\ m.obj[d].map \in Nat \ {0}
  BY DEF Objects, MemOK
<1>3. CASE Reserved
  <2>1. /\ AlignUp(m.bump, al) \in Nat /\ m.bump <= AlignUp(m.bump, al)
        /\ AlignUp(m.bump, al) <= m.bump + al - 1 /\ AlignUp(m.bump, al) % al = 0
    <3>1. m.bump + al < WordMod
      BY <1>1, <1>2
    <3> QED
      BY <1>2, <3>1, AlignUpBounds
  <2>2. b = AlignUp(m.bump, al) /\ ~ ((b + o.map) % WordMod > ResEnd)
    BY <1>3 DEF reserve_map
  <2>3. (b + o.map) % WordMod = b + o.map
    <3>1. b + o.map \in Nat /\ b + o.map < WordMod
      BY <1>1, <1>2, <2>1, <2>2
    <3> QED
      BY <1>1, <3>1, NoMod
  <2>4. b \in Nat /\ ResStart <= b /\ b + o.map <= ResEnd /\ b % al = 0
    BY <1>1, <1>2, <2>1, <2>2, <2>3
  <2>5. reserve_bump(m.bump, o.map, al) = m.bump + o.map + al
    <3>1. m.bump + o.map + al \in Nat
      BY <1>2
    <3> QED
      BY <1>1, <3>1, NoMod DEF reserve_bump
  <2>6. \A d \in DOMAIN m.obj : d + m.obj[d].map <= b
    BY <1>2, <1>3, <2>1, <2>2 DEF MemOK
  <2>7. ObjectOK(b, o)
    BY <2>4 DEF ObjectOK
  <2>8. b + o.map <= m.bump + o.map + al /\ m.bump <= m.bump + o.map + al
    BY <1>2, <2>1, <2>2
  <2> QED
    BY <2>4, <2>5, <2>6, <2>7, <2>8
<1>4. CASE ~ Reserved
  <2>1. /\ b \in ResStart .. ResEnd - o.map /\ b % PageSize = 0
        /\ \A a \in b .. b + o.map - 1 : ~ Readable(m, a)
    BY <1>4 DEF mmap
  <2>2. b \in Nat /\ ResStart <= b /\ b + o.map <= ResEnd
    BY <1>1, <1>2, <2>1
  <2>3. ObjectOK(b, o)
    BY <1>4, <2>1, <2>2 DEF ObjectOK
  <2>4. ASSUME NEW d \in DOMAIN m.obj PROVE d + m.obj[d].map <= b \/ b + o.map <= d
    <3>1. d \in Nat /\ m.obj[d].map \in Nat \ {0}
      BY <1>2
    <3>2. \A a \in b .. b + o.map - 1 : ~ (a \in d .. d + m.obj[d].map - 1)
      BY <2>1 DEF Readable, Extent
    <3>3. b \in b .. b + o.map - 1
      BY <1>2, <2>2
    <3>4. b < d \/ d + m.obj[d].map <= b
      BY <2>2, <3>1, <3>2, <3>3
    <3>5. b < d => ~ (d \in b .. b + o.map - 1)
      BY <3>1, <3>2
    <3> QED
      BY <1>2, <2>2, <3>1, <3>4, <3>5
  <2> QED
    BY <1>4, <2>2, <2>3, <2>4
<1> QED
  BY <1>3, <1>4

\* Mapping an object changes no other, and if it fails nothing but g_res_bump.
LEMMA PlaceOK ==
  ASSUME NEW m, MemOK(m), m.bump < WordMod, NEW o, NEW al, Newborn(o, al),
         m.bump + o.map + al < WordMod, NEW x \in Place(m, o, al)
  PROVE  /\ MemOK(x.mem) /\ x.mem.bump < WordMod
         /\ Keeps(m, x.mem)
         /\ x.base = Null => x.mem.obj = m.obj
         /\ x.base # Null => /\ x.base \in Nat /\ x.base \in DOMAIN x.mem.obj
                             /\ x.base \notin DOMAIN m.obj
                             /\ x.mem.obj[x.base] = o
<1> DEFINE bump == IF Reserved THEN reserve_bump(m.bump, o.map, al) ELSE m.bump
           New(b) == b .. b + o.map - 1
           kept(b) == {y \in DOMAIN m.obj : Extent(m, y) \cap New(b) = {}}
           obj(b) == IF b = Null THEN m.obj
                     ELSE [y \in kept(b) \cup {b} |-> IF y = b THEN o ELSE m.obj[y]]
<1>1. PICK b \in IF Reserved THEN reserve_map(m, o.map, al) ELSE mmap(m, o.map) :
        x = [base |-> b, mem |-> [bump |-> bump, obj |-> obj(b)]]
  BY DEF Place
<1>2. x.base = b /\ x.mem = [bump |-> bump, obj |-> obj(b)] /\ x.mem.bump = bump /\ x.mem.obj = obj(b)
  BY <1>1
<1>3. bump \in Nat /\ bump < WordMod
  <2>1. m.bump \in Nat /\ WordMod \in Nat /\ o.map \in Nat /\ al \in Nat
    BY AddressAssumption DEF MemOK, AddressAssumption, Newborn, Objects
  <2>2. m.bump + o.map + al \in Nat /\ (m.bump + o.map + al) % WordMod = m.bump + o.map + al
    BY <2>1, NoMod
  <2> QED
    BY <2>1, <2>2 DEF reserve_bump
<1>m. m.bump <= bump
  <2>1. m.bump \in Nat /\ WordMod \in Nat /\ o.map \in Nat /\ al \in Nat
    BY AddressAssumption DEF MemOK, AddressAssumption, Newborn, Objects
  <2>2. m.bump + o.map + al \in Nat /\ (m.bump + o.map + al) % WordMod = m.bump + o.map + al
    BY <2>1, NoMod
  <2> QED
    BY <2>1, <2>2 DEF reserve_bump
<1>r. ResStart \in Nat
  BY AddressAssumption DEF AddressAssumption
<1>4. CASE b = Null
  <2>1. x.mem.obj = m.obj
    BY <1>2, <1>4
  <2>2. \A d \in DOMAIN m.obj : d \in Nat /\ m.obj[d].map \in Nat
    BY DEF MemOK, Objects
  <2>3. MemOK(x.mem)
    <3>1. x.mem \in [bump : Nat, obj : {x.mem.obj}]
      BY <1>2, <1>3
    <3>2. ResStart <= x.mem.bump
      BY <1>2, <1>3, <1>m, <1>r DEF MemOK
    <3>3. Reserved => \A d \in DOMAIN m.obj : d + m.obj[d].map <= x.mem.bump
      BY <1>2, <1>3, <1>m, <2>2 DEF MemOK
    <3> QED
      BY <2>1, <3>1, <3>2, <3>3 DEF MemOK
  <2>4. Keeps(m, x.mem)
    BY <2>1 DEF Keeps, SameShape, Parts
  <2> QED
    BY <1>2, <1>3, <1>4, <2>1, <2>3, <2>4
<1>5. CASE b # Null
  <2>1. /\ b \in Nat /\ ObjectOK(b, o)
        /\ \A d \in DOMAIN m.obj : d + m.obj[d].map <= b \/ b + o.map <= d
        /\ Reserved => b + o.map <= bump
    BY <1>5, FreePlace
  <2>2. /\ o.map \in Nat \ {0} /\ o \in Objects
        /\ \A d \in DOMAIN m.obj : d \in Nat /\ m.obj[d].map \in Nat \ {0} /\ m.obj[d] \in Objects
    BY DEF MemOK, Newborn, Objects
  <2>3. kept(b) = DOMAIN m.obj
    <3> SUFFICES ASSUME NEW d \in DOMAIN m.obj PROVE Extent(m, d) \cap New(b) = {}
      OBVIOUS
    <3>1. d + m.obj[d].map <= b \/ b + o.map <= d
      BY <2>1
    <3>2. d \in Nat /\ m.obj[d].map \in Nat /\ b \in Nat /\ o.map \in Nat
      BY <2>1, <2>2
    <3> QED
      BY <3>1, <3>2 DEF Extent
  <2>4. b \notin DOMAIN m.obj
    <3>1. ASSUME b \in DOMAIN m.obj PROVE FALSE
      <4>1. b + m.obj[b].map <= b \/ b + o.map <= b
        BY <2>1, <3>1
      <4> QED
        BY <2>1, <2>2, <3>1, <4>1
    <3> QED
      BY <3>1
  <2>5. /\ DOMAIN x.mem.obj = DOMAIN m.obj \cup {b}
        /\ x.mem.obj[b] = o
        /\ \A d \in DOMAIN m.obj : x.mem.obj[d] = m.obj[d]
        /\ x.mem.obj \in [DOMAIN x.mem.obj -> Objects]
    <3>1. x.mem.obj = [y \in DOMAIN m.obj \cup {b} |-> IF y = b THEN o ELSE m.obj[y]]
      BY <1>2, <1>5, <2>3
    <3> QED
      BY <2>2, <2>4, <3>1
  <2>6. MemOK(x.mem)
    <3>1. x.mem \in [bump : Nat, obj : {x.mem.obj}]
      BY <1>2, <1>3
    <3>2. ResStart <= x.mem.bump
      BY <1>2, <1>3, <1>m, <1>r DEF MemOK
    <3>3. Reserved => \A d \in DOMAIN x.mem.obj : d + x.mem.obj[d].map <= x.mem.bump
      <4>1. ASSUME Reserved, NEW d \in DOMAIN m.obj PROVE d + m.obj[d].map <= bump
        <5>1. d + m.obj[d].map <= m.bump /\ m.bump \in Nat
          BY <4>1 DEF MemOK
        <5> QED
          BY <1>3, <1>m, <2>2, <5>1
      <4> QED
        BY <1>2, <2>1, <2>5, <4>1
    <3>4. \A d \in DOMAIN x.mem.obj : ObjectOK(d, x.mem.obj[d])
      BY <2>1, <2>5 DEF MemOK
    <3>5. ASSUME NEW d \in DOMAIN x.mem.obj, NEW e \in DOMAIN x.mem.obj, d < e
          PROVE  d + x.mem.obj[d].map <= e
      <4>1. CASE d = b
        <5>1. e \in DOMAIN m.obj /\ e \in Nat
          BY <2>1, <2>2, <2>5, <3>5, <4>1
        <5>2. e + m.obj[e].map <= b \/ b + o.map <= e
          BY <2>1, <5>1
        <5> QED
          BY <2>1, <2>2, <2>5, <3>5, <4>1, <5>1, <5>2
      <4>2. CASE e = b /\ d # b
        <5>1. d \in DOMAIN m.obj /\ d \in Nat
          BY <2>2, <2>5, <4>2
        <5>2. d + m.obj[d].map <= b \/ b + o.map <= d
          BY <2>1, <5>1
        <5> QED
          BY <2>1, <2>2, <2>5, <3>5, <4>2, <5>1, <5>2
      <4>3. CASE d # b /\ e # b
        BY <2>5, <3>5, <4>3 DEF MemOK
      <4> QED
        BY <4>1, <4>2, <4>3
    <3>6. DOMAIN x.mem.obj \subseteq Nat
      BY <2>1, <2>2, <2>5
    <3> QED
      BY <2>5, <3>1, <3>2, <3>3, <3>4, <3>5, <3>6 DEF MemOK
  <2>7. Keeps(m, x.mem)
    BY <2>5 DEF Keeps, SameShape, Parts
  <2> QED
    BY <1>2, <1>3, <1>5, <2>1, <2>4, <2>5, <2>6, <2>7
<1> QED
  BY <1>4, <1>5
-----------------------------------------------------------------------------
(* malloc                                                                  *)

\* What a successful malloc of n returns: the beginning of a part that is new.
Fits(m, m2, p, n) ==
  \E b, i : /\ NewPart(m, m2, b, i)
            /\ p = Low(m2, b, i) /\ p + n <= High(m2, b, i)

LEMMA Least == ASSUME NEW S \in SUBSET Nat, S # {} PROVE \E i \in S : \A j \in S : i <= j
<1> DEFINE R == OpToRel(<, Nat)
<1>1. PICK i \in S : \A j \in S : ~ (<<j, i>> \in R)
  <2>1. IsWellFoundedOn(R, Nat)
    BY NatLessThanWellFounded
  <2> HIDE DEF R
  <2> QED
    BY <2>1, WFMin
<1>2. \A j \in S : ~ (j < i)
  BY <1>1 DEF OpToRel
<1> QED
  BY <1>2

LEMMA Greatest ==
  ASSUME NEW S \in SUBSET Nat, S # {}, NEW u \in Nat, \A i \in S : i <= u
  PROVE  \E i \in S : \A j \in S : j <= i
<1> DEFINE T == {u - i : i \in S}
<1>1. T \in SUBSET Nat /\ T # {}
  <2>1. \A i \in S : i \in Nat /\ i <= u
    OBVIOUS
  <2>2. \A i \in S : u - i \in Nat
    BY <2>1
  <2> QED
    BY <2>2
<1>2. PICK d \in T : \A e \in T : d <= e
  BY <1>1, Least
<1>3. PICK i \in S : d = u - i
  BY <1>2
<1>4. ASSUME NEW j \in S PROVE j <= i
  <2>1. u - i <= u - j
    BY <1>2, <1>3
  <2> QED
    BY <2>1
<1> QED
  BY <1>4

\* The first free block of a run is taken.
LEMMA takeOK ==
  ASSUME NEW m, MemOK(m), NEW b \in DOMAIN m.obj, m.obj[b].kind = "run", m.obj[b].free # {},
         NEW n \in Nat, n <= Elem(m.obj[b].cls)
  PROVE  LET x == take(m, b) IN
           /\ MemOK(x.mem) /\ x.mem.bump = m.bump /\ x.ptr \in Nat
           /\ Keeps(m, x.mem) /\ Fits(m, x.mem, x.ptr, n)
<1> DEFINE o == m.obj[b]
           i == CHOOSE j \in o.free : \A k \in o.free : j <= k
           x == take(m, b)
           o2 == [o EXCEPT !.free = @ \ {i}]
<1>1. o \in Objects /\ ObjectOK(b, o) /\ b \in Nat
  BY DEF MemOK
<1>2. i \in o.free
  <2>1. o.free \in SUBSET Nat
    BY <1>1 DEF Objects
  <2> QED
    BY <2>1, Least
<1>3. o.cls \in Classes /\ o.free \subseteq Idx(o.cls)
  BY <1>1 DEF ObjectOK
<1>4. o2 \in Objects /\ o2.kind = "run" /\ o2.cls = o.cls /\ o2.map = o.map /\ o2.free = o.free \ {i}
  BY <1>1 DEF Objects
<1>5. x.ptr = block_addr(b, o.cls, i) /\ x.mem = [m EXCEPT !.obj[b] = o2]
  BY DEF take
<1> HIDE DEF i, o2, x
<1>6. x.mem = [bump |-> m.bump, obj |-> [m.obj EXCEPT ![b] = o2]]
  BY <1>5 DEF MemOK
<1>7. /\ x.mem.bump = m.bump /\ DOMAIN x.mem.obj = DOMAIN m.obj
      /\ x.mem.obj[b] = o2 /\ \A d \in DOMAIN m.obj \ {b} : x.mem.obj[d] = m.obj[d]
      /\ x.mem.obj \in [DOMAIN x.mem.obj -> Objects]
  BY <1>4, <1>6 DEF MemOK
<1>8. \A d \in DOMAIN m.obj : x.mem.obj[d].map = m.obj[d].map
  BY <1>4, <1>7
<1>9. ObjectOK(b, o2)
  BY <1>1, <1>4 DEF ObjectOK
<1>10. MemOK(x.mem)
  <2>1. x.mem \in [bump : Nat, obj : {x.mem.obj}]
    BY <1>6 DEF MemOK
  <2> QED
    BY <1>7, <1>8, <1>9, <2>1 DEF MemOK
<1>11. Keeps(m, x.mem)
  BY <1>4, <1>7 DEF Keeps, SameShape, Parts
<1>12. NewPart(m, x.mem, b, i)
  BY <1>2, <1>3, <1>4, <1>7 DEF NewPart, Parts
<1>13. x.ptr = Low(x.mem, b, i) /\ High(x.mem, b, i) = x.ptr + Elem(o.cls)
  BY <1>4, <1>5, <1>7 DEF Low, High
<1>14. x.ptr \in Nat
  <2>1. i \in Index(x.mem, b)
    BY <1>12, PartsIndex DEF NewPart
  <2> QED
    BY <1>7, <1>10, <1>13, <2>1, PartBounds
<1>15. Fits(m, x.mem, x.ptr, n)
  <2>1. x.ptr + n <= High(x.mem, b, i)
    BY <1>3, <1>13, <1>14, RunShape
  <2> QED
    BY <1>12, <1>13, <2>1 DEF Fits
<1> QED
  BY <1>7, <1>10, <1>11, <1>14, <1>15 DEF x

LEMMA KeepsFits ==
  ASSUME NEW m, NEW m1, NEW m2, NEW p, NEW n, Keeps(m, m1), Keeps(m1, m2)
  PROVE  Keeps(m, m2) /\ (Fits(m1, m2, p, n) => Fits(m, m2, p, n))
<1>1. ASSUME NEW b \in DOMAIN m.obj PROVE SameShape(m, m2, b) /\ Parts(m, b) \subseteq Parts(m2, b)
  <2>1. b \in DOMAIN m1.obj /\ SameShape(m, m1, b) /\ Parts(m, b) \subseteq Parts(m1, b)
    BY DEF Keeps, SameShape
  <2>2. SameShape(m1, m2, b) /\ Parts(m1, b) \subseteq Parts(m2, b)
    BY <2>1 DEF Keeps
  <2> QED
    BY <2>1, <2>2 DEF SameShape
<1>2. \A b, i : NewPart(m1, m2, b, i) => NewPart(m, m2, b, i)
  BY DEF Keeps, SameShape, NewPart
<1> QED
  BY <1>1, <1>2 DEF Keeps, Fits

\* The sizes a call may pass to malloc.
MayAsk(n) == n \in Nat /\ MaxBump + LargeHdr + n + 2 * PageSize < WordMod

\* A small size has a class.
LEMMA ClassOf ==
  ASSUME NEW n \in Nat, n < kLargeMin
  PROVE  class_of(n) \in Classes /\ n <= Elem(class_of(n))
<1>1. kNumClasses \in Nat \ {0} /\ kNumClasses \in Classes
  BY AddressAssumption, GeometryAssumption DEF AddressAssumption, GeometryAssumption, kNumClasses,
     Classes
<1>2. kSizes \in Seq(Nat) /\ kSizes[kNumClasses] \in Nat /\ kSizes[kNumClasses] >= n
  BY <1>1, GeometryAssumption DEF GeometryAssumption, kNumClasses, kLargeMin
<1> DEFINE S == {c \in Classes : kSizes[c] >= n}
<1>3. S \in SUBSET Nat /\ S # {}
  BY <1>1, <1>2 DEF Classes
<1>4. PICK c \in S : \A d \in S : c <= d
  BY <1>3, Least
<1>5. c \in Classes /\ kSizes[c] >= n /\ \A d \in Classes : kSizes[d] >= n => c <= d
  BY <1>4
<1>6. class_of(n) \in Classes /\ kSizes[class_of(n)] >= n
  BY <1>5 DEF class_of
<1>7. kSizes[class_of(n)] \in Nat
  BY <1>2, <1>6 DEF Classes, kNumClasses
<1> QED
  BY <1>6, <1>7 DEF Elem

LEMMA malloc_smallOK ==
  ASSUME NoWrap, NEW m, MemOK(m), m.bump < WordMod, m.bump <= MaxBump,
         NEW n \in Nat, n < kLargeMin, NEW x \in malloc_small(m, n)
  PROVE  /\ MemOK(x.mem) /\ x.mem.bump < WordMod /\ Keeps(m, x.mem)
         /\ x.ptr = Null \/ (x.ptr \in Nat /\ Fits(m, x.mem, x.ptr, n))
<1> DEFINE c == class_of(n)
           R == NotFull(m, c)
<1>1. c \in Classes /\ n <= Elem(c)
  BY ClassOf
<1>2. CASE R # {}
  <2> DEFINE b == CHOOSE e \in R : \A d \in R : d <= e
  <2>1. x = take(m, b)
    BY <1>2 DEF malloc_small
  <2>2. b \in R
    <3>1. R \in SUBSET Nat /\ ResEnd \in Nat
      BY AddressAssumption DEF MemOK, NotFull, AddressAssumption
    <3>2. \A d \in R : d <= ResEnd
      <4> SUFFICES ASSUME NEW d \in R PROVE d <= ResEnd
        OBVIOUS
      <4>1. d \in Nat /\ m.obj[d].map \in Nat /\ d + m.obj[d].map <= ResEnd
        BY DEF NotFull, MemOK, Objects, ObjectOK
      <4> QED
        BY <3>1, <4>1
    <3> HIDE DEF R
    <3>3. \E e \in R : \A d \in R : d <= e
      BY <1>2, <3>1, <3>2, Greatest
    <3> QED
      BY <3>3
  <2>3. b \in DOMAIN m.obj /\ m.obj[b].kind = "run" /\ m.obj[b].cls = c /\ m.obj[b].free # {}
    BY <2>2 DEF NotFull
  <2> HIDE DEF b, R, c
  <2>4. /\ MemOK(x.mem) /\ x.mem.bump = m.bump /\ x.ptr \in Nat
        /\ Keeps(m, x.mem) /\ Fits(m, x.mem, x.ptr, n)
    BY <1>1, <2>1, <2>3, takeOK
  <2> QED
    BY <2>4
<1>3. CASE R = {}
  <2> DEFINE o == NewRunAt(c)
  <2>1. PICK y \in Place(m, o, kRunSize) :
          x = IF y.base = Null THEN [mem |-> y.mem, ptr |-> Null] ELSE take(y.mem, y.base)
    BY <1>3 DEF malloc_small
  <2>2. run_map(c) \in Nat \ {0} /\ kRunSize \in Nat \ {0} /\ Idx(c) \subseteq Nat /\ 0 \in Idx(c)
    <3>1. run_map(c) \in Nat \ {0} /\ Elems(c) \in Nat \ {0}
      BY <1>1, RunShape
    <3> QED
      BY <3>1, GeometryAssumption DEF GeometryAssumption, Idx
  <2>3. Newborn(o, kRunSize)
    BY <1>1, <2>2 DEF Newborn, NewRunAt, Objects, Classes
  <2>4. m.bump + o.map + kRunSize < WordMod
    <3>1. MaxBump + run_map(c) + kRunSize < WordMod
      BY <1>1 DEF NoWrap
    <3>2. o.map = run_map(c)
      BY DEF NewRunAt
    <3>3. m.bump \in Nat /\ MaxBump \in Nat /\ WordMod \in Nat
      BY AddressAssumption DEF MemOK, AddressAssumption
    <3> HIDE DEF o, c
    <3> QED
      BY <2>2, <3>1, <3>2, <3>3
  <2>5. o.kind = "run" /\ o.cls = c /\ o.free # {}
    BY <2>2 DEF NewRunAt
  <2> HIDE DEF o, c, R
  <2>6. /\ MemOK(y.mem) /\ y.mem.bump < WordMod /\ Keeps(m, y.mem)
        /\ y.base # Null => y.base \in DOMAIN y.mem.obj /\ y.mem.obj[y.base] = o
    BY <2>3, <2>4, PlaceOK
  <2>7. CASE y.base = Null
    BY <2>1, <2>6, <2>7
  <2>8. CASE y.base # Null
    <3>1. x = take(y.mem, y.base) /\ y.base \in DOMAIN y.mem.obj /\ y.mem.obj[y.base] = o
      BY <2>1, <2>6, <2>8
    <3>2. /\ MemOK(x.mem) /\ x.mem.bump = y.mem.bump /\ x.ptr \in Nat
          /\ Keeps(y.mem, x.mem) /\ Fits(y.mem, x.mem, x.ptr, n)
      BY <1>1, <2>5, <2>6, <3>1, takeOK
    <3>3. Keeps(m, x.mem) /\ Fits(m, x.mem, x.ptr, n)
      BY <2>6, <3>2, KeepsFits
    <3> QED
      BY <2>6, <3>2, <3>3
  <2> QED
    BY <2>7, <2>8
<1> QED
  BY <1>2, <1>3

LEMMA malloc_largeOK ==
  ASSUME NEW m, MemOK(m), m.bump < WordMod, m.bump <= MaxBump,
         NEW n, MayAsk(n), n >= 1, NEW x \in malloc_large(m, n)
  PROVE  /\ MemOK(x.mem) /\ x.mem.bump < WordMod /\ Keeps(m, x.mem)
         /\ x.ptr = Null \/ (x.ptr \in Nat /\ Fits(m, x.mem, x.ptr, n))
<1> DEFINE need == (LargeHdr + n) % WordMod
           map == AlignUp(need, PageSize)
           o == NewLarge(map, n)
<1>1. /\ LargeHdr \in Nat \ {0} /\ PageSize \in Nat \ {0} /\ WordMod \in Nat /\ MaxBump \in Nat
      /\ n \in Nat /\ MaxBump + LargeHdr + n + 2 * PageSize < WordMod /\ m.bump \in Nat
  <2>1. PageSize \in Nat \ {0}
    BY GeometryAssumption DEF GeometryAssumption
  <2>2. LargeHdr \in Nat \ {0} /\ WordMod \in Nat /\ MaxBump \in Nat
    BY <2>1, AddressAssumption DEF AddressAssumption
  <2>3. m.bump \in Nat
    BY DEF MemOK
  <2> QED
    BY <2>1, <2>2, <2>3 DEF MayAsk
<1>2. need = LargeHdr + n
  <2>1. LargeHdr + n \in Nat /\ LargeHdr + n < WordMod
    BY <1>1
  <2> QED
    BY <1>1, <2>1, NoMod
<1>3. map \in Nat /\ need <= map /\ map <= need + PageSize - 1
  <2>1. need \in Nat /\ need + PageSize < WordMod
    BY <1>1, <1>2
  <2> HIDE DEF need
  <2> QED
    BY <1>1, <2>1, AlignUpBounds
<1>4. PICK y \in Place(m, o, PageSize) :
        x = [mem |-> y.mem, ptr |-> IF y.base = Null THEN Null ELSE y.base + LargeHdr]
  BY DEF malloc_large
<1> HIDE DEF need, map
<1>5. o.kind = "large" /\ o.map = map /\ o.user = n /\ o.cls = 0 /\ o.free = {}
  BY DEF NewLarge
<1>6. Newborn(o, PageSize)
  <2>1. map \in Nat \ {0}
    BY <1>1, <1>2, <1>3
  <2>2. o \in Objects
    BY <1>1, <2>1 DEF NewLarge, Objects
  <2> QED
    BY <1>1, <1>2, <1>3, <1>5, <2>2 DEF Newborn
<1>7. m.bump + o.map + PageSize < WordMod
  BY <1>1, <1>2, <1>3, <1>5
<1> HIDE DEF o
<1>8. /\ MemOK(y.mem) /\ y.mem.bump < WordMod /\ Keeps(m, y.mem)
      /\ y.base # Null => /\ y.base \in Nat /\ y.base \in DOMAIN y.mem.obj
                          /\ y.base \notin DOMAIN m.obj /\ y.mem.obj[y.base] = o
  BY <1>6, <1>7, PlaceOK
<1>9. CASE y.base # Null
  <2>1. NewPart(m, y.mem, y.base, 0)
    BY <1>5, <1>8, <1>9 DEF NewPart, Parts
  <2>2. Low(y.mem, y.base, 0) = y.base + LargeHdr /\ High(y.mem, y.base, 0) = y.base + map
    BY <1>5, <1>8, <1>9 DEF Low, High
  <2>3. x.ptr = y.base + LargeHdr /\ x.mem = y.mem
    BY <1>4, <1>9
  <2>4. x.ptr \in Nat /\ x.ptr + n <= y.base + map
    BY <1>1, <1>2, <1>3, <1>8, <1>9, <2>3
  <2>5. Fits(m, y.mem, x.ptr, n)
    BY <2>1, <2>2, <2>3, <2>4 DEF Fits
  <2> QED
    BY <1>8, <2>3, <2>4, <2>5
<1> QED
  BY <1>4, <1>8, <1>9

\* Whatever malloc does, it takes no part that was given, and a pointer it returns is at
\* the beginning of a part that is large enough.
LEMMA mallocOK ==
  ASSUME NoWrap, NEW m, MemOK(m), m.bump < WordMod, m.bump <= MaxBump,
         NEW n, MayAsk(n), MayAsk(1), NEW x \in malloc(m, n)
  PROVE  /\ MemOK(x.mem) /\ x.mem.bump < WordMod /\ Keeps(m, x.mem)
         /\ x.ptr = Null \/ (x.ptr \in Nat /\ Fits(m, x.mem, x.ptr, n))
<1> DEFINE s == IF n = 0 THEN 1 ELSE n
<1>1. n \in Nat /\ s \in Nat /\ s >= 1 /\ n <= s /\ MayAsk(s)
  BY DEF MayAsk
<1>2. kLargeMin \in Nat
  BY AddressAssumption, GeometryAssumption DEF AddressAssumption, GeometryAssumption, kLargeMin,
     kNumClasses
<1>3. /\ MemOK(x.mem) /\ x.mem.bump < WordMod /\ Keeps(m, x.mem)
      /\ x.ptr = Null \/ (x.ptr \in Nat /\ Fits(m, x.mem, x.ptr, s))
  <2>1. CASE s >= kLargeMin
    BY <1>1, <2>1, malloc_largeOK DEF malloc
  <2>2. CASE ~ (s >= kLargeMin)
    BY <1>1, <1>2, <2>2, malloc_smallOK DEF malloc
  <2> QED
    BY <2>1, <2>2
<1> HIDE DEF s
<1>4. ASSUME x.ptr \in Nat, Fits(m, x.mem, x.ptr, s) PROVE Fits(m, x.mem, x.ptr, n)
  <2>1. PICK b, i : /\ NewPart(m, x.mem, b, i)
                    /\ x.ptr = Low(x.mem, b, i) /\ x.ptr + s <= High(x.mem, b, i)
    BY <1>4 DEF Fits
  <2>2. High(x.mem, b, i) \in Nat
    BY <1>3, <2>1, PartsIndex, PartBounds DEF NewPart
  <2>3. x.ptr + n <= High(x.mem, b, i)
    BY <1>1, <1>4, <2>1, <2>2
  <2> QED
    BY <2>1, <2>3 DEF Fits
<1> QED
  BY <1>3, <1>4
-----------------------------------------------------------------------------
(* free                                                                    *)

\* A pointer that free takes for a block is at the beginning of its home, and one that
\* it takes for a large object has that object for its home.
LEMMA OwnerHome ==
  ASSUME NEW m, MemOK(m), NEW L, LiveOK(m, L), NEW l \in L
  PROVE  /\ Owner(m, l.ptr) = "small" =>
              /\ run_of(l.ptr) \in DOMAIN m.obj /\ m.obj[run_of(l.ptr)].kind = "run"
              /\ block_of(m, l.ptr) \in Parts(m, run_of(l.ptr))
              /\ Home(m, l, run_of(l.ptr), block_of(m, l.ptr))
              /\ l.ptr = Low(m, run_of(l.ptr), block_of(m, l.ptr))
         /\ Owner(m, l.ptr) = "large" =>
              /\ l.ptr - LargeHdr \in DOMAIN m.obj /\ m.obj[l.ptr - LargeHdr].kind = "large"
              /\ Home(m, l, l.ptr - LargeHdr, 0)
<1> DEFINE p == l.ptr
<1>1. p \in Nat /\ l.size \in Nat
  BY DEF LiveOK
<1>2. PICK d \in DOMAIN m.obj : \E k \in Parts(m, d) : Home(m, l, d, k)
  BY DEF LiveOK
<1>3. PICK k \in Parts(m, d) : Home(m, l, d, k)
  BY <1>2
<1>4. k \in Index(m, d) /\ Low(m, d, k) <= p /\ p < High(m, d, k)
  BY <1>3, PartsIndex DEF Home
<1>5. ASSUME Owner(m, p) = "small"
      PROVE  /\ run_of(p) \in DOMAIN m.obj /\ m.obj[run_of(p)].kind = "run"
             /\ block_of(m, p) \in Parts(m, run_of(p))
             /\ Home(m, l, run_of(p), block_of(m, p))
             /\ p = Low(m, run_of(p), block_of(m, p))
  <2> DEFINE b == run_of(p)
             c == m.obj[b].cls
             e == Elem(c)
             off == p - (b + data_offset_padded(Elems(c)))
             j == block_of(m, p)
  <2>1. ours_small(m, p)
    BY <1>5 DEF Owner
  <2>2. /\ b \in DOMAIN m.obj /\ m.obj[b].kind = "run" /\ off >= 0 /\ off < data_len(c)
        /\ off % e = 0 /\ j = off \div e
    BY <2>1 DEF ours_small, block_of
  <2>3. c \in Classes /\ b \in Nat
    BY <2>2 DEF MemOK, ObjectOK
  <2>4. /\ e \in Nat \ {0} /\ Elems(c) \in Nat \ {0} /\ data_offset_padded(Elems(c)) \in Nat
        /\ data_len(c) = Elems(c) * e
    BY <2>3, RunShape
  <2>5. off \in Nat
    <3> HIDE DEF b, c
    <3> QED
      BY <1>1, <2>2, <2>3, <2>4
  <2>6. j \in Nat /\ off = j * e
    <3> HIDE DEF off, e, j
    <3>1. off = (off \div e) * e + (off % e) /\ off \div e \in Nat
      BY <2>4, <2>5, Division
    <3>2. (off \div e) * e \in Nat
      BY <2>4, <3>1
    <3> QED
      BY <2>2, <3>1, <3>2
  <2>7. j \in Idx(c)
    <3> HIDE DEF off, e, j, c
    <3>1. j * e < Elems(c) * e
      BY <2>2, <2>4, <2>6
    <3>2. j < Elems(c)
      BY <2>4, <2>6, <3>1, MulLess
    <3> QED
      BY <2>4, <2>6, <3>2 DEF Idx
  <2>8. p = Low(m, b, j) /\ High(m, b, j) = p + e
    <3>1. Low(m, b, j) = b + (data_offset_padded(Elems(c)) + j * e) /\ High(m, b, j) = Low(m, b, j) + e
      BY <2>2 DEF Low, High, block_addr, block_offset
    <3>2. off = p - (b + data_offset_padded(Elems(c)))
      OBVIOUS
    <3> HIDE DEF off, e, j, c, b
    <3>3. Low(m, b, j) = b + (data_offset_padded(Elems(c)) + off)
      BY <2>6, <3>1
    <3> QED
      BY <1>1, <2>3, <2>4, <2>5, <3>1, <3>2, <3>3
  <2> HIDE DEF off, e, j, c, b
  <2>9. j \in Index(m, b)
    BY <2>2, <2>7 DEF Index, c
  <2>10. Low(m, b, j) <= p /\ p < High(m, b, j)
    BY <1>1, <2>4, <2>8
  <2>11. b = d /\ j = k
    BY <1>1, <1>4, <2>2, <2>9, <2>10, PartsApart
  <2> QED
    BY <1>3, <2>2, <2>8, <2>11 DEF b, j
<1>6. ASSUME Owner(m, p) = "large"
      PROVE  /\ p - LargeHdr \in DOMAIN m.obj /\ m.obj[p - LargeHdr].kind = "large"
             /\ Home(m, l, p - LargeHdr, 0)
  <2> DEFINE b == p - LargeHdr
  <2>1. b \in DOMAIN m.obj /\ m.obj[b].kind = "large"
    BY <1>6 DEF Owner, ours_large
  <2>2. 0 \in Index(m, b) /\ Low(m, b, 0) = b + LargeHdr
    BY <2>1 DEF Index, Low
  <2>3. b \in Nat /\ Low(m, b, 0) < High(m, b, 0) /\ LargeHdr \in Nat
    <3>1. LargeHdr \in Nat
      BY AddressAssumption, GeometryAssumption DEF AddressAssumption, GeometryAssumption
    <3> QED
      BY <2>1, <2>2, <3>1, PartBounds
  <2>4. Low(m, b, 0) = p
    BY <1>1, <2>2, <2>3
  <2> HIDE DEF b
  <2>5. b = d /\ 0 = k
    BY <1>1, <1>4, <2>1, <2>2, <2>3, <2>4, PartsApart
  <2> QED
    BY <1>3, <2>1, <2>5 DEF b
<1> QED
  BY <1>5, <1>6

\* A pointer of the libc is neither.
LEMMA ForeignOwner ==
  ASSUME NEW m, NEW p \in Foreign
  PROVE  Owner(m, p) \notin {"small", "large"} /\ free(m, p) = m
<1>1. p \in Nat /\ p \notin ResStart .. ResEnd - 1 /\ ResStart \in Nat /\ ResEnd \in Nat
  BY AddressAssumption DEF AddressAssumption
<1>2. ~ in_reserve(p)
  BY <1>1 DEF in_reserve
<1>3. Owner(m, p) \notin {"small", "large"}
  BY <1>2 DEF Owner
<1> QED
  BY <1>3 DEF free

\* free gives back the home of its pointer and no other.
LEMMA freeOK ==
  ASSUME NEW m, MemOK(m), NEW L, LiveOK(m, L), NEW l \in L
  PROVE  /\ MemOK(free(m, l.ptr)) /\ free(m, l.ptr).bump = m.bump
         /\ LiveOK(free(m, l.ptr), L \ {l})
<1> DEFINE p == l.ptr
           m2 == free(m, p)
           L2 == L \ {l}
<1>0. L2 \in SUBSET L
  OBVIOUS
<1>1. CASE Owner(m, p) = "small"
  <2> DEFINE b == run_of(p)
             j == block_of(m, p)
             o == m.obj[b]
             o2 == [o EXCEPT !.free = @ \cup {j}]
  <2>1. b \in DOMAIN m.obj /\ o.kind = "run" /\ j \in Parts(m, b) /\ Home(m, l, b, j)
    BY <1>1, OwnerHome
  <2>2. o \in Objects /\ ObjectOK(b, o) /\ j \in Idx(o.cls) /\ j \in Nat
    <3>1. o \in Objects /\ ObjectOK(b, o) /\ j \in Idx(o.cls)
      BY <2>1 DEF MemOK, Parts
    <3>2. o.cls \in Classes
      BY <2>1, <3>1 DEF ObjectOK
    <3> QED
      BY <3>1, <3>2, RunShape
  <2>3. o2 \in Objects /\ o2.kind = "run" /\ o2.cls = o.cls /\ o2.map = o.map /\ o2.free = o.free \cup {j}
    BY <2>1, <2>2 DEF Objects
  <2>4. m2 = [m EXCEPT !.obj[b] = o2]
    BY <1>1 DEF free
  <2> HIDE DEF b, j, o2, m2
  <2>5. m2 = [bump |-> m.bump, obj |-> [m.obj EXCEPT ![b] = o2]]
    BY <2>4 DEF MemOK
  <2>6. /\ m2.bump = m.bump /\ DOMAIN m2.obj = DOMAIN m.obj
        /\ m2.obj[b] = o2 /\ \A d \in DOMAIN m.obj \ {b} : m2.obj[d] = m.obj[d]
        /\ m2.obj \in [DOMAIN m2.obj -> Objects]
    BY <2>1, <2>3, <2>5 DEF MemOK
  <2>7. \A d \in DOMAIN m.obj : m2.obj[d].map = m.obj[d].map
    BY <2>3, <2>6
  <2>8. ObjectOK(b, o2)
    BY <2>1, <2>2, <2>3 DEF ObjectOK
  <2>9. MemOK(m2)
    <3>1. m2 \in [bump : Nat, obj : {m2.obj}]
      BY <2>5 DEF MemOK
    <3> QED
      BY <2>6, <2>7, <2>8, <3>1 DEF MemOK
  <2>10. ASSUME NEW k \in L2, NEW d \in DOMAIN m.obj, NEW i \in Parts(m, d), Home(m, k, d, i)
         PROVE  SameShape(m, m2, d) /\ i \in Parts(m2, d)
    <3>1. SameShape(m, m2, d)
      BY <2>1, <2>3, <2>6 DEF SameShape
    <3>2. ~ (d = b /\ i = j)
      BY <2>1, <2>10 DEF LiveOK
    <3> QED
      BY <2>1, <2>3, <2>6, <3>1, <3>2 DEF Parts
  <2>11. LiveOK(m2, L2)
    BY <1>0, <2>9, <2>10, LiveKeeps
  <2> QED
    BY <2>6, <2>9, <2>11 DEF m2
<1>2. CASE Owner(m, p) = "large"
  <2> DEFINE b == p - LargeHdr
  <2>1. b \in DOMAIN m.obj /\ m.obj[b].kind = "large" /\ Home(m, l, b, 0)
    BY <1>2, OwnerHome
  <2>2. m2 = Unmap(m, b)
    BY <1>2 DEF free
  <2> HIDE DEF b, m2
  <2>3. m2 = [bump |-> m.bump, obj |-> [x \in DOMAIN m.obj \ {b} |-> m.obj[x]]]
    BY <2>2 DEF Unmap, MemOK
  <2>4. /\ m2.bump = m.bump /\ DOMAIN m2.obj = DOMAIN m.obj \ {b}
        /\ \A d \in DOMAIN m2.obj : m2.obj[d] = m.obj[d]
        /\ m2.obj \in [DOMAIN m2.obj -> Objects]
    BY <2>3 DEF MemOK
  <2>5. MemOK(m2)
    <3>1. m2 \in [bump : Nat, obj : {m2.obj}]
      BY <2>3 DEF MemOK
    <3> QED
      BY <2>4, <3>1 DEF MemOK
  <2>6. ASSUME NEW k \in L2, NEW d \in DOMAIN m.obj, NEW i \in Parts(m, d), Home(m, k, d, i)
        PROVE  SameShape(m, m2, d) /\ i \in Parts(m2, d)
    <3>1. d # b
      <4>1. ASSUME d = b PROVE FALSE
        <5>1. i = 0
          BY <2>1, <4>1 DEF Parts
        <5> QED
          BY <2>1, <2>6, <4>1, <5>1 DEF LiveOK
      <4> QED
        BY <4>1
    <3> QED
      BY <2>4, <3>1 DEF SameShape, Parts
  <2>7. LiveOK(m2, L2)
    BY <1>0, <2>5, <2>6, LiveKeeps
  <2> QED
    BY <2>4, <2>5, <2>7 DEF m2
<1>3. CASE Owner(m, p) \notin {"small", "large"}
  <2>1. m2 = m
    BY <1>3 DEF free
  <2>2. LiveOK(m, L2)
    BY <1>0 DEF LiveOK
  <2> QED
    BY <2>1, <2>2
<1> QED
  BY <1>1, <1>2, <1>3
-----------------------------------------------------------------------------
(* The calls.                                                              *)

\* What malloc returns joins the pointers the application holds, and is none of them.
LEMMA GiveOK ==
  ASSUME NoWrap, NEW m, MemOK(m), m.bump < WordMod, m.bump <= MaxBump, NEW L, LiveOK(m, L),
         NEW n, MayAsk(n), MayAsk(1), NEW x \in malloc(m, n)
  PROVE  LiveOK(x.mem, L \cup Given(x.ptr, n)) /\ L \cap Given(x.ptr, n) = {}
<1>1. /\ MemOK(x.mem) /\ Keeps(m, x.mem)
      /\ x.ptr = Null \/ (x.ptr \in Nat /\ Fits(m, x.mem, x.ptr, n))
  BY mallocOK
<1>2. CASE x.ptr = Null
  <2>1. Given(x.ptr, n) = {}
    BY <1>2 DEF Given
  <2>2. LiveOK(x.mem, L)
    BY <1>1, LiveKeeps DEF Keeps
  <2> QED
    BY <2>1, <2>2
<1>3. CASE x.ptr # Null
  <2> DEFINE l == [ptr |-> x.ptr, size |-> n]
  <2>1. PICK b, i : /\ NewPart(m, x.mem, b, i)
                    /\ x.ptr = Low(x.mem, b, i) /\ x.ptr + n <= High(x.mem, b, i)
    BY <1>1, <1>3 DEF Fits
  <2>2. x.ptr \in Nat /\ n \in Nat
    BY <1>1, <1>3 DEF MayAsk
  <2>3. Low(x.mem, b, i) < High(x.mem, b, i)
    <3>1. b \in DOMAIN x.mem.obj /\ i \in Index(x.mem, b)
      BY <2>1, PartsIndex DEF NewPart
    <3> QED
      BY <1>1, <3>1, PartBounds
  <2>4. Home(x.mem, l, b, i)
    BY <2>1, <2>2, <2>3 DEF Home
  <2>5. l.ptr \in Nat /\ l.size \in Nat
    BY <2>2
  <2>6. Given(x.ptr, n) = {l}
    BY <1>3 DEF Given
  <2> HIDE DEF l
  <2>7. LiveOK(x.mem, L \cup {l})
    BY <1>1, <2>1, <2>4, <2>5, LiveGrows
  <2>8. l \notin L
    BY <1>1, <2>1, <2>4, NewHome
  <2> QED
    BY <2>6, <2>7, <2>8
<1> QED
  BY <1>2, <1>3

\* A pointer takes the home of another.
LEMMA LiveReplace ==
  ASSUME NEW m, MemOK(m), NEW L, LiveOK(m, L), NEW l \in L, NEW k, k.ptr \in Nat, k.size \in Nat,
         NEW b \in DOMAIN m.obj, NEW i \in Parts(m, b), Home(m, l, b, i), Home(m, k, b, i)
  PROVE  LiveOK(m, (L \ {l}) \cup {k})
<1>1. ASSUME NEW h \in L \ {l} PROVE ~ Home(m, h, b, i)
  BY DEF LiveOK
<1>2. ASSUME NEW d \in DOMAIN m.obj, NEW j \in Parts(m, d), Home(m, k, d, j) PROVE d = b /\ j = i
  <2>1. i \in Index(m, b) /\ j \in Index(m, d)
    BY PartsIndex
  <2> QED
    BY <1>2, <2>1, PartsApart DEF Home
<1>3. ASSUME NEW d \in DOMAIN m.obj, NEW j \in Parts(m, d),
             NEW g \in (L \ {l}) \cup {k}, NEW h \in (L \ {l}) \cup {k}, Home(m, g, d, j), Home(m, h, d, j)
      PROVE  g = h
  <2>1. CASE g = k \/ h = k
    BY <1>1, <1>2, <1>3, <2>1
  <2>2. CASE g # k /\ h # k
    BY <1>3, <2>2 DEF LiveOK
  <2> QED
    BY <2>1, <2>2
<1>4. \A h \in (L \ {l}) \cup {k} : /\ h.ptr \in Nat /\ h.size \in Nat
                                    /\ \E d \in DOMAIN m.obj : \E j \in Parts(m, d) : Home(m, h, d, j)
  BY DEF LiveOK
<1> QED
  BY <1>3, <1>4 DEF LiveOK

\* The sizes the calls ask for.
LEMMA RequestsAsk ==
  ASSUME NoWrap
  PROVE  /\ 1 < WordMod /\ MayAsk(1)
         /\ \A n \in Requests : MayAsk(n) /\ n \in 0 .. WordMod - 1
         /\ \A n \in Requests, a \in Aligns \cup {PtrSize} :
              /\ a \in Nat \ {0} /\ ResEnd + a < WordMod
              /\ (n + a + PageSize) % WordMod = n + a + PageSize
              /\ MayAsk(n + a + PageSize)
<1>1. PageSize \in Nat \ {0}
  BY GeometryAssumption DEF GeometryAssumption
<1>2. LargeHdr \in Nat \ {0} /\ WordMod \in Nat /\ MaxBump \in Nat /\ PtrSize \in Nat \ {0}
  BY <1>1, AddressAssumption DEF AddressAssumption
<1>3. /\ \A n \in Requests : n \in Nat /\ n \in 0 .. WordMod - 1
      /\ \A a \in Aligns \cup {PtrSize} : a \in Nat \ {0}
  BY <1>2, AddressAssumption DEF AddressAssumption
<1>4. \A n \in Requests \cup {1}, a \in Aligns \cup {PtrSize} :
        MaxBump + LargeHdr + n + a + 3 * PageSize < WordMod /\ ResEnd + a < WordMod
  BY DEF NoWrap
<1>5. \A n \in Requests \cup {1} : MayAsk(n)
  <2> SUFFICES ASSUME NEW n \in Requests \cup {1} PROVE MayAsk(n)
    OBVIOUS
  <2>1. MaxBump + LargeHdr + n + PtrSize + 3 * PageSize < WordMod /\ n \in Nat
    BY <1>3, <1>4
  <2>2. MaxBump + LargeHdr + n + 2 * PageSize < WordMod
    BY <1>1, <1>2, <2>1
  <2> QED
    BY <2>1, <2>2 DEF MayAsk
<1>6. 1 < WordMod
  BY <1>1, <1>2, <1>5 DEF MayAsk
<1>7. ASSUME NEW n \in Requests, NEW a \in Aligns \cup {PtrSize}
      PROVE  /\ (n + a + PageSize) % WordMod = n + a + PageSize
             /\ MayAsk(n + a + PageSize)
  <2>1. MaxBump + LargeHdr + n + a + 3 * PageSize < WordMod /\ n \in Nat /\ a \in Nat
    BY <1>3, <1>4
  <2>2. n + a + PageSize \in Nat /\ n + a + PageSize < WordMod
    BY <1>1, <1>2, <2>1
  <2>3. MaxBump + LargeHdr + (n + a + PageSize) + 2 * PageSize < WordMod
    BY <1>1, <1>2, <2>1
  <2> QED
    BY <1>2, <2>2, <2>3, NoMod DEF MayAsk
<1> QED
  BY <1>3, <1>4, <1>5, <1>6, <1>7

\* The pointers are records of an address and a size.
Shaped(L) == \A l \in L : l = [ptr |-> l.ptr, size |-> l.size] /\ l.size \in 0 .. WordMod - 1

\* A call of malloc in a state of the invariant.
LEMMA GrantStep ==
  ASSUME NoWrap, AddrIInv, Alive, NEW m, MemOK(m), m.bump = mem.bump, NEW L, LiveOK(m, L), Shaped(L),
         NEW n \in Requests \cup {1}, NEW x \in malloc(m, n)
  PROVE  /\ MemOK(x.mem) /\ x.mem.bump < WordMod
         /\ LiveOK(x.mem, L \cup Given(x.ptr, n)) /\ L \cap Given(x.ptr, n) = {}
         /\ Shaped(L \cup Given(x.ptr, n))
<1>1. m.bump < WordMod /\ m.bump <= MaxBump
  BY DEF AddrIInv, Alive
<1>2. MayAsk(n) /\ MayAsk(1) /\ n \in 0 .. WordMod - 1
  <2>1. 1 \in 0 .. WordMod - 1
    BY RequestsAsk, AddressAssumption DEF AddressAssumption
  <2> QED
    BY <2>1, RequestsAsk
<1>3. MemOK(x.mem) /\ x.mem.bump < WordMod
  BY <1>1, <1>2, mallocOK
<1>4. LiveOK(x.mem, L \cup Given(x.ptr, n)) /\ L \cap Given(x.ptr, n) = {}
  BY <1>1, <1>2, GiveOK
<1>5. Shaped(L \cup Given(x.ptr, n))
  BY <1>2 DEF Shaped, Given
<1> QED
  BY <1>3, <1>4, <1>5

LEMMA MallocStep ==
  ASSUME NoWrap, AddrIInv, NEW n \in Requests, Malloc(n)
  PROVE  AddrIInv'
<1>1. PICK x \in malloc(mem, n) : mem' = x.mem /\ live' = live \cup Given(x.ptr, n)
  BY DEF Malloc
<1>2. Shaped(live) /\ Alive /\ UNCHANGED <<libc, crashed>>
  BY DEF AddrIInv, Shaped, Malloc
<1>3. MemOK(mem') /\ mem'.bump < WordMod /\ LiveOK(mem', live') /\ Shaped(live')
  BY <1>1, <1>2, GrantStep DEF AddrIInv
<1> QED
  BY <1>2, <1>3 DEF AddrIInv, Shaped

\* A pointer the application may pass to free is one it was given, or of the libc.
LEMMA HeldCases ==
  ASSUME AddrIInv, NEW l \in Held
  PROVE  \/ l \in live
         \/ l \notin live /\ l.ptr \in Foreign
<1> QED
  BY DEF Held, AddrIInv

\* free, in a state of the invariant.
LEMMA GiveBack ==
  ASSUME AddrIInv, NEW l \in Held
  PROVE  LET m == free(mem, l.ptr) IN
           /\ MemOK(m) /\ m.bump = mem.bump
           /\ LiveOK(m, live \ {l}) /\ Shaped(live \ {l})
           /\ FreeOutcome(mem, l.ptr) \in {"no", "owner", "count", "libc"}
<1>1. Shaped(live \ {l})
  BY DEF AddrIInv, Shaped
<1>2. FreeOutcome(mem, l.ptr) \in {"no", "owner", "count", "libc"}
  BY DEF FreeOutcome
<1>3. CASE l \in live
  BY <1>1, <1>2, <1>3, freeOK DEF AddrIInv
<1>4. CASE l \notin live /\ l.ptr \in Foreign
  <2>1. free(mem, l.ptr) = mem /\ live \ {l} = live
    BY <1>4, ForeignOwner
  <2> QED
    BY <1>1, <1>2, <2>1 DEF AddrIInv
<1> QED
  BY <1>3, <1>4, HeldCases

LEMMA FreeStep ==
  ASSUME AddrIInv, NEW l \in Held, Free(l)
  PROVE  AddrIInv'
<1>1. /\ mem' = free(mem, l.ptr) /\ live' = live \ {l} /\ libc' = libc \ {l.ptr}
      /\ crashed' = FreeOutcome(mem, l.ptr)
  BY DEF Free
<1>2. /\ MemOK(mem') /\ mem'.bump = mem.bump /\ LiveOK(mem', live') /\ Shaped(live')
      /\ crashed' \in {"no", "owner", "count", "libc"}
  BY <1>1, GiveBack
<1> QED
  BY <1>1, <1>2 DEF AddrIInv, Shaped

LEMMA ReallocZeroStep ==
  ASSUME NoWrap, AddrIInv, NEW l \in Held, ReallocZero(l)
  PROVE  AddrIInv'
<1>1. PICK x \in malloc(free(mem, l.ptr), 1) :
        mem' = x.mem /\ live' = (live \ {l}) \cup Given(x.ptr, 1)
  BY DEF ReallocZero
<1>2. /\ Alive /\ libc' = libc \ {l.ptr} /\ crashed' = FreeOutcome(mem, l.ptr)
  BY DEF ReallocZero
<1>3. /\ MemOK(free(mem, l.ptr)) /\ free(mem, l.ptr).bump = mem.bump
      /\ LiveOK(free(mem, l.ptr), live \ {l}) /\ Shaped(live \ {l})
      /\ crashed' \in {"no", "owner", "count", "libc"}
  BY <1>2, GiveBack
<1>4. MemOK(mem') /\ mem'.bump < WordMod /\ LiveOK(mem', live') /\ Shaped(live')
  BY <1>1, <1>2, <1>3, GrantStep
<1> QED
  BY <1>2, <1>3, <1>4 DEF AddrIInv, Shaped

LEMMA ReallocMoveStep ==
  ASSUME NoWrap, AddrIInv, NEW l \in Held, NEW n \in Requests, ReallocMove(l, n)
  PROVE  AddrIInv'
<1>1. PICK x \in malloc(mem, n) :
        IF x.ptr = Null
        THEN mem' = x.mem /\ UNCHANGED <<live, crashed>>
        ELSE /\ mem' = free(x.mem, l.ptr)
             /\ live' = (live \ {l}) \cup Given(x.ptr, n)
             /\ crashed' = FreeOutcome(x.mem, l.ptr)
  BY DEF ReallocMove
<1>2. Alive /\ libc' = libc /\ Owner(mem, l.ptr) \in {"small", "large"}
  BY DEF ReallocMove
<1>3. l \in live
  BY <1>2, HeldCases, ForeignOwner
<1>4. MemOK(mem) /\ LiveOK(mem, live) /\ Shaped(live)
  BY DEF AddrIInv, Shaped
<1> DEFINE L == live \cup Given(x.ptr, n)
<1>5. MemOK(x.mem) /\ x.mem.bump < WordMod /\ LiveOK(x.mem, L) /\ live \cap Given(x.ptr, n) = {} /\ Shaped(L)
  BY <1>2, <1>4, GrantStep
<1>6. CASE x.ptr = Null
  <2>1. L = live
    BY <1>6 DEF Given
  <2> QED
    BY <1>1, <1>2, <1>5, <1>6, <2>1 DEF AddrIInv, Shaped
<1>7. CASE x.ptr # Null
  <2>1. L \ {l} = (live \ {l}) \cup Given(x.ptr, n)
    BY <1>3, <1>5
  <2>2. mem' = free(x.mem, l.ptr) /\ live' = L \ {l} /\ crashed' = FreeOutcome(x.mem, l.ptr)
    BY <1>1, <1>7, <2>1
  <2>3. l \in L
    BY <1>3
  <2> HIDE DEF L
  <2>4. MemOK(mem') /\ mem'.bump = x.mem.bump /\ LiveOK(mem', live')
    BY <1>5, <2>2, <2>3, freeOK
  <2>5. crashed' \in {"no", "owner", "count", "libc"}
    BY <2>2 DEF FreeOutcome
  <2> QED
    BY <1>2, <1>5, <2>2, <2>4, <2>5 DEF AddrIInv, Shaped
<1> QED
  BY <1>6, <1>7

LEMMA ReallocInPlaceStep ==
  ASSUME NoWrap, AddrIInv, NEW l \in Held, NEW n \in Requests, ReallocInPlace(l, n)
  PROVE  AddrIInv'
<1> DEFINE k == [ptr |-> l.ptr, size |-> n]
<1>1. /\ live' = (live \ {l}) \cup {k} /\ UNCHANGED <<mem, libc, crashed>>
      /\ Owner(mem, l.ptr) \in {"small", "large"} /\ n <= old(l)
  BY DEF ReallocInPlace
<1>2. l \in live
  BY <1>1, HeldCases, ForeignOwner
<1>3. MemOK(mem) /\ LiveOK(mem, live) /\ l.ptr \in Nat /\ n \in Nat /\ n \in 0 .. WordMod - 1
  <2>1. l.ptr \in Nat
    BY <1>2 DEF AddrIInv, LiveOK
  <2> QED
    BY <2>1, RequestsAsk DEF AddrIInv, MayAsk
<1>4. \E b \in DOMAIN mem.obj : \E i \in Parts(mem, b) : Home(mem, l, b, i) /\ Home(mem, k, b, i)
  <2>1. CASE Owner(mem, l.ptr) = "small"
    <3> DEFINE b == run_of(l.ptr)
               i == block_of(mem, l.ptr)
    <3>1. /\ b \in DOMAIN mem.obj /\ mem.obj[b].kind = "run" /\ i \in Parts(mem, b)
          /\ Home(mem, l, b, i) /\ l.ptr = Low(mem, b, i)
      BY <1>2, <1>3, <2>1, OwnerHome
    <3>2. old(l) = Elem(mem.obj[b].cls)
      BY <2>1 DEF old
    <3> HIDE DEF b, i
    <3>3. High(mem, b, i) = l.ptr + Elem(mem.obj[b].cls)
      BY <3>1 DEF Low, High
    <3>4. Elem(mem.obj[b].cls) \in Nat \ {0}
      <4>1. mem.obj[b].cls \in Classes
        BY <1>3, <3>1 DEF MemOK, ObjectOK
      <4> QED
        BY <4>1, RunShape
    <3>5. Home(mem, k, b, i)
      <4>1. l.ptr < High(mem, b, i) /\ l.ptr + n <= High(mem, b, i)
        BY <1>1, <1>3, <3>2, <3>3, <3>4
      <4>2. k.ptr = l.ptr /\ k.size = n
        OBVIOUS
      <4> QED
        BY <1>3, <3>1, <4>1, <4>2 DEF Home
    <3> QED
      BY <3>1, <3>5
  <2>2. CASE Owner(mem, l.ptr) = "large"
    <3> DEFINE b == l.ptr - LargeHdr
    <3>1. b \in DOMAIN mem.obj /\ mem.obj[b].kind = "large" /\ Home(mem, l, b, 0)
      BY <1>2, <1>3, <2>2, OwnerHome
    <3>2. old(l) = mem.obj[b].user
      BY <2>2 DEF old
    <3>3. l.ptr = b + LargeHdr /\ LargeHdr \in Nat
      <4>1. LargeHdr \in Nat
        BY AddressAssumption, GeometryAssumption DEF AddressAssumption, GeometryAssumption
      <4> QED
        BY <1>3, <4>1
    <3> HIDE DEF b
    <3>4. /\ b \in Nat /\ mem.obj[b].user \in Nat /\ mem.obj[b].map \in Nat
          /\ LargeHdr + mem.obj[b].user <= mem.obj[b].map
      BY <1>3, <3>1 DEF MemOK, Objects, ObjectOK
    <3>5. 0 \in Parts(mem, b) /\ Low(mem, b, 0) = b + LargeHdr /\ High(mem, b, 0) = b + mem.obj[b].map
      BY <3>1 DEF Parts, Low, High
    <3>6. Home(mem, k, b, 0)
      <4>1. l.ptr + n <= High(mem, b, 0)
        BY <1>1, <1>3, <3>2, <3>3, <3>4, <3>5
      <4>2. k.ptr = l.ptr /\ k.size = n
        OBVIOUS
      <4> QED
        BY <1>3, <3>1, <4>1, <4>2 DEF Home
    <3> QED
      BY <3>1, <3>5, <3>6
  <2> QED
    BY <1>1, <2>1, <2>2
<1>5. PICK b \in DOMAIN mem.obj : \E i \in Parts(mem, b) : Home(mem, l, b, i) /\ Home(mem, k, b, i)
  BY <1>4
<1>6. PICK i \in Parts(mem, b) : Home(mem, l, b, i) /\ Home(mem, k, b, i)
  BY <1>5
<1>7. k.ptr \in Nat /\ k.size \in Nat /\ Shaped({k})
  BY <1>3 DEF Shaped
<1> HIDE DEF k
<1>8. LiveOK(mem, live')
  BY <1>1, <1>2, <1>3, <1>6, <1>7, LiveReplace
<1> QED
  BY <1>1, <1>3, <1>7, <1>8 DEF AddrIInv, Shaped

LEMMA MemalignStep ==
  ASSUME NoWrap, AddrIInv, NEW align \in Aligns, NEW n \in Requests, Memalign(align, n)
  PROVE  AddrIInv'
<1> DEFINE a == IF align < PtrSize THEN PtrSize ELSE align
           need == n + a + PageSize
<1>1. /\ a \in Nat \ {0} /\ ResEnd + a < WordMod /\ (n + a + PageSize) % WordMod = need
      /\ MayAsk(need) /\ MayAsk(1) /\ n \in 0 .. WordMod - 1
  BY RequestsAsk
<1>2. PICK x \in malloc(mem, need) :
        /\ mem' = x.mem
        /\ live' = live \cup (IF x.ptr = Null THEN {} ELSE Given(AlignUp(x.ptr, a), n))
  BY <1>1 DEF Memalign
<1>3. Alive /\ UNCHANGED <<libc, crashed>> /\ mem.bump < WordMod /\ mem.bump <= MaxBump
      /\ MemOK(mem) /\ LiveOK(mem, live) /\ Shaped(live)
  BY DEF Memalign, AddrIInv, Shaped, Alive
<1> HIDE DEF need
<1>4. /\ MemOK(x.mem) /\ x.mem.bump < WordMod /\ Keeps(mem, x.mem)
      /\ x.ptr = Null \/ (x.ptr \in Nat /\ Fits(mem, x.mem, x.ptr, need))
  BY <1>1, <1>3, mallocOK
<1>5. CASE x.ptr = Null
  <2>1. live' = live
    BY <1>2, <1>5
  <2>2. LiveOK(x.mem, live)
    BY <1>3, <1>4, LiveKeeps DEF Keeps
  <2> QED
    BY <1>2, <1>3, <1>4, <2>1, <2>2 DEF AddrIInv, Shaped
<1>6. CASE x.ptr # Null
  <2> DEFINE q == AlignUp(x.ptr, a)
             l == [ptr |-> q, size |-> n]
  <2>1. PICK b, i : /\ NewPart(mem, x.mem, b, i)
                    /\ x.ptr = Low(x.mem, b, i) /\ x.ptr + need <= High(x.mem, b, i)
    BY <1>4, <1>6 DEF Fits
  <2>2. b \in DOMAIN x.mem.obj /\ i \in Index(x.mem, b)
    BY <2>1, PartsIndex DEF NewPart
  <2>3. /\ High(x.mem, b, i) \in Nat /\ x.ptr < High(x.mem, b, i)
        /\ High(x.mem, b, i) <= b + x.mem.obj[b].map /\ b \in Nat /\ x.mem.obj[b].map \in Nat
    BY <1>4, <2>1, <2>2, PartBounds
  <2>4. b + x.mem.obj[b].map <= ResEnd /\ ResEnd \in Nat /\ WordMod \in Nat
    BY <1>4, <2>2, AddressAssumption DEF MemOK, ObjectOK, AddressAssumption
  <2>5. x.ptr \in Nat /\ x.ptr + a < WordMod
    <3>1. x.ptr \in Nat
      BY <1>4, <1>6
    <3> HIDE DEF a
    <3> QED
      BY <1>1, <2>3, <2>4, <3>1
  <2>6. q \in Nat /\ x.ptr <= q /\ q <= x.ptr + a - 1
    <3> HIDE DEF a
    <3> QED
      BY <1>1, <2>5, AlignUpBounds
  <2>7. q < High(x.mem, b, i) /\ q + n <= High(x.mem, b, i)
    <3>1. n \in Nat /\ PageSize \in Nat /\ need = n + a + PageSize
      BY <1>1, GeometryAssumption DEF need, GeometryAssumption
    <3> HIDE DEF a, q
    <3> QED
      BY <1>1, <2>1, <2>3, <2>5, <2>6, <3>1
  <2>8. q # Null
    BY <2>6, AddressAssumption DEF AddressAssumption
  <2> HIDE DEF q, a
  <2>9. l.ptr \in Nat /\ l.size \in Nat /\ Home(x.mem, l, b, i) /\ Shaped({l})
    BY <1>1, <2>1, <2>6, <2>7 DEF Home, Shaped
  <2>10. live' = live \cup {l}
    BY <1>2, <1>6, <2>8 DEF Given, q
  <2> HIDE DEF l
  <2>11. LiveOK(x.mem, live')
    BY <1>3, <1>4, <2>1, <2>9, <2>10, LiveGrows
  <2> QED
    BY <1>2, <1>3, <1>4, <2>9, <2>10, <2>11 DEF AddrIInv, Shaped
<1> QED
  BY <1>5, <1>6

LEMMA UnmapRunStep ==
  ASSUME AddrIInv, NEW b \in DOMAIN mem.obj, UnmapRun(b)
  PROVE  AddrIInv'
<1>1. /\ mem' = Unmap(mem, b) /\ UNCHANGED <<live, libc, crashed>>
      /\ mem.obj[b].kind = "run" /\ mem.obj[b].free = Idx(mem.obj[b].cls)
      /\ MemOK(mem) /\ LiveOK(mem, live) /\ mem.bump < WordMod /\ Shaped(live)
  BY DEF UnmapRun, AddrIInv, Shaped
<1>2. mem' = [bump |-> mem.bump, obj |-> [x \in DOMAIN mem.obj \ {b} |-> mem.obj[x]]]
  BY <1>1 DEF Unmap, MemOK
<1>3. /\ mem'.bump = mem.bump /\ DOMAIN mem'.obj = DOMAIN mem.obj \ {b}
      /\ \A d \in DOMAIN mem'.obj : mem'.obj[d] = mem.obj[d]
      /\ mem'.obj \in [DOMAIN mem'.obj -> Objects]
  BY <1>1, <1>2 DEF MemOK
<1>4. MemOK(mem')
  <2>1. mem' \in [bump : Nat, obj : {mem'.obj}]
    BY <1>1, <1>2 DEF MemOK
  <2> QED
    BY <1>1, <1>3, <2>1 DEF MemOK
<1>5. Parts(mem, b) = {}
  BY <1>1 DEF Parts
<1>6. \A d \in DOMAIN mem.obj : \A i \in Parts(mem, d) : SameShape(mem, mem', d) /\ i \in Parts(mem', d)
  BY <1>3, <1>5 DEF SameShape, Parts
<1>7. LiveOK(mem', live)
  BY <1>1, <1>4, <1>6, LiveKeeps
<1> QED
  BY <1>1, <1>3, <1>4, <1>7 DEF AddrIInv, Shaped

\* The invariant is inductive.
LEMMA AddrInductive ==
  ASSUME NoWrap, AddrIInv, [AddrNext]_avars
  PROVE  AddrIInv'
<1>1. CASE UNCHANGED avars
  BY <1>1 DEF avars, AddrIInv
<1>2. ASSUME NEW n \in Requests, Malloc(n) PROVE AddrIInv'
  BY <1>2, MallocStep
<1>3. ASSUME NEW n \in Requests, NEW nm, NEW sz, nm * sz = n, Calloc(nm, sz) PROVE AddrIInv'
  <2>1. Malloc(n)
    BY <1>3 DEF Calloc
  <2> QED
    BY <2>1, MallocStep
<1>4. ASSUME NEW l \in Held, NEW n \in Requests, ReallocElsewhere(l, n) PROVE AddrIInv'
  BY <1>4 DEF ReallocElsewhere, AddrIInv
<1> QED
  BY <1>1, <1>2, <1>3, <1>4, MemalignStep, ReallocInPlaceStep, ReallocMoveStep, FreeStep,
     ReallocZeroStep, UnmapRunStep DEF AddrNext

LEMMA AddrInitially == AddrInit => AddrIInv
<1> SUFFICES ASSUME AddrInit PROVE AddrIInv
  OBVIOUS
<1>1. mem.bump = ResStart /\ DOMAIN mem.obj = {} /\ mem = [bump |-> ResStart, obj |-> mem.obj]
  BY DEF AddrInit
<1>2. ResStart \in Nat /\ ResStart < WordMod
  BY AddressAssumption DEF AddressAssumption
<1>3. mem.obj \in [DOMAIN mem.obj -> Objects]
  BY <1>1 DEF AddrInit
<1>4. MemOK(mem)
  <2>1. mem \in [bump : Nat, obj : {mem.obj}]
    BY <1>1, <1>2
  <2> QED
    BY <1>1, <1>2, <1>3, <2>1 DEF MemOK
<1>5. LiveOK(mem, live)
  BY DEF AddrInit, LiveOK
<1>6. live = {} /\ libc = Foreign /\ crashed = "no"
  BY DEF AddrInit
<1> QED
  BY <1>1, <1>2, <1>4, <1>5, <1>6 DEF AddrIInv
-----------------------------------------------------------------------------
(* What the invariant says.                                                *)

LEMMA AddrTyped == AddrIInv => AddrTypeOK
<1> SUFFICES ASSUME AddrIInv PROVE AddrTypeOK
  OBVIOUS
<1>1. /\ MemOK(mem) /\ mem.bump < WordMod /\ LiveOK(mem, live) /\ libc \subseteq Foreign
      /\ crashed \in {"no", "owner", "count", "libc"}
      /\ \A l \in live : l.size \in 0 .. WordMod - 1
  BY DEF AddrIInv
<1>2. /\ ResStart \in Nat /\ ResEnd \in Nat /\ ResEnd < WordMod /\ WordMod \in Nat
  BY AddressAssumption DEF AddressAssumption
<1>3. mem.bump \in 0 .. WordMod - 1
  BY <1>1, <1>2 DEF MemOK
<1>4. ASSUME NEW b \in DOMAIN mem.obj
      PROVE  LET o == mem.obj[b] IN
             /\ b \in ResStart .. ResEnd - 1
             /\ \/ o.kind = "run" /\ o.cls \in Classes /\ o.free \subseteq Idx(o.cls)
                   /\ (Reserved => b % kRunSize = 0)
                \/ o.kind = "large" /\ b % PageSize = 0
  <2> DEFINE o == mem.obj[b]
  <2>1. b \in Nat /\ o \in Objects /\ ObjectOK(b, o)
    BY <1>1 DEF MemOK
  <2>2. o.map \in Nat \ {0} /\ o.kind \in {"run", "large"} /\ ResStart <= b /\ b + o.map <= ResEnd
    BY <2>1 DEF Objects, ObjectOK
  <2>3. b \in ResStart .. ResEnd - 1
    <3> HIDE DEF o
    <3> QED
      BY <1>2, <2>1, <2>2
  <2> QED
    BY <2>1, <2>2, <2>3 DEF ObjectOK
<1>5. ASSUME NEW l \in live
      PROVE  l.ptr \in 0 .. WordMod - 1 /\ l.size \in 0 .. WordMod - 1
  <2>1. PICK b \in DOMAIN mem.obj : \E i \in Parts(mem, b) : Home(mem, l, b, i)
    BY <1>1 DEF LiveOK
  <2>2. PICK i \in Parts(mem, b) : Home(mem, l, b, i)
    BY <2>1
  <2>3. i \in Index(mem, b)
    BY PartsIndex
  <2>4. /\ b \in Nat /\ mem.obj[b].map \in Nat /\ High(mem, b, i) \in Nat
        /\ High(mem, b, i) <= b + mem.obj[b].map
    BY <1>1, <2>3, PartBounds
  <2>5. b + mem.obj[b].map <= ResEnd
    BY <1>1 DEF MemOK, ObjectOK
  <2>6. l.ptr \in Nat /\ l.ptr < High(mem, b, i)
    BY <1>1, <2>2 DEF LiveOK, Home
  <2> QED
    BY <1>1, <1>2, <2>4, <2>5, <2>6
<1> QED
  BY <1>1, <1>3, <1>4, <1>5 DEF AddrTypeOK

\* The bytes of a pointer are in its home.
LEMMA BytesHome ==
  ASSUME NEW m, MemOK(m), NEW L, LiveOK(m, L), NEW l \in L,
         NEW b \in DOMAIN m.obj, NEW i \in Parts(m, b), Home(m, l, b, i), NEW x \in Bytes(l)
  PROVE  x \in Nat /\ Low(m, b, i) <= x /\ x < High(m, b, i) /\ i \in Index(m, b)
<1>1. l.ptr \in Nat /\ l.size \in Nat
  BY DEF LiveOK
<1>2. i \in Index(m, b)
  BY PartsIndex
<1>3. Low(m, b, i) \in Nat /\ High(m, b, i) \in Nat
  BY <1>2, PartBounds
<1>4. x \in Int /\ l.ptr <= x /\ x < l.ptr + l.size
  BY <1>1 DEF Bytes
<1> QED
  BY <1>1, <1>2, <1>3, <1>4 DEF Home

\* Its home is something that the object has to give.
LEMMA HomeUsable ==
  ASSUME NEW m, MemOK(m), NEW b \in DOMAIN m.obj, NEW i \in Parts(m, b)
  PROVE  \E u \in Usable(m, b) :
           \A x \in Nat : Low(m, b, i) <= x /\ x < High(m, b, i) => x \in u
<1>1. i \in Index(m, b)
  BY PartsIndex
<1>2. Low(m, b, i) \in Nat /\ High(m, b, i) \in Nat
  BY <1>1, PartBounds
<1>3. m.obj[b].kind \in {"run", "large"}
  BY DEF MemOK, Objects
<1>4. CASE m.obj[b].kind = "run"
  <2>1. i \in Idx(m.obj[b].cls) \ m.obj[b].free
    BY <1>4 DEF Parts
  <2>2. BlockBytes(m, b, i) \in Usable(m, b)
    BY <1>4, <2>1 DEF Usable
  <2>3. Low(m, b, i) = block_addr(b, m.obj[b].cls, i) /\ High(m, b, i) = Low(m, b, i) + Elem(m.obj[b].cls)
    BY <1>4 DEF Low, High
  <2>4. BlockBytes(m, b, i) = Low(m, b, i) .. Low(m, b, i) + (Elem(m.obj[b].cls) - 1)
    BY <2>3, Zenon DEF BlockBytes
  <2>5. Elem(m.obj[b].cls) \in Nat
    BY <1>4, ElemType DEF MemOK, ObjectOK
  <2>6. ASSUME NEW x \in Nat, Low(m, b, i) <= x, x < High(m, b, i)
        PROVE  x \in BlockBytes(m, b, i)
    BY <1>2, <2>3, <2>4, <2>5, <2>6
  <2> QED
    BY <2>2, <2>6
<1>5. CASE m.obj[b].kind = "large"
  <2>1. m.obj[b].kind # "run"
    BY <1>5
  <2>2. Low(m, b, i) = b + LargeHdr /\ High(m, b, i) = b + m.obj[b].map
    BY <2>1 DEF Low, High
  <2>3. Low(m, b, i) .. b + (m.obj[b].map - 1) \in Usable(m, b)
    BY <1>5, <2>2, Zenon DEF Usable
  <2>4. b \in Nat /\ m.obj[b].map \in Nat
    BY DEF MemOK, Objects
  <2> QED
    BY <1>2, <2>2, <2>3, <2>4
<1> QED
  BY <1>3, <1>4, <1>5

LEMMA AddrFits == AddrIInv => LiveFits
<1> SUFFICES ASSUME AddrIInv PROVE LiveFits
  OBVIOUS
<1>1. MemOK(mem) /\ LiveOK(mem, live)
  BY DEF AddrIInv
<1>2. \A l \in live : \E b \in DOMAIN mem.obj : \E i \in Parts(mem, b) : Home(mem, l, b, i)
  BY <1>1 DEF LiveOK
<1>3. ASSUME NEW l \in live
      PROVE  \E b \in DOMAIN mem.obj : \E u \in Usable(mem, b) : Bytes(l) \subseteq u
  <2>1. PICK b \in DOMAIN mem.obj : \E i \in Parts(mem, b) : Home(mem, l, b, i)
    BY <1>2
  <2>2. PICK i \in Parts(mem, b) : Home(mem, l, b, i)
    BY <2>1
  <2>3. PICK u \in Usable(mem, b) :
          \A x \in Nat : Low(mem, b, i) <= x /\ x < High(mem, b, i) => x \in u
    BY <1>1, HomeUsable
  <2>4. \A x \in Bytes(l) : x \in u
    BY <1>1, <2>2, <2>3, BytesHome
  <2> QED
    BY <2>3, <2>4
<1>4. ASSUME NEW l \in live, NEW k \in live, NEW x \in Bytes(l), x \in Bytes(k)
      PROVE  l = k
  <2>1. PICK b \in DOMAIN mem.obj : \E i \in Parts(mem, b) : Home(mem, l, b, i)
    BY <1>2
  <2>2. PICK i \in Parts(mem, b) : Home(mem, l, b, i)
    BY <2>1
  <2>3. PICK d \in DOMAIN mem.obj : \E j \in Parts(mem, d) : Home(mem, k, d, j)
    BY <1>2
  <2>4. PICK j \in Parts(mem, d) : Home(mem, k, d, j)
    BY <2>3
  <2>5. x \in Nat /\ Low(mem, b, i) <= x /\ x < High(mem, b, i) /\ i \in Index(mem, b)
    BY <1>1, <2>2, BytesHome
  <2>6. Low(mem, d, j) <= x /\ x < High(mem, d, j) /\ j \in Index(mem, d)
    BY <1>1, <1>4, <2>4, BytesHome
  <2>7. b = d /\ i = j
    BY <1>1, <2>5, <2>6, PartsApart
  <2> QED
    BY <1>1, <2>2, <2>4, <2>7 DEF LiveOK
<1> QED
  BY <1>3, <1>4 DEF LiveFits

LEMMA AddrHits == AddrIInv => FreeHitsOwner
<1> SUFFICES ASSUME AddrIInv, NEW l \in live
             PROVE  LET b == run_of(l.ptr)
                        block == BlockBytes(mem, b, block_of(mem, l.ptr))
                        Alone(B) == \A k \in live \ {l} : Bytes(k) \cap B = {}
                    IN  /\ Owner(mem, l.ptr) = "small" => block \in Usable(mem, b) /\ Alone(block)
                        /\ Owner(mem, l.ptr) = "large" => Alone(Extent(mem, l.ptr - LargeHdr))
  BY Zenon DEF FreeHitsOwner
<1>1. MemOK(mem) /\ LiveOK(mem, live)
  BY DEF AddrIInv
<1>2. ASSUME NEW b \in DOMAIN mem.obj, NEW i \in Parts(mem, b), Home(mem, l, b, i),
             NEW k \in live \ {l}, NEW x \in Bytes(k)
      PROVE  /\ x \in Nat /\ ~ (Low(mem, b, i) <= x /\ x < High(mem, b, i))
             /\ mem.obj[b].kind = "large" => ~ (b <= x /\ x < b + mem.obj[b].map)
  <2>1. PICK d \in DOMAIN mem.obj : \E j \in Parts(mem, d) : Home(mem, k, d, j)
    BY <1>1 DEF LiveOK
  <2>2. PICK j \in Parts(mem, d) : Home(mem, k, d, j)
    BY <2>1
  <2>3. x \in Nat /\ Low(mem, d, j) <= x /\ x < High(mem, d, j) /\ j \in Index(mem, d)
    BY <1>1, <2>2, BytesHome
  <2>4. ~ (b = d /\ i = j)
    BY <1>1, <1>2, <2>2 DEF LiveOK
  <2>5. ~ (Low(mem, b, i) <= x /\ x < High(mem, b, i))
    BY <1>1, <2>3, <2>4, PartsApart, PartsIndex
  <2>6. ASSUME mem.obj[b].kind = "large", b <= x, x < b + mem.obj[b].map
        PROVE  FALSE
    <3>1. /\ d \in Nat /\ mem.obj[d].map \in Nat /\ Low(mem, d, j) \in Nat /\ High(mem, d, j) \in Nat
          /\ d <= Low(mem, d, j) /\ High(mem, d, j) <= d + mem.obj[d].map
      BY <1>1, <2>3, PartBounds
    <3>2. d <= x /\ x < d + mem.obj[d].map
      BY <2>3, <3>1
    <3>3. b = d
      BY <1>1, <2>3, <2>6, <3>2, ObjectsApart
    <3>4. Parts(mem, b) = {0}
      BY <2>6 DEF Parts
    <3> QED
      BY <2>4, <3>3, <3>4
  <2> QED
    BY <2>3, <2>5, <2>6
<1>3. ASSUME Owner(mem, l.ptr) = "small"
      PROVE  LET block == BlockBytes(mem, run_of(l.ptr), block_of(mem, l.ptr))
             IN  /\ block \in Usable(mem, run_of(l.ptr))
                 /\ \A k \in live \ {l} : Bytes(k) \cap block = {}
  <2> DEFINE b == run_of(l.ptr)
             j == block_of(mem, l.ptr)
  <2>1. /\ b \in DOMAIN mem.obj /\ mem.obj[b].kind = "run" /\ j \in Parts(mem, b)
        /\ Home(mem, l, b, j)
    BY <1>1, <1>3, OwnerHome
  <2> HIDE DEF b, j
  <2>2. BlockBytes(mem, b, j) \in Usable(mem, b)
    <3>1. j \in Idx(mem.obj[b].cls) \ mem.obj[b].free
      BY <2>1 DEF Parts
    <3> QED
      BY <2>1, <3>1 DEF Usable
  <2>3. /\ Low(mem, b, j) = block_addr(b, mem.obj[b].cls, j)
        /\ High(mem, b, j) = Low(mem, b, j) + Elem(mem.obj[b].cls)
    BY <2>1 DEF Low, High
  <2>4. BlockBytes(mem, b, j) = Low(mem, b, j) .. Low(mem, b, j) + (Elem(mem.obj[b].cls) - 1)
    BY <2>3, Zenon DEF BlockBytes
  <2>5. Low(mem, b, j) \in Nat /\ Elem(mem.obj[b].cls) \in Nat
    <3>1. j \in Index(mem, b)
      BY PartsIndex, <2>1
    <3>2. Low(mem, b, j) \in Nat
      BY <1>1, <2>1, <3>1, PartBounds
    <3> QED
      BY <1>1, <2>1, <3>2, ElemType DEF MemOK, ObjectOK
  <2>6. ASSUME NEW k \in live \ {l}, NEW x \in Bytes(k), x \in BlockBytes(mem, b, j)
        PROVE  FALSE
    <3>1. x \in Nat /\ ~ (Low(mem, b, j) <= x /\ x < High(mem, b, j))
      BY <1>2, <2>1
    <3> QED
      BY <2>3, <2>4, <2>5, <2>6, <3>1
  <2>7. \A k \in live \ {l} : Bytes(k) \cap BlockBytes(mem, b, j) = {}
    BY <2>6
  <2> QED
    BY <2>2, <2>7 DEF b, j
<1>4. ASSUME Owner(mem, l.ptr) = "large", NEW k \in live \ {l}
      PROVE  Bytes(k) \cap Extent(mem, l.ptr - LargeHdr) = {}
  <2> DEFINE b == l.ptr - LargeHdr
  <2>1. b \in DOMAIN mem.obj /\ mem.obj[b].kind = "large" /\ Home(mem, l, b, 0)
    BY <1>1, <1>4, OwnerHome
  <2> HIDE DEF b
  <2>2. 0 \in Parts(mem, b)
    BY <2>1 DEF Parts
  <2>3. b \in Nat /\ mem.obj[b].map \in Nat
    BY <1>1, <2>1 DEF MemOK, Objects
  <2>4. ASSUME NEW x \in Bytes(k), x \in Extent(mem, b)
        PROVE  FALSE
    <3>1. x \in Nat /\ ~ (b <= x /\ x < b + mem.obj[b].map)
      BY <1>2, <2>1, <2>2
    <3> QED
      BY <2>3, <2>4, <3>1 DEF Extent
  <2>5. Bytes(k) \cap Extent(mem, b) = {}
    BY <2>4
  <2> QED
    BY <2>5 DEF b
<1> QED
  BY <1>3, <1>4

\* Within kRunSize of an aligned base, run_of yields the base.
LEMMA RunOf ==
  ASSUME NEW b \in Nat, b % kRunSize = 0, NEW p \in Nat, b <= p, p - b < kRunSize
  PROVE  run_of(p) = b
<1> DEFINE q == b \div kRunSize
           t == p \div kRunSize
<1>1. kRunSize \in Nat \ {0}
  BY GeometryAssumption DEF GeometryAssumption
<1>2. q \in Nat /\ b = q * kRunSize
  <2>1. q \in Nat /\ b = q * kRunSize + (b % kRunSize)
    BY <1>1, Division
  <2>2. q * kRunSize \in Nat
    BY <1>1, <2>1
  <2> QED
    BY <2>1, <2>2
<1>3. t \in Nat /\ t * kRunSize \in Nat /\ t * kRunSize <= p /\ p < t * kRunSize + kRunSize
  <2>1. t \in Nat /\ p = t * kRunSize + (p % kRunSize) /\ p % kRunSize \in 0 .. kRunSize - 1
    BY <1>1, Division
  <2>2. t * kRunSize \in Nat
    BY <1>1, <2>1
  <2> QED
    BY <1>1, <2>1, <2>2
<1>4. run_of(p) = t * kRunSize
  BY DEF run_of
<1> HIDE DEF q, t
<1>5. /\ (q + 1) * kRunSize = q * kRunSize + kRunSize
      /\ (t + 1) * kRunSize = t * kRunSize + kRunSize
  BY <1>1, <1>2, <1>3
<1>6. t * kRunSize < (q + 1) * kRunSize /\ q * kRunSize < (t + 1) * kRunSize
  BY <1>1, <1>2, <1>3, <1>5
<1>7. t < q + 1 /\ q < t + 1
  BY <1>1, <1>2, <1>3, <1>6, MulLess
<1>8. t = q
  BY <1>2, <1>3, <1>7
<1> QED
  BY <1>2, <1>4, <1>8

\* What it yields is never further away than that.
LEMMA RunOfNear ==
  ASSUME NEW p \in Nat
  PROVE  run_of(p) \in Nat /\ run_of(p) <= p /\ p - run_of(p) < kRunSize
<1>1. kRunSize \in Nat \ {0}
  BY GeometryAssumption DEF GeometryAssumption
<1> DEFINE t == p \div kRunSize
<1>2. t \in Nat /\ p = t * kRunSize + (p % kRunSize) /\ p % kRunSize \in 0 .. kRunSize - 1
  BY <1>1, Division
<1>3. t * kRunSize \in Nat
  BY <1>1, <1>2
<1> QED
  BY <1>1, <1>2, <1>3 DEF run_of

\* A pointer that passes for a block lies in the object at run_of.
LEMMA AddrFinds == ASSUME Reserved PROVE AddrIInv => BlocksFound
<1> SUFFICES ASSUME AddrIInv, NEW b \in DOMAIN mem.obj, mem.obj[b].kind = "run",
                    NEW i \in Idx(mem.obj[b].cls) \ mem.obj[b].free
             PROVE  run_of_finds(mem.obj[b].cls, i)
                      <=> Owner(mem, block_addr(b, mem.obj[b].cls, i)) = "small"
  BY Zenon DEF BlocksFound
<1> DEFINE c == mem.obj[b].cls
           p == block_addr(b, c, i)
<1>1. MemOK(mem) /\ b \in Nat
  BY DEF AddrIInv, MemOK
<1>2. c \in Classes /\ b % kRunSize = 0 /\ ResStart <= b /\ b + mem.obj[b].map <= ResEnd
  BY <1>1 DEF MemOK, ObjectOK
<1>3. ResStart \in Nat /\ ResEnd \in Nat
  BY AddressAssumption DEF AddressAssumption
<1>4. /\ Elem(c) \in Nat \ {0} /\ data_offset_padded(Elems(c)) \in Nat
      /\ i \in Nat /\ i * Elem(c) \in Nat /\ i * Elem(c) + Elem(c) <= data_len(c)
      /\ data_len(c) \in Nat
  BY <1>2, RunShape
<1>5. /\ mem.obj[b].map \in Nat \ {0} /\ p \in Nat
      /\ b <= p /\ p < b + mem.obj[b].map
  <2>1. i \in Index(mem, b) /\ p = Low(mem, b, i)
    BY DEF Index, Low
  <2> QED
    BY <1>1, <2>1, PartBounds
<1>6. p = b + block_offset(c, i) /\ block_offset(c, i) = data_offset_padded(Elems(c)) + i * Elem(c)
  BY DEF block_addr, block_offset
<1>7. block_offset(c, i) \in Nat /\ p - b = block_offset(c, i)
  <2> HIDE DEF p, c
  <2> DEFINE x == i * Elem(c)
  <2> HIDE DEF x
  <2>1. x \in Nat /\ block_offset(c, i) = data_offset_padded(Elems(c)) + x
    BY <1>4, <1>6 DEF x
  <2> QED
    BY <1>1, <1>4, <1>6, <2>1
<1>8. kRunSize \in Nat
  BY GeometryAssumption DEF GeometryAssumption
<1>9. ASSUME run_of_finds(c, i) PROVE Owner(mem, p) = "small"
  <2>1. run_of(p) = b
    <3>1. p - b < kRunSize
      BY <1>7, <1>9 DEF run_of_finds
    <3> HIDE DEF p
    <3> QED
      BY <1>1, <1>2, <1>5, <3>1, RunOf
  <2>2. in_reserve(p)
    <3> HIDE DEF p
    <3> QED
      BY <1>1, <1>2, <1>3, <1>5 DEF in_reserve
  <2>3. Readable(mem, run_of(p))
    BY <1>1, <1>5, <2>1 DEF Readable, Extent
  <2>4. ours_small(mem, p)
    <3> DEFINE off == p - (b + data_offset_padded(Elems(c)))
    <3>1. off = i * Elem(c)
      <4> HIDE DEF p, c
      <4> DEFINE x == i * Elem(c)
      <4> HIDE DEF x
      <4>1. x \in Nat /\ p = b + (data_offset_padded(Elems(c)) + x)
        BY <1>4, <1>6 DEF x
      <4>2. off = x
        BY <1>1, <1>4, <4>1
      <4> QED
        BY <4>2 DEF x
    <3>2. off % Elem(c) = 0
      <4> HIDE DEF p, c, off
      <4>1. (i * Elem(c)) % Elem(c) = 0
        BY <1>4, Multiples
      <4> QED
        BY <3>1, <4>1
    <3>3. off >= 0 /\ off < data_len(c)
      <4> HIDE DEF p, c, off
      <4> QED
        BY <1>4, <3>1
    <3> QED
      BY <2>1, <3>2, <3>3 DEF ours_small
  <2> HIDE DEF p
  <2> QED
    BY <2>2, <2>3, <2>4 DEF Owner
<1>10. ASSUME Owner(mem, p) = "small" PROVE run_of_finds(c, i)
  <2> DEFINE d == run_of(p)
             e == mem.obj[d].cls
             off == p - (d + data_offset_padded(Elems(e)))
  <2>1. ours_small(mem, p)
    <3> HIDE DEF p
    <3> QED
      BY <1>10 DEF Owner
  <2>2. d \in DOMAIN mem.obj /\ mem.obj[d].kind = "run" /\ off >= 0 /\ off < data_len(e)
    <3> HIDE DEF p
    <3> QED
      BY <2>1 DEF ours_small
  <2>3. d \in Nat /\ d <= p /\ p - d < kRunSize
    <3> HIDE DEF p
    <3> QED
      BY <1>5, RunOfNear
  <2>4. e \in Classes /\ mem.obj[d].map = run_map(e)
    BY <1>1, <2>2 DEF MemOK, ObjectOK
  <2>5. /\ data_offset_padded(Elems(e)) \in Nat /\ data_len(e) \in Nat /\ run_map(e) \in Nat
        /\ data_offset_padded(Elems(e)) + data_len(e) <= run_map(e)
    BY <2>4, RunShape
  <2>6. p < d + mem.obj[d].map
    <3> HIDE DEF p, d, e
    <3> QED
      BY <1>5, <2>2, <2>3, <2>4, <2>5
  <2>7. b = d
    <3> HIDE DEF p, d
    <3> QED
      BY <1>1, <1>5, <2>2, <2>3, <2>6, ObjectsApart
  <2> QED
    BY <1>7, <2>3, <2>7 DEF run_of_finds
<1> QED
  BY <1>9, <1>10
-----------------------------------------------------------------------------
(* The theorems.                                                           *)

LEMMA AddrInvariant == ASSUME NoWrap PROVE AddrSpec => []AddrIInv
<1>1. AddrInit => AddrIInv
  BY AddrInitially
<1>2. AddrIInv /\ [AddrNext]_avars => AddrIInv'
  BY AddrInductive
<1> QED
  BY <1>1, <1>2, PTL DEF AddrSpec

\* Objects stay where reserve_map aligns them, inside the reserve, whatever is malloc'ed,
\* freed, moved or unmapped; pointers, sizes and g_res_bump stay numbers of their width.
THEOREM AddrTypeCorrect == ASSUME NoWrap PROVE AddrSpec => []AddrTypeOK
<1>1. AddrIInv => AddrTypeOK
  BY AddrTyped
<1> QED
  BY <1>1, AddrInvariant, PTL

\* Whatever malloc, realloc and posix_memalign return lies in a taken block or a large
\* object that is still mapped, and no two of them share a byte.
THEOREM AddrLiveFits == ASSUME NoWrap PROVE AddrSpec => []LiveFits
<1>1. AddrIInv => LiveFits
  BY AddrFits
<1> QED
  BY <1>1, AddrInvariant, PTL

\* free and realloc give back the bytes of the pointer they are passed and of no other,
\* although all they look at is what run_of and the header before the pointer say.
THEOREM AddrFreeHitsOwner == ASSUME NoWrap PROVE AddrSpec => []FreeHitsOwner
<1>1. AddrIInv => FreeHitsOwner
  BY AddrHits
<1> QED
  BY <1>1, AddrInvariant, PTL

\* With a reserve, a block that is out is recognised by its address exactly if it starts
\* within kRunSize of its run: the others, behind it, are never taken back by free.
THEOREM AddrBlocksFound == ASSUME NoWrap, Reserved PROVE AddrSpec => []BlocksFound
<1>1. AddrIInv => BlocksFound
  BY AddrFinds
<1> QED
  BY <1>1, AddrInvariant, PTL
===============================================================================
