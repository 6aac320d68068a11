----------------------------- MODULE ConfigProofs -----------------------------
(***************************************************************************)
(* Proofs about the configuration: for every file, of any lines in any     *)
(* order, and any number of groups.  Loops are followed by choosing their  *)
(* first turn for which a claim would fail.                                *)
(***************************************************************************)
EXTENDS Config, WellFoundedInduction, TLAPS

Section == SectionAt(Len(file) + 1)

\* The types of a group: the pieces of its path, two of which Text puts there, its weight.
Pieces == STRING \cup {"?", "#"}
Weights == {10} \cup {l.val.n : l \in Lines}
Policy == [prefix : Seq(Pieces), weight : Weights, mode : {0, 1}]

ConfigTypes ==
  /\ file \in Seq(Lines)
  /\ cfg = [k \in Keys |-> cfg[k]]
  /\ groups \in Seq(Policy)
-------------------------------------------------------------------------------
(* Numbers.                                                                *)

\* A set of natural numbers has a least element.
LEMMA Least ==
  ASSUME NEW S \in SUBSET Nat, S # {}
  PROVE  \E x \in S : \A y \in S : x <= y
<1> DEFINE R == OpToRel(<, Nat)
<1>1. PICK x \in S : \A y \in S : ~ (<<y, x>> \in R)
  <2>1. IsWellFoundedOn(R, Nat)
    BY NatLessThanWellFounded
  <2> HIDE DEF R
  <2> QED
    BY <2>1, WFMin
<1>2. \A y \in S : ~ (y < x)
  BY <1>1 DEF OpToRel
<1> QED
  BY <1>2

\* What is true of 0, and of the successor of whatever it is true of, is true of all.
LEMMA Counting ==
  ASSUME NEW n \in Nat, NEW T, 0 \in T, \A i \in 0 .. n - 1 : i \in T => i + 1 \in T
  PROVE  0 .. n \subseteq T
<1> DEFINE S == {i \in 0 .. n : i \notin T}
<1> SUFFICES ASSUME S # {} PROVE FALSE
  OBVIOUS
<1>1. PICK x \in S : \A y \in S : x <= y
  <2>1. S \in SUBSET Nat
    OBVIOUS
  <2> HIDE DEF S
  <2> QED
    BY <2>1, Least
<1>2. x \in 1 .. n
  BY <1>1
<1>3. x - 1 \in 0 .. n - 1 /\ x - 1 \notin S
  BY <1>1, <1>2
<1>4. x - 1 \in T
  BY <1>2, <1>3
<1>5. (x - 1) + 1 \in T
  BY <1>3, <1>4
<1> QED
  BY <1>1, <1>2, <1>5

LEMMA MaxIs ==
  ASSUME NEW n \in Nat, NEW S \in SUBSET (1 .. n), S # {}
  PROVE  Max(S) \in S /\ \A y \in S : Max(S) >= y
<1> DEFINE T == {n - y : y \in S}
<1>1. T \in SUBSET Nat /\ T # {}
  <2>1. \A y \in S : n - y \in Nat
    OBVIOUS
  <2>2. T \in SUBSET Nat
    BY <2>1
  <2> QED
    BY <2>2
<1>2. PICK x \in T : \A y \in T : x <= y
  <2> HIDE DEF T
  <2> QED
    BY <1>1, Least
<1>3. PICK m \in S : x = n - m
  BY <1>2
<1>4. \A y \in S : m >= y
  BY <1>2, <1>3
<1> QED
  BY <1>4 DEF Max

LEMMA MaxNext ==
  ASSUME NEW n \in Nat, NEW S \in SUBSET (1 .. n)
  PROVE  Max(S \cup {n + 1}) = n + 1
<1>1. S \cup {n + 1} \in SUBSET (1 .. n + 1) /\ S \cup {n + 1} # {} /\ n + 1 \in Nat
  OBVIOUS
<1> DEFINE m == Max(S \cup {n + 1})
<1>2. m \in S \cup {n + 1} /\ m >= n + 1
  BY <1>1, MaxIs
<1> HIDE DEF m
<1>3. m = n + 1
  BY <1>2
<1> QED
  BY <1>3 DEF m

LEMMA MaxOfTwo ==
  ASSUME NEW a \in Nat, NEW b \in Nat
  PROVE  Max({a, b}) \in {a, b} /\ Max({a, b}) >= a /\ Max({a, b}) >= b
<1>1. \E x \in {a, b} : \A y \in {a, b} : x >= y
  <2>1. CASE a >= b
    BY <2>1
  <2>2. CASE b >= a
    BY <2>2
  <2> QED
    BY <2>1, <2>2
<1> QED
  BY <1>1 DEF Max
-------------------------------------------------------------------------------
(* The loop over the groups.                                               *)

\* A loop of n turns, each of which computes its value from the last one.
LEMMA LoopExists ==
  ASSUME NEW n \in Nat, NEW turn
  PROVE  \E f : f = [i \in 0 .. n |-> IF i = 0 THEN 0 ELSE turn[<<i, f[i - 1]>>]]
<1> DEFINE T == {m \in Nat : \E f : f = [i \in 0 .. m |-> IF i = 0 THEN 0 ELSE turn[<<i, f[i - 1]>>]]}
<1>1. 0 \in T
  <2> DEFINE f == [i \in 0 .. 0 |-> 0]
  <2>1. f = [i \in 0 .. 0 |-> IF i = 0 THEN 0 ELSE turn[<<i, f[i - 1]>>]]
    OBVIOUS
  <2> QED
    BY <2>1
<1>2. ASSUME NEW m \in 0 .. n - 1, m \in T
      PROVE  m + 1 \in T
  <2>1. PICK f : f = [i \in 0 .. m |-> IF i = 0 THEN 0 ELSE turn[<<i, f[i - 1]>>]]
    BY <1>2
  <2> DEFINE g == [i \in 0 .. m + 1 |-> IF i = m + 1 THEN turn[<<m + 1, f[m]>>] ELSE f[i]]
  <2>2. ASSUME NEW i \in 0 .. m + 1
        PROVE  g[i] = IF i = 0 THEN 0 ELSE turn[<<i, g[i - 1]>>]
    <3>1. CASE i = m + 1
      <4>1. i # 0 /\ i - 1 = m /\ m # m + 1 /\ m \in 0 .. m + 1
        BY <3>1
      <4>2. g[i - 1] = f[m] /\ g[i] = turn[<<m + 1, f[m]>>]
        BY <3>1, <4>1
      <4> QED
        BY <3>1, <4>1, <4>2
    <3>2. CASE i # m + 1
      <4>1. i \in 0 .. m
        BY <3>2
      <4>2. g[i] = f[i] /\ (i # 0 => g[i - 1] = f[i - 1])
        BY <3>2, <4>1
      <4>3. f[i] = IF i = 0 THEN 0 ELSE turn[<<i, f[i - 1]>>]
        BY <2>1, <4>1
      <4> QED
        BY <4>2, <4>3
    <3> QED
      BY <3>1, <3>2
  <2>3. g = [i \in 0 .. m + 1 |-> IF i = 0 THEN 0 ELSE turn[<<i, g[i - 1]>>]]
    BY <2>2
  <2>4. m + 1 \in Nat
    OBVIOUS
  <2> QED
    BY <2>3, <2>4
<1>3. n \in T
  <2> HIDE DEF T
  <2>1. 0 .. n \subseteq T
    BY <1>1, <1>2, Counting
  <2> QED
    BY <2>1
<1> QED
  BY <1>3

\* The groups that match a path among the first i.
Matching(path, i) == {j \in 1 .. i : IsPrefix(groups[j].prefix, path)}

\* After i turns the loop has chosen one of the longest among them.
Chosen(path, i, b) ==
  /\ b = 0 => Matching(path, i) = {}
  /\ b # 0 => /\ b \in Matching(path, i)
              /\ \A j \in Matching(path, i) : Len(groups[j].prefix) <= Len(groups[b].prefix)

LEMMA LoopFinds ==
  ASSUME NEW path, groups \in Seq(Policy)
  PROVE  BestGroup(path) \in 0 .. Len(groups) /\ Chosen(path, Len(groups), BestGroup(path))
<1> DEFINE n == Len(groups)
           Rec(f) == [i \in 0 .. n |-> IF i = 0 THEN 0
                        ELSE IF Better(groups[i], f[i - 1], path) THEN i ELSE f[i - 1]]
           best == CHOOSE f : f = Rec(f)
           turn == [x \in (1 .. n) \X (0 .. n) |->
                      IF Better(groups[x[1]], x[2], path) THEN x[1] ELSE x[2]]
<1>1. BestGroup(path) = best[n]
  BY DEF BestGroup
<1>2. n \in Nat
  OBVIOUS
<1>3. best = Rec(best)
  <2>1. PICK f : f = [i \in 0 .. n |-> IF i = 0 THEN 0 ELSE turn[<<i, f[i - 1]>>]]
    <3> HIDE DEF n, turn
    <3> QED
      BY <1>2, LoopExists
  <2> DEFINE T == {i \in 0 .. n : f[i] \in 0 .. n}
  <2>2. 0 \in T
    BY <1>2, <2>1
  <2>3. \A i \in 0 .. n - 1 : i \in T => i + 1 \in T
    <3> SUFFICES ASSUME NEW i \in 0 .. n - 1, i \in T PROVE i + 1 \in T
      OBVIOUS
    <3>1. i + 1 \in 1 .. n /\ i + 1 \in 0 .. n /\ i + 1 # 0 /\ (i + 1) - 1 = i /\ f[i] \in 0 .. n
      BY <1>2
    <3>2. f[i + 1] = turn[<<i + 1, f[i]>>]
      BY <2>1, <3>1
    <3>3. turn[<<i + 1, f[i]>>] \in {i + 1, f[i]}
      BY <3>1
    <3> QED
      BY <3>1, <3>2, <3>3
  <2>4. 0 .. n \subseteq T
    <3> HIDE DEF T, n
    <3> QED
      BY <1>2, <2>2, <2>3, Counting
  <2>5. ASSUME NEW i \in 0 .. n
        PROVE  f[i] = IF i = 0 THEN 0 ELSE IF Better(groups[i], f[i - 1], path) THEN i ELSE f[i - 1]
    <3>1. i # 0 => i \in 1 .. n /\ i - 1 \in 0 .. n
      BY <1>2
    <3>2. i # 0 => f[i - 1] \in 0 .. n
      BY <2>4, <3>1
    <3> QED
      BY <2>1, <3>1, <3>2
  <2>6. f = Rec(f)
    BY <2>1, <2>5
  <2> HIDE DEF Rec
  <2> QED
    BY <2>6
<1> HIDE DEF best
<1>4. best[0] = 0
  BY <1>2, <1>3
<1>5. \A i \in 0 .. n - 1 : best[i + 1] = IF Better(groups[i + 1], best[i], path) THEN i + 1 ELSE best[i]
  <2> SUFFICES ASSUME NEW i \in 0 .. n - 1
               PROVE  best[i + 1] = IF Better(groups[i + 1], best[i], path) THEN i + 1 ELSE best[i]
    OBVIOUS
  <2>1. i + 1 \in 0 .. n /\ i + 1 # 0 /\ (i + 1) - 1 = i
    BY <1>2
  <2> QED
    BY <1>3, <2>1
<1> DEFINE T == {i \in 0 .. n : best[i] \in 0 .. i /\ Chosen(path, i, best[i])}
<1>6. 0 \in T
  BY <1>2, <1>4 DEF Chosen, Matching
<1>7. \A i \in 0 .. n - 1 : i \in T => i + 1 \in T
  <2> SUFFICES ASSUME NEW i \in 0 .. n - 1, i \in T PROVE i + 1 \in T
    OBVIOUS
  <2> DEFINE b == best[i]
             g == groups[i + 1]
  <2>1. i + 1 \in 1 .. n /\ i \in Nat /\ b \in 0 .. i /\ Chosen(path, i, b)
    BY <1>2
  <2>2. best[i + 1] = IF Better(g, b, path) THEN i + 1 ELSE b
    BY <1>5
  <2>3. Matching(path, i + 1) = IF IsPrefix(g.prefix, path) THEN Matching(path, i) \cup {i + 1}
                                ELSE Matching(path, i)
    BY <2>1 DEF Matching
  <2>4. \A j \in 1 .. n : Len(groups[j].prefix) \in Nat
    BY DEF Policy
  <2> HIDE DEF b, g, n
  <2>5. Chosen(path, i + 1, best[i + 1])
    <3>1. b # 0 => b \in Matching(path, i) /\ b \in 1 .. n /\ Len(groups[b].prefix) \in Nat
      BY <1>2, <2>1, <2>4 DEF Chosen, Matching
    <3>2. Len(g.prefix) \in Nat
      BY <2>1, <2>4 DEF g
    <3>3. \A j \in Matching(path, i) : Len(groups[j].prefix) \in Nat
      BY <1>2, <2>1, <2>4 DEF Matching
    <3>4. CASE Better(g, b, path)
      <4>1. best[i + 1] = i + 1 /\ i + 1 # 0 /\ Matching(path, i + 1) = Matching(path, i) \cup {i + 1}
        BY <2>1, <2>2, <2>3, <3>4 DEF Better
      <4>2. ASSUME NEW j \in Matching(path, i)
            PROVE  Len(groups[j].prefix) <= Len(g.prefix)
        <5>1. b # 0 /\ Len(groups[j].prefix) <= Len(groups[b].prefix)
          BY <2>1, <4>2 DEF Chosen
        <5>2. Len(g.prefix) > Len(groups[b].prefix)
          BY <3>4, <5>1 DEF Better
        <5> QED
          BY <3>1, <3>2, <3>3, <5>1, <5>2
      <4> QED
        BY <3>2, <4>1, <4>2 DEF Chosen, g
    <3>5. CASE ~ Better(g, b, path) /\ IsPrefix(g.prefix, path)
      <4>1. /\ best[i + 1] = b /\ b # 0 /\ ~ (Len(g.prefix) > Len(groups[b].prefix))
            /\ Matching(path, i + 1) = Matching(path, i) \cup {i + 1}
        BY <2>2, <2>3, <3>5 DEF Better
      <4>2. Len(g.prefix) <= Len(groups[b].prefix)
        BY <3>1, <3>2, <4>1
      <4> QED
        BY <2>1, <3>1, <4>1, <4>2 DEF Chosen, g
    <3>6. CASE ~ IsPrefix(g.prefix, path)
      <4>1. best[i + 1] = b /\ Matching(path, i + 1) = Matching(path, i)
        BY <2>2, <2>3, <3>6 DEF Better
      <4> QED
        BY <2>1, <4>1 DEF Chosen
    <3> QED
      BY <3>4, <3>5, <3>6
  <2>6. best[i + 1] \in 0 .. i + 1
    BY <2>1, <2>2
  <2> QED
    BY <2>1, <2>5, <2>6
<1>8. 0 .. n \subseteq T
  <2> HIDE DEF T, n
  <2> QED
    BY <1>2, <1>6, <1>7, Counting
<1> QED
  BY <1>1, <1>2, <1>8
-------------------------------------------------------------------------------
(* Reading a line.                                                         *)

\* What is read is behind everything else.
LEMMA NextLine ==
  ASSUME file \in Seq(Lines), NEW l \in Lines, Reads(l)
  PROVE  /\ Len(file) \in Nat /\ DOMAIN file = 1 .. Len(file)
         /\ file' \in Seq(Lines) /\ Len(file') = Len(file) + 1 /\ DOMAIN file' = 1 .. Len(file) + 1
         /\ file'[Len(file) + 1] = l
         /\ \A i \in 1 .. Len(file) : file'[i] = file[i]
  BY DEF Reads

\* It leaves the lines before it in the sections they are in.
LEMMA SectionsStay ==
  ASSUME file \in Seq(Lines), NEW l \in Lines, Reads(l)
  PROVE  /\ \A i \in 1 .. Len(file) + 1 : SectionAt(i)' = SectionAt(i)
         /\ Section' = IF Header(l) THEN l.name ELSE Section
<1> DEFINE n == Len(file)
<1>1. /\ n \in Nat /\ Len(file') = n + 1 /\ file'[n + 1] = l
      /\ \A i \in 1 .. n : file'[i] = file[i]
  BY NextLine
<1> DEFINE S(i) == {j \in 1 .. i - 1 : file[j].kind = "section" /\ ~ file[j].note}
           S1(i) == {j \in 1 .. i - 1 : file'[j].kind = "section" /\ ~ file'[j].note}
<1> HIDE DEF n
<1>2. ASSUME NEW i \in 1 .. n + 1
      PROVE  S1(i) = S(i) /\ S(i) \in SUBSET (1 .. n)
  <2>1. i - 1 \in 0 .. n
    BY <1>1
  <2>2. 1 .. i - 1 \subseteq 1 .. n
    BY <1>1, <2>1
  <2> QED
    BY <1>1, <2>2
<1>3. ASSUME NEW i \in 1 .. n + 1
      PROVE  SectionAt(i)' = SectionAt(i)
  <2>1. SectionAt(i)' = (IF S1(i) = {} THEN "" ELSE file'[Max(S1(i))].name)
    BY DEF SectionAt
  <2>2. SectionAt(i) = (IF S(i) = {} THEN "" ELSE file[Max(S(i))].name)
    BY DEF SectionAt
  <2>3. S(i) # {} => Max(S(i)) \in 1 .. n
    BY <1>1, <1>2, MaxIs
  <2> QED
    BY <1>1, <1>2, <2>1, <2>2, <2>3
<1>4. Section' = IF Header(l) THEN l.name ELSE Section
  <2>1. Section = (IF S(n + 1) = {} THEN "" ELSE file[Max(S(n + 1))].name)
    BY DEF Section, SectionAt, n
  <2>2. Section' = (IF S1(n + 2) = {} THEN "" ELSE file'[Max(S1(n + 2))].name)
    <3>1. Len(file') + 1 = n + 2
      BY <1>1
    <3>2. Section' = (IF S1(Len(file') + 1) = {} THEN "" ELSE file'[Max(S1(Len(file') + 1))].name)
      BY DEF Section, SectionAt
    <3> QED
      BY <3>1, <3>2
  <2>3. S1(n + 2) = S(n + 1) \cup (IF Header(l) THEN {n + 1} ELSE {})
    <3>1. S1(n + 1) = S(n + 1)
      BY <1>1, <1>2
    <3>2. (n + 1) - 1 = n /\ (n + 2) - 1 = n + 1 /\ 1 .. n + 1 = (1 .. n) \cup {n + 1}
      BY <1>1
    <3>3. S1(n + 2) = S1(n + 1) \cup (IF Header(l) THEN {n + 1} ELSE {})
      BY <1>1, <3>2 DEF Header
    <3> QED
      BY <3>1, <3>3
  <2>4. S(n + 1) \in SUBSET (1 .. n)
    BY <1>1, <1>2
  <2>5. CASE Header(l)
    <3>1. Max(S1(n + 2)) = n + 1 /\ S1(n + 2) # {}
      <4> HIDE DEF S, S1
      <4> QED
        BY <1>1, <2>3, <2>4, <2>5, MaxNext
    <3> QED
      BY <1>1, <2>2, <2>5, <3>1
  <2>6. CASE ~ Header(l)
    <3>1. S1(n + 2) = S(n + 1)
      BY <2>3, <2>6
    <3>2. S(n + 1) # {} => Max(S(n + 1)) \in 1 .. n
      BY <1>1, <2>4, MaxIs
    <3> QED
      BY <1>1, <2>1, <2>2, <2>6, <3>1, <3>2
  <2> QED
    BY <2>5, <2>6
<1> QED
  BY <1>3, <1>4 DEF n
-------------------------------------------------------------------------------
(* Groups.                                                                 *)

Fields == {"prefix", "weight", "mode"}

\* A sequence over a set is one over a larger set.
LEMMA SeqMono ==
  ASSUME NEW A, NEW B, A \subseteq B, NEW q \in Seq(A)
  PROVE  q \in Seq(B)
<1>1. q \in [1 .. Len(q) -> B] /\ Len(q) \in Nat
  OBVIOUS
<1> QED
  BY <1>1

\* A field is set to what the line says, whatever the group was.
LEMMA AssignEffect ==
  ASSUME NEW l \in Lines, l.kind = "group", NEW g \in Policy
  PROVE  /\ Assign(g, l.field, l.val) \in Policy
         /\ \A f \in Fields :
              Assign(g, l.field, l.val)[f] = IF f = l.field THEN Assign(GroupPolicy, f, l.val)[f] ELSE g[f]
<1> DEFINE v == l.val
<1>1. Text(v) \in Seq(Pieces)
  <2>1. v.is = "path" => v.p \in Seq(STRING)
    BY ConfigAssumption DEF ConfigAssumption
  <2>2. STRING \subseteq Pieces /\ "?" \in Pieces /\ "#" \in Pieces
    BY DEF Pieces
  <2>3. v.is = "path" => v.p \in Seq(Pieces)
    <3> HIDE DEF v
    <3> QED
      BY <2>1, <2>2, SeqMono
  <2>4. <<"?">> \in Seq(Pieces)
    BY <2>2
  <2>5. v.is = "path" => Append(v.p, "#") \in Seq(Pieces)
    BY <2>2, <2>3
  <2> QED
    BY <2>3, <2>4, <2>5 DEF Text
<1>2. v.n \in Weights /\ 10 \in Weights
  BY DEF Weights
<1> HIDE DEF v
<1>3. CASE l.field = "prefix"
  <2>1. Assign(g, l.field, v) = [g EXCEPT !.prefix = Text(v)]
    BY <1>3 DEF Assign
  <2>2. Assign(GroupPolicy, "prefix", v) = [GroupPolicy EXCEPT !.prefix = Text(v)]
    BY DEF Assign
  <2> QED
    BY <1>1, <1>3, <2>1, <2>2 DEF Policy, Fields, GroupPolicy, v
<1>4. CASE l.field = "weight"
  <2> DEFINE w == IF IsNumber(v) THEN v.n ELSE 10
  <2>1. Assign(g, l.field, v) = [g EXCEPT !.weight = w]
    BY <1>4 DEF Assign
  <2>2. Assign(GroupPolicy, "weight", v) = [GroupPolicy EXCEPT !.weight = w]
    BY DEF Assign
  <2>3. w \in Weights
    BY <1>2
  <2> HIDE DEF w
  <2> QED
    BY <1>4, <2>1, <2>2, <2>3 DEF Policy, Fields, GroupPolicy, v
<1>5. CASE l.field = "mode"
  <2> DEFINE m == IF Word(v, {"cold"}) THEN 1 ELSE 0
  <2>1. Assign(g, l.field, v) = [g EXCEPT !.mode = m]
    BY <1>5 DEF Assign
  <2>2. Assign(GroupPolicy, "mode", v) = [GroupPolicy EXCEPT !.mode = m]
    BY DEF Assign
  <2>3. m \in {0, 1}
    OBVIOUS
  <2> HIDE DEF m
  <2> QED
    BY <1>5, <2>1, <2>2, <2>3 DEF Policy, Fields, GroupPolicy, v
<1>6. CASE l.field \notin Fields
  <2>1. Assign(g, l.field, v) = g
    BY <1>6 DEF Assign, Fields
  <2> QED
    BY <1>6, <2>1 DEF v
<1> QED
  BY <1>3, <1>4, <1>5, <1>6 DEF Fields

\* resize keeps the groups there are.
LEMMA ResizedEffect ==
  ASSUME groups \in Seq(Policy), NEW n \in Nat
  PROVE  /\ Resized(n) \in Seq(Policy) /\ Len(groups) \in Nat
         /\ Len(Resized(n)) \in Nat /\ Len(Resized(n)) >= n /\ Len(Resized(n)) >= Len(groups)
         /\ \A i \in 1 .. Len(groups) : Resized(n)[i] = groups[i]
<1> DEFINE m == Max({n, Len(groups)})
<1>1. Len(groups) \in Nat
  OBVIOUS
<1>2. m \in Nat /\ m >= n /\ m >= Len(groups)
  BY <1>1, MaxOfTwo
<1>3. Resized(n) = [i \in 1 .. m |-> IF i <= Len(groups) THEN groups[i] ELSE GroupPolicy]
  BY DEF Resized
<1>4. GroupPolicy \in Policy
  BY DEF GroupPolicy, Policy, Weights
<1> HIDE DEF m
<1>5. ASSUME NEW i \in 1 .. m
      PROVE  (IF i <= Len(groups) THEN groups[i] ELSE GroupPolicy) \in Policy
  BY <1>1, <1>2, <1>4
<1>6. Resized(n) \in [1 .. m -> Policy]
  BY <1>3, <1>5
<1>7. Resized(n) \in Seq(Policy) /\ Len(Resized(n)) = m
  BY <1>2, <1>6
<1>8. \A i \in 1 .. Len(groups) : Resized(n)[i] = groups[i]
  BY <1>1, <1>2, <1>3
<1> QED
  BY <1>1, <1>2, <1>7, <1>8

\* A line about group j changes no other group, and of j one field.
LEMMA GroupLineEffect ==
  ASSUME groups \in Seq(Policy), NEW l \in Lines, GroupLine(l)
  PROVE  /\ groups' \in Seq(Policy)
         /\ Index(l) \in Nat /\ Index(l) < Len(groups') /\ Len(groups) <= Len(groups')
         /\ Len(groups) \in Nat /\ Len(groups') \in Nat
         /\ \A i \in 1 .. Len(groups) : i # Index(l) + 1 => groups'[i] = groups[i]
         /\ \A f \in Fields : f # l.field /\ Index(l) < Len(groups) =>
               groups'[Index(l) + 1][f] = groups[Index(l) + 1][f]
         /\ l.field \in Fields =>
              groups'[Index(l) + 1][l.field] = Assign(GroupPolicy, l.field, l.val)[l.field]
<1> DEFINE j == Index(l)
           R == Resized(j + 1)
<1>1. j \in Nat /\ l.kind = "group"
  BY ConfigAssumption DEF ConfigAssumption, GroupLine, Index, IsNumber
<1>2. groups' = [R EXCEPT ![j + 1] = Assign(@, l.field, l.val)]
  BY DEF GroupLine
<1> HIDE DEF j
<1>3. /\ R \in Seq(Policy) /\ Len(groups) \in Nat
      /\ Len(R) \in Nat /\ Len(R) >= j + 1 /\ Len(R) >= Len(groups)
      /\ \A i \in 1 .. Len(groups) : R[i] = groups[i]
  <2>1. /\ R \in Seq(Policy) /\ Len(groups) \in Nat
        /\ Len(R) \in Nat /\ Len(R) >= j + 1 /\ Len(R) >= Len(groups)
    <3>1. j + 1 \in Nat
      BY <1>1
    <3> HIDE DEF R
    <3> QED
      BY <3>1, ResizedEffect DEF R
  <2>2. \A i \in 1 .. Len(groups) : R[i] = groups[i]
    <3>1. j + 1 \in Nat
      BY <1>1
    <3> QED
      BY <3>1, ResizedEffect
  <2> QED
    BY <2>1, <2>2
<1> HIDE DEF R
<1>4. j + 1 \in 1 .. Len(R)
  BY <1>1, <1>3
<1> DEFINE a == Assign(R[j + 1], l.field, l.val)
<1>5. /\ a \in Policy
      /\ \A f \in Fields : a[f] = IF f = l.field THEN Assign(GroupPolicy, f, l.val)[f] ELSE R[j + 1][f]
  <2>1. R[j + 1] \in Policy
    BY <1>3, <1>4
  <2> QED
    BY <1>1, <2>1, AssignEffect
<1>6. groups' = [R EXCEPT ![j + 1] = a]
  BY <1>2
<1> HIDE DEF a
<1>7. /\ groups' \in Seq(Policy) /\ Len(groups') = Len(R) /\ groups'[j + 1] = a
      /\ \A i \in 1 .. Len(R) : i # j + 1 => groups'[i] = R[i]
  BY <1>3, <1>4, <1>5, <1>6
<1>8. \A i \in 1 .. Len(groups) : i \in 1 .. Len(R)
  BY <1>3
<1>9. j < Len(groups) => R[j + 1] = groups[j + 1]
  <2>1. j < Len(groups) => j + 1 \in 1 .. Len(groups)
    BY <1>1, <1>3
  <2> QED
    BY <1>3, <2>1
<1> QED
  BY <1>1, <1>3, <1>5, <1>7, <1>8, <1>9 DEF j
-------------------------------------------------------------------------------
(* The parser.                                                             *)

\* The parser is in the section that the file says.
InSection == section = Section

ConfigInv == ConfigTypes /\ InSection /\ SettingsLastWins /\ GroupsLastWins

LEMMA ConfigStart == ConfigInit => ConfigInv
<1> SUFFICES ASSUME ConfigInit PROVE ConfigInv
  OBVIOUS
<1>1. /\ file = << >> /\ groups = << >> /\ cfg = Defaults /\ section = ""
  BY DEF ConfigInit
<1>2. Len(file) = 0 /\ DOMAIN file = {}
  <2>1. Len(<< >>) = 0 /\ DOMAIN << >> = {}
    OBVIOUS
  <2> QED
    BY <1>1, <2>1
<1>3. cfg = [k \in Keys |-> cfg[k]]
  BY <1>1 DEF Defaults, Keys, KeySection
<1>4. ConfigTypes
  <2>1. << >> \in Seq(Lines) /\ << >> \in Seq(Policy)
    OBVIOUS
  <2> QED
    BY <1>1, <1>3, <2>1 DEF ConfigTypes
<1>5. InSection
  <2>1. {j \in 1 .. (Len(file) + 1) - 1 : file[j].kind = "section" /\ ~ file[j].note} = {}
    BY <1>2
  <2> QED
    BY <1>1, <2>1 DEF InSection, Section, SectionAt
<1>6. SettingsLastWins
  BY <1>1, <1>2 DEF SettingsLastWins
<1>7. GroupsLastWins
  BY <1>1, <1>2 DEF GroupsLastWins, About
<1> QED
  BY <1>4, <1>5, <1>6, <1>7 DEF ConfigInv

\* The lines that give key k its value.
Sets(k) == {i \in DOMAIN file : /\ file[i].kind = "set" /\ file[i].key = k
                                /\ SectionAt(i) = KeySection[k]
                                /\ Readable(k, file[i].val)}

\* One line more: it is the last word on the key, or none.
LEMMA SetsNext ==
  ASSUME ConfigTypes, InSection, NEW l \in Lines, Reads(l), NEW k \in Keys
  PROVE  /\ Len(file) \in Nat /\ Sets(k) \in SUBSET (1 .. Len(file))
         /\ file'[Len(file) + 1] = l
         /\ \A i \in 1 .. Len(file) : file'[i] = file[i]
         /\ Sets(k)' = Sets(k) \cup (IF l.kind = "set" /\ l.key = k /\ section = KeySection[k] /\ Readable(k, l.val)
                                    THEN {Len(file) + 1} ELSE {})
<1>0. PICK n \in Nat : n = Len(file)
  BY DEF ConfigTypes
<1> DEFINE P(i) == /\ file[i].kind = "set" /\ file[i].key = k
                   /\ SectionAt(i) = KeySection[k] /\ Readable(k, file[i].val)
           P1(i) == /\ file'[i].kind = "set" /\ file'[i].key = k
                    /\ SectionAt(i)' = KeySection[k] /\ Readable(k, file'[i].val)
<1>1. /\ n \in Nat /\ DOMAIN file = 1 .. n /\ DOMAIN file' = 1 .. n + 1 /\ file'[n + 1] = l
      /\ \A i \in 1 .. n : file'[i] = file[i]
  BY <1>0, NextLine DEF ConfigTypes
<1>2. /\ \A i \in 1 .. n + 1 : SectionAt(i)' = SectionAt(i)
      /\ SectionAt(n + 1) = section
  BY <1>0, SectionsStay DEF ConfigTypes, InSection, Section
<1>3. Sets(k) = {i \in 1 .. n : P(i)}
  BY <1>1 DEF Sets
<1>4. Sets(k)' = {i \in 1 .. n + 1 : P1(i)}
  BY <1>1 DEF Sets
<1>5. \A i \in 1 .. n : P1(i) <=> P(i)
  <2>1. \A i \in 1 .. n : i \in 1 .. n + 1
    BY <1>1
  <2> QED
    BY <1>1, <1>2, <2>1
<1>6. P1(n + 1) <=> l.kind = "set" /\ l.key = k /\ section = KeySection[k] /\ Readable(k, l.val)
  <2>1. n + 1 \in 1 .. n + 1
    BY <1>1
  <2> QED
    BY <1>1, <1>2, <2>1
<1>7. 1 .. n + 1 = (1 .. n) \cup {n + 1}
  BY <1>1
<1> HIDE DEF P, P1
<1>8. Sets(k)' = Sets(k) \cup (IF P1(n + 1) THEN {n + 1} ELSE {})
  BY <1>3, <1>4, <1>5, <1>7
<1> QED
  BY <1>0, <1>1, <1>3, <1>6, <1>8

LEMMA SettingsNext ==
  ASSUME ConfigTypes, InSection, SettingsLastWins, NEW l \in Lines, Reads(l),
         \/ l.kind = "set" /\ cfg' = IF section = KeySection[l.key]
                                     THEN [cfg EXCEPT ![l.key] = parse(l.key, l.val, @)] ELSE cfg
         \/ l.kind # "set" /\ cfg' = cfg
  PROVE  SettingsLastWins'
<1> DEFINE Value(c, S, f, k) == c[k] = IF S = {} THEN Defaults[k] ELSE Meaning(k, f[Max(S)].val)
<1> SUFFICES ASSUME NEW k \in Keys
             PROVE  Value(cfg', Sets(k)', file', k)
  BY DEF SettingsLastWins, Sets
<1>1. Value(cfg, Sets(k), file, k)
  BY DEF SettingsLastWins, Sets
<1> DEFINE n == Len(file)
           Here == l.kind = "set" /\ l.key = k /\ section = KeySection[k] /\ Readable(k, l.val)
<1>2. /\ n \in Nat /\ Sets(k) \in SUBSET (1 .. n) /\ file'[n + 1] = l
      /\ \A i \in 1 .. n : file'[i] = file[i]
      /\ Sets(k)' = Sets(k) \cup (IF Here THEN {n + 1} ELSE {})
  BY SetsNext
<1> HIDE DEF n
<1>3. CASE Here
  <2>1. Max(Sets(k)') = n + 1 /\ Sets(k)' # {}
    BY <1>2, <1>3, MaxNext
  <2>2. cfg'[k] = Meaning(k, l.val)
    <3>1. cfg' = [cfg EXCEPT ![k] = parse(k, l.val, @)] /\ cfg = [x \in Keys |-> cfg[x]]
      BY <1>3 DEF ConfigTypes
    <3>2. parse(k, l.val, cfg[k]) = Meaning(k, l.val)
      BY <1>3 DEF parse
    <3> QED
      BY <3>1, <3>2
  <2> QED
    BY <1>2, <2>1, <2>2
<1>4. CASE ~ Here
  <2>1. Sets(k)' = Sets(k)
    BY <1>2, <1>4
  <2>2. cfg'[k] = cfg[k]
    <3>1. CASE l.kind = "set" /\ section = KeySection[l.key]
      <4>1. cfg' = [cfg EXCEPT ![l.key] = parse(l.key, l.val, @)] /\ cfg = [x \in Keys |-> cfg[x]]
        BY <3>1 DEF ConfigTypes
      <4>2. l.key = k => parse(l.key, l.val, cfg[k]) = cfg[k]
        BY <1>4, <3>1 DEF parse
      <4> QED
        BY <4>1, <4>2
    <3> QED
      BY <3>1
  <2>3. Sets(k) # {} => Max(Sets(k)) \in 1 .. n
    BY <1>2, MaxIs
  <2>4. Sets(k) # {} => file'[Max(Sets(k))] = file[Max(Sets(k))]
    BY <1>2, <2>3
  <2> QED
    BY <1>1, <2>1, <2>2, <2>4
<1> QED
  BY <1>3, <1>4

\* One line more about a group.
LEMMA AboutNext ==
  ASSUME ConfigTypes, InSection, NEW l \in Lines, Reads(l), NEW j, NEW f
  PROVE  /\ Len(file) \in Nat /\ About(j, f) \in SUBSET (1 .. Len(file))
         /\ file'[Len(file) + 1] = l
         /\ \A i \in 1 .. Len(file) : file'[i] = file[i]
         /\ About(j, f)' = About(j, f)
              \cup (IF l.kind = "group" /\ Index(l) = j /\ l.field = f /\ section = "groups"
                   THEN {Len(file) + 1} ELSE {})
<1>0. PICK n \in Nat : n = Len(file)
  BY DEF ConfigTypes
<1> DEFINE P(i) == /\ file[i].kind = "group" /\ Index(file[i]) = j /\ file[i].field = f
                   /\ SectionAt(i) = "groups"
           P1(i) == /\ file'[i].kind = "group" /\ Index(file'[i]) = j /\ file'[i].field = f
                    /\ SectionAt(i)' = "groups"
<1>1. /\ DOMAIN file = 1 .. n /\ DOMAIN file' = 1 .. n + 1 /\ file'[n + 1] = l
      /\ \A i \in 1 .. n : file'[i] = file[i]
  BY <1>0, NextLine DEF ConfigTypes
<1>2. /\ \A i \in 1 .. n + 1 : SectionAt(i)' = SectionAt(i)
      /\ SectionAt(n + 1) = section
  BY <1>0, SectionsStay DEF ConfigTypes, InSection, Section
<1>3. About(j, f) = {i \in 1 .. n : P(i)}
  BY <1>1 DEF About
<1>4. About(j, f)' = {i \in 1 .. n + 1 : P1(i)}
  BY <1>1 DEF About
<1>5. \A i \in 1 .. n : P1(i) <=> P(i)
  <2>1. \A i \in 1 .. n : i \in 1 .. n + 1
    OBVIOUS
  <2> QED
    BY <1>1, <1>2, <2>1
<1>6. P1(n + 1) <=> l.kind = "group" /\ Index(l) = j /\ l.field = f /\ section = "groups"
  <2>1. n + 1 \in 1 .. n + 1
    OBVIOUS
  <2> QED
    BY <1>1, <1>2, <2>1
<1>7. 1 .. n + 1 = (1 .. n) \cup {n + 1}
  OBVIOUS
<1> HIDE DEF P, P1
<1>8. About(j, f)' = About(j, f) \cup (IF P1(n + 1) THEN {n + 1} ELSE {})
  BY <1>3, <1>4, <1>5, <1>7
<1> QED
  BY <1>0, <1>1, <1>3, <1>6, <1>8

\* What GroupsLastWins says of a group and a field.
LastWord(j, f) ==
  About(j, f) # {} => /\ j < Len(groups)
                      /\ groups[j + 1][f] = Assign(GroupPolicy, f, file[Max(About(j, f))].val)[f]

\* A line that leaves a field alone, and adds nothing about it.
LEMMA LastWordStays ==
  ASSUME ConfigTypes, InSection, NEW l \in Lines, Reads(l), NEW j \in Nat, NEW f, LastWord(j, f),
         About(j, f)' = About(j, f),
         j < Len(groups) => j < Len(groups') /\ groups'[j + 1][f] = groups[j + 1][f]
  PROVE  LastWord(j, f)'
<1>1. /\ Len(file) \in Nat /\ About(j, f) \in SUBSET (1 .. Len(file))
      /\ \A i \in 1 .. Len(file) : file'[i] = file[i]
  BY AboutNext
<1>2. About(j, f) # {} => Max(About(j, f)) \in 1 .. Len(file)
  BY <1>1, MaxIs
<1>3. About(j, f) # {} => file'[Max(About(j, f))] = file[Max(About(j, f))]
  BY <1>1, <1>2
<1> SUFFICES ASSUME About(j, f)' # {}
             PROVE  /\ j < Len(groups')
                    /\ groups'[j + 1][f] = Assign(GroupPolicy, f, file'[Max(About(j, f)')].val)[f]
  BY DEF LastWord
<1>4. j < Len(groups) /\ groups[j + 1][f] = Assign(GroupPolicy, f, file[Max(About(j, f))].val)[f]
  BY DEF LastWord
<1> QED
  BY <1>3, <1>4

LEMMA GroupsNext ==
  ASSUME ConfigTypes, InSection, GroupsLastWins, NEW l \in Lines, Reads(l),
         \/ GroupLine(l)
         \/ (l.kind # "group" \/ section # "groups") /\ groups' = groups
         \/ status' # "reading"
  PROVE  GroupsLastWins'
<1> SUFFICES ASSUME status' = "reading", NEW j \in 0 .. MaxGroups - 1, NEW f \in Fields
             PROVE  LastWord(j, f)'
  BY ConfigAssumption DEF GroupsLastWins, LastWord, Fields, ConfigAssumption
<1>1. LastWord(j, f) /\ j \in Nat
  BY ConfigAssumption DEF GroupsLastWins, LastWord, Fields, Reads, ConfigAssumption
<1>2. /\ Len(file) \in Nat /\ About(j, f) \in SUBSET (1 .. Len(file))
      /\ file'[Len(file) + 1] = l
      /\ About(j, f)' = About(j, f)
           \cup (IF l.kind = "group" /\ Index(l) = j /\ l.field = f /\ section = "groups"
                THEN {Len(file) + 1} ELSE {})
  BY AboutNext
<1>3. CASE ~ GroupLine(l)
  <2>1. About(j, f)' = About(j, f) /\ groups' = groups
    BY <1>2, <1>3
  <2> QED
    BY <1>1, <2>1, LastWordStays
<1>4. CASE GroupLine(l)
  <2>1. l.kind = "group" /\ section = "groups" /\ groups \in Seq(Policy)
    BY <1>4 DEF GroupLine, ConfigTypes
  <2>2. /\ Index(l) \in Nat /\ Index(l) < Len(groups') /\ Len(groups) <= Len(groups')
        /\ Len(groups) \in Nat /\ Len(groups') \in Nat
        /\ \A i \in 1 .. Len(groups) : i # Index(l) + 1 => groups'[i] = groups[i]
        /\ f # l.field /\ Index(l) < Len(groups) => groups'[Index(l) + 1][f] = groups[Index(l) + 1][f]
        /\ f = l.field => groups'[Index(l) + 1][f] = Assign(GroupPolicy, f, l.val)[f]
    BY <1>4, <2>1, GroupLineEffect
  <2>3. CASE Index(l) # j
    <3>1. About(j, f)' = About(j, f)
      BY <1>2, <2>3
    <3>2. j < Len(groups) => j + 1 \in 1 .. Len(groups) /\ j + 1 # Index(l) + 1 /\ j < Len(groups')
      BY <1>1, <2>2, <2>3
    <3> QED
      BY <1>1, <2>2, <3>1, <3>2, LastWordStays
  <2>4. CASE Index(l) = j /\ f # l.field
    <3>1. About(j, f)' = About(j, f)
      BY <1>2, <2>4
    <3> QED
      BY <1>1, <2>2, <2>4, <3>1, LastWordStays
  <2>5. CASE Index(l) = j /\ f = l.field
    <3>1. About(j, f)' = About(j, f) \cup {Len(file) + 1}
      BY <1>2, <2>1, <2>5
    <3>2. Max(About(j, f)') = Len(file) + 1
      BY <1>2, <3>1, MaxNext
    <3>3. j < Len(groups') /\ groups'[j + 1][f] = Assign(GroupPolicy, f, l.val)[f]
      BY <2>2, <2>5
    <3>4. file'[Max(About(j, f)')] = l
      BY <1>2, <3>2
    <3> QED
      BY <3>3, <3>4 DEF LastWord
  <2> QED
    BY <2>3, <2>4, <2>5
<1> QED
  BY <1>3, <1>4

LEMMA ConfigStep == ConfigInv /\ [ConfigNext]_cvars => ConfigInv'
<1> SUFFICES ASSUME ConfigInv, [ConfigNext]_cvars PROVE ConfigInv'
  OBVIOUS
<1>0. ConfigTypes /\ InSection /\ SettingsLastWins /\ GroupsLastWins
  BY DEF ConfigInv
<1>1. CASE UNCHANGED cvars
  <2>1. UNCHANGED <<section, cfg, groups, status, file>>
    BY <1>1 DEF cvars
  <2>2. ConfigTypes' /\ InSection'
    BY <1>0, <2>1 DEF ConfigTypes, InSection, Section, SectionAt
  <2>3. \A i : SectionAt(i)' = SectionAt(i)
    BY <2>1 DEF SectionAt
  <2>4. SettingsLastWins'
    <3> SUFFICES ASSUME NEW k \in Keys
                 PROVE  cfg'[k] = IF Sets(k)' = {} THEN Defaults[k]
                                  ELSE Meaning(k, file'[Max(Sets(k)')].val)
      BY DEF SettingsLastWins, Sets
    <3>1. cfg[k] = IF Sets(k) = {} THEN Defaults[k] ELSE Meaning(k, file[Max(Sets(k))].val)
      BY <1>0 DEF SettingsLastWins, Sets
    <3>2. Sets(k)' = Sets(k)
      BY <2>1, <2>3 DEF Sets
    <3> QED
      BY <2>1, <3>1, <3>2
  <2>5. GroupsLastWins'
    <3>1. \A n, f : About(n, f)' = About(n, f)
      BY <2>1, <2>3 DEF About
    <3> QED
      BY <1>0, <2>1, <3>1 DEF GroupsLastWins
  <2> QED
    BY <2>2, <2>4, <2>5 DEF ConfigInv
<1>2. CASE ConfigNext
  <2>1. PICK l \in Lines :
          SectionLine(l) \/ SettingLine(l) \/ GroupLine(l) \/ GroupTooFar(l) \/ OtherLine(l)
    BY <1>2 DEF ConfigNext
  <2>2. Reads(l)
    BY <2>1 DEF SectionLine, SettingLine, GroupLine, GroupTooFar, OtherLine
  <2>3. \/ l.kind = "set" /\ cfg' = IF section = KeySection[l.key]
                                      THEN [cfg EXCEPT ![l.key] = parse(l.key, l.val, @)] ELSE cfg
        \/ l.kind # "set" /\ cfg' = cfg
    BY <2>1 DEF SectionLine, SettingLine, GroupLine, GroupTooFar, OtherLine, Header
  <2>4. \/ GroupLine(l)
        \/ (l.kind # "group" \/ section # "groups") /\ groups' = groups
        \/ status' # "reading" /\ (groups' = groups \/ groups' = << >>)
    BY <2>1 DEF SectionLine, SettingLine, GroupTooFar, OtherLine, Header
  <2>5. section' = IF Header(l) THEN l.name ELSE section
    BY <2>1 DEF SectionLine, SettingLine, GroupLine, GroupTooFar, OtherLine, Header
  <2>6. ConfigTypes'
    <3>1. file' \in Seq(Lines)
      BY <1>0, <2>2, NextLine DEF ConfigTypes
    <3>2. groups' \in Seq(Policy)
      <4>1. << >> \in Seq(Policy)
        OBVIOUS
      <4> QED
        BY <1>0, <2>4, <4>1, GroupLineEffect DEF ConfigTypes
    <3>3. cfg' = [k \in Keys |-> cfg'[k]]
      <4>1. cfg = [k \in Keys |-> cfg[k]]
        BY <1>0 DEF ConfigTypes
      <4> QED
        BY <2>3, <4>1
    <3> QED
      BY <3>1, <3>2, <3>3 DEF ConfigTypes
  <2>7. InSection'
    BY <1>0, <2>2, <2>5, SectionsStay DEF ConfigTypes, InSection
  <2>8. SettingsLastWins'
    BY <1>0, <2>2, <2>3, SettingsNext
  <2>9. GroupsLastWins'
    BY <1>0, <2>2, <2>4, GroupsNext
  <2> QED
    BY <2>6, <2>7, <2>8, <2>9 DEF ConfigInv
<1> QED
  BY <1>1, <1>2
-------------------------------------------------------------------------------
(* Theorems.                                                               *)

\* Whatever the file, a setting is what the last line says that assigns it in its section
\* and can be read.
THEOREM ConfigSettingsLastWins == ConfigSpec => []SettingsLastWins
<1>1. ConfigInv => SettingsLastWins
  BY DEF ConfigInv
<1> QED
  BY <1>1, ConfigStart, ConfigStep, PTL DEF ConfigSpec

\* Whatever the file, a group is the last words on its fields, in any order of the indices.
THEOREM ConfigGroupsLastWins == ConfigSpec => []GroupsLastWins
<1>1. ConfigInv => GroupsLastWins
  BY DEF ConfigInv
<1> QED
  BY <1>1, ConfigStart, ConfigStep, PTL DEF ConfigSpec

\* For any groups and any cgroup, the loops of mode_for and weight_for end with a group
\* whose prefix is the longest that matches, if there is one.
THEOREM ConfigLongestPrefixWins == ConfigSpec => []LongestPrefixWins
<1>1. ConfigInv => LongestPrefixWins
  <2> SUFFICES ASSUME ConfigInv, NEW path \in Paths
               PROVE  LET M == {i \in DOMAIN groups : IsPrefix(groups[i].prefix, path)}
                      IN  IF M = {}
                          THEN /\ mode_for(path) = (IF cfg.default_mode = "cold" THEN 1 ELSE 0)
                               /\ weight_for(path) = 10
                          ELSE \E i \in M : /\ \A j \in M : Len(groups[j].prefix) <= Len(groups[i].prefix)
                                            /\ mode_for(path) = groups[i].mode
                                            /\ weight_for(path) = groups[i].weight
    BY DEF LongestPrefixWins
  <2> DEFINE M == Matching(path, Len(groups))
             b == BestGroup(path)
  <2>1. groups \in Seq(Policy)
    BY DEF ConfigInv, ConfigTypes
  <2>2. b \in 0 .. Len(groups) /\ Chosen(path, Len(groups), b)
    BY <2>1, LoopFinds
  <2>3. M = {i \in DOMAIN groups : IsPrefix(groups[i].prefix, path)}
    BY <2>1 DEF Matching
  <2> HIDE DEF M, b
  <2>4. CASE b = 0
    <3>1. M = {}
      BY <2>2, <2>4 DEF Chosen, M
    <3>2. /\ mode_for(path) = (IF cfg.default_mode = "cold" THEN 1 ELSE 0)
          /\ weight_for(path) = 10
      BY <2>4 DEF mode_for, weight_for, b
    <3> QED
      BY <2>3, <3>1, <3>2
  <2>5. CASE b # 0
    <3>1. b \in M /\ \A j \in M : Len(groups[j].prefix) <= Len(groups[b].prefix)
      BY <2>2, <2>5 DEF Chosen, M
    <3>2. mode_for(path) = groups[b].mode /\ weight_for(path) = groups[b].weight
      BY <2>5 DEF mode_for, weight_for, b
    <3> QED
      BY <2>3, <3>1, <3>2
  <2> QED
    BY <2>4, <2>5
<1> QED
  BY <1>1, ConfigStart, ConfigStep, PTL DEF ConfigSpec
===============================================================================
