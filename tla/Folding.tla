------------------------------- MODULE Folding ------------------------------
(***************************************************************************)
(* Induction on the naturals, and what it gives for a recursive function   *)
(* and for FoldLeft of a given operator.  A module that defines by         *)
(* recursion instantiates this one with its step and its base.             *)
(***************************************************************************)
EXTENDS Integers, Sequences, SequencesExt, WellFoundedInduction, TLAPS

CONSTANTS
    op(_, _), \* the step: what has been computed, and the next element
    base

(* Induction, stated with a set instead of a predicate. *)
LEMMA SetInduction ==
    ASSUME NEW S, 0 \in S, \A n \in Nat : n \in S => n + 1 \in S
    PROVE  Nat \subseteq S
<1> DEFINE less == OpToRel(<, Nat)
           T == Nat \ S
<1> SUFFICES ASSUME T # {} PROVE FALSE
  OBVIOUS
<1>1. PICK m \in T : \A y \in T : <<y, m>> \notin less
  <2>1. T \in SUBSET Nat
    OBVIOUS
  <2> HIDE DEF less, T
  <2> QED BY <2>1, WFMin, NatLessThanWellFounded DEF less
<1>2. m # 0 /\ m \in Nat
  OBVIOUS
<1>3. m - 1 \in Nat /\ m - 1 + 1 = m
  BY <1>2
<1>4. m - 1 \in T
  BY <1>2, <1>3
<1>5. <<m - 1, m>> \in less
  BY <1>2, <1>3 DEF OpToRel
<1> QED BY <1>1, <1>4, <1>5

----------------------------------------------------------------------------
(* A function on the naturals defined by recursion *)

Recurses(f, D) == f = [n \in D |-> IF n = 0 THEN base ELSE op(f[n - 1], n)]

LEMMA RecursesUniquely ==
    ASSUME NEW m \in Nat, NEW f, NEW g, NEW C, NEW D, 0..m \subseteq C, 0..m \subseteq D,
           Recurses(f, C), Recurses(g, D)
    PROVE  f[m] = g[m]
<1> DEFINE S == {n \in Nat : n <= m => f[n] = g[n]}
<1>1. 0 \in S
  <2>1. 0 \in C /\ 0 \in D
    OBVIOUS
  <2>2. f[0] = base /\ g[0] = base
    BY <2>1 DEF Recurses
  <2> QED BY <2>2
<1>2. ASSUME NEW n \in Nat, n \in S PROVE n + 1 \in S
  <2> SUFFICES ASSUME n + 1 <= m PROVE f[n + 1] = g[n + 1]
    OBVIOUS
  <2>1. n + 1 \in C /\ n + 1 \in D /\ n + 1 # 0 /\ n + 1 - 1 = n
    OBVIOUS
  <2>2. f[n + 1] = op(f[n], n + 1) /\ g[n + 1] = op(g[n], n + 1)
    BY <2>1 DEF Recurses
  <2>3. f[n] = g[n]
    BY <1>2
  <2> QED BY <2>2, <2>3
<1>3. Nat \subseteq S
  <2> HIDE DEF S
  <2> QED BY <1>1, <1>2, SetInduction
<1> QED BY <1>3

LEMMA RecursesUpTo ==
    ASSUME NEW m \in Nat PROVE \E f : Recurses(f, 0..m)
<1> DEFINE S == {n \in Nat : \E f : Recurses(f, 0..n)}
<1>1. 0 \in S
  <2>1. Recurses([n \in 0..0 |-> base], 0..0)
    BY DEF Recurses
  <2> QED BY <2>1
<1>2. ASSUME NEW n \in Nat, n \in S PROVE n + 1 \in S
  <2>1. PICK f : Recurses(f, 0..n)
    BY <1>2
  <2> DEFINE g == [i \in 0..n + 1 |-> IF i = n + 1 THEN op(f[n], n + 1) ELSE f[i]]
  <2>2. ASSUME NEW i \in 0..n + 1 PROVE g[i] = IF i = 0 THEN base ELSE op(g[i - 1], i)
    <3>1. CASE i = n + 1
      <4>1. n \in 0..n + 1 /\ n # n + 1 /\ i - 1 = n /\ i # 0
        BY <3>1
      <4> QED BY <3>1, <4>1
    <3>2. CASE i # n + 1
      <4>1. i \in 0..n /\ (i # 0 => i - 1 \in 0..n)
        BY <3>2
      <4>2. f[i] = IF i = 0 THEN base ELSE op(f[i - 1], i)
        BY <2>1, <4>1 DEF Recurses
      <4>3. g[i] = f[i] /\ (i # 0 => g[i - 1] = f[i - 1])
        BY <3>2, <4>1
      <4> HIDE DEF g
      <4> QED BY <4>2, <4>3
    <3> QED BY <3>1, <3>2
  <2>3. g = [i \in 0..n + 1 |-> g[i]]
    OBVIOUS
  <2>4. Recurses(g, 0..n + 1)
    <3> HIDE DEF g
    <3> QED BY <2>2, <2>3 DEF Recurses
  <2> QED BY <2>4
<1>3. Nat \subseteq S
  <2> HIDE DEF S
  <2> QED BY <1>1, <1>2, SetInduction
<1> QED BY <1>3

(* The recursion has a solution, so that the function defined by it is one. *)
LEMMA RecursesOnNat == \E f : Recurses(f, Nat)
<1> DEFINE part(n) == CHOOSE f : Recurses(f, 0..n)
           f == [n \in Nat |-> part(n)[n]]
<1>1. \A n \in Nat : Recurses(part(n), 0..n)
  BY RecursesUpTo
<1>2. ASSUME NEW n \in Nat PROVE f[n] = IF n = 0 THEN base ELSE op(f[n - 1], n)
  <2>1. Recurses(part(n), 0..n) /\ n \in 0..n
    BY <1>1
  <2> HIDE DEF part
  <2>2. part(n)[n] = IF n = 0 THEN base ELSE op(part(n)[n - 1], n)
    BY <2>1 DEF Recurses
  <2>3. ASSUME n # 0 PROVE part(n)[n - 1] = part(n - 1)[n - 1]
    <3>1. n - 1 \in Nat /\ 0..n - 1 \subseteq 0..n
      BY <2>3
    <3>2. Recurses(part(n - 1), 0..n - 1)
      BY <1>1, <3>1
    <3> QED BY <2>1, <3>1, <3>2, RecursesUniquely
  <2>4. n # 0 => f[n - 1] = part(n - 1)[n - 1]
    OBVIOUS
  <2> QED BY <2>2, <2>3, <2>4
<1>3. f = [n \in Nat |-> f[n]]
  OBVIOUS
<1>4. Recurses(f, Nat)
  <2> HIDE DEF f
  <2> QED BY <1>2, <1>3 DEF Recurses
<1> QED BY <1>4

----------------------------------------------------------------------------
(* FoldLeft *)

(* The function on sets of indices that FoldLeft applies. *)
FoldsBy(it, seq, D) ==
    it = [s \in SUBSET D |-> IF s = {} THEN base ELSE op(it[s \ {Max(s)}], seq[Max(s)])]

LEMMA MaxIs ==
    ASSUME NEW s, NEW m \in s, s \subseteq Nat, \A x \in s : x <= m PROVE Max(s) = m
<1>1. \A x \in s : m >= x
  OBVIOUS
<1>2. \A k \in s : (\A x \in s : k >= x) => k = m
  OBVIOUS
<1> QED BY <1>1, <1>2 DEF Max

LEMMA FoldsOn ==
    ASSUME NEW seq, NEW m \in Nat PROVE \E it : FoldsBy(it, seq, 1..m)
<1> DEFINE S == {n \in Nat : \E it : FoldsBy(it, seq, 1..n)}
<1>1. 0 \in S
  <2>1. SUBSET (1..0) = {{}}
    OBVIOUS
  <2>2. FoldsBy([s \in SUBSET (1..0) |-> base], seq, 1..0)
    BY <2>1 DEF FoldsBy
  <2> QED BY <2>2
<1>2. ASSUME NEW n \in Nat, n \in S PROVE n + 1 \in S
  <2>1. PICK it : FoldsBy(it, seq, 1..n)
    BY <1>2
  <2> DEFINE more == [s \in SUBSET (1..n + 1) |->
                         IF n + 1 \in s THEN op(it[s \ {n + 1}], seq[n + 1]) ELSE it[s]]
  <2>2. ASSUME NEW s \in SUBSET (1..n + 1)
        PROVE  more[s] = IF s = {} THEN base ELSE op(more[s \ {Max(s)}], seq[Max(s)])
    <3>1. CASE n + 1 \in s
      <4>1. Max(s) = n + 1
        <5>1. s \subseteq Nat /\ \A x \in s : x <= n + 1
          OBVIOUS
        <5> QED BY <3>1, <5>1, MaxIs
      <4>2. more[s \ {n + 1}] = it[s \ {n + 1}]
        OBVIOUS
      <4>3. more[s] = op(it[s \ {n + 1}], seq[n + 1])
        BY <3>1
      <4> HIDE DEF more
      <4> QED BY <3>1, <4>1, <4>2, <4>3
    <3>2. CASE n + 1 \notin s
      <4>1. s \in SUBSET (1..n)
        BY <3>2
      <4>2. it[s] = IF s = {} THEN base ELSE op(it[s \ {Max(s)}], seq[Max(s)])
        BY <2>1, <4>1, Zenon DEF FoldsBy
      <4>3. more[s] = it[s] /\ more[s \ {Max(s)}] = it[s \ {Max(s)}]
        BY <3>2
      <4> HIDE DEF more
      <4> QED BY <4>2, <4>3
    <3> QED BY <3>1, <3>2
  <2>3. more = [s \in SUBSET (1..n + 1) |-> more[s]]
    OBVIOUS
  <2>4. FoldsBy(more, seq, 1..n + 1)
    <3> HIDE DEF more
    <3> QED BY <2>2, <2>3, Zenon DEF FoldsBy
  <2> QED BY <2>4
<1>3. Nat \subseteq S
  <2> HIDE DEF S
  <2> QED BY <1>1, <1>2, SetInduction
<1> QED BY <1>3

(* A fold from the left is the last of a chain of steps. *)
LEMMA FoldSteps ==
    ASSUME NEW T, NEW seq \in Seq(T)
    PROVE  \E g : /\ g[0] = base
                  /\ \A i \in 1..Len(seq) : g[i] = op(g[i - 1], seq[i])
                  /\ FoldLeft(op, base, seq) = g[Len(seq)]
<1> DEFINE D == 1..Len(seq)
           it == CHOOSE it : it = [s \in SUBSET D |->
                     IF s = {} THEN base ELSE op(it[s \ {Max(s)}], seq[Max(s)])]
           g == [i \in 0..Len(seq) |-> it[1..i]]
<1>1. Len(seq) \in Nat /\ DOMAIN seq = D
  OBVIOUS
<1>2. FoldLeft(op, base, seq) = it[D]
  BY <1>1, Zenon DEF FoldLeft, MapThenFoldSet
<1>3. FoldsBy(it, seq, D)
  BY <1>1, FoldsOn DEF FoldsBy
<1> HIDE DEF it
<1>4. it[{}] = base
  BY <1>3 DEF FoldsBy
<1>5. g[0] = base
  <2>1. 1..0 = {} /\ 0 \in 0..Len(seq)
    BY <1>1
  <2> QED BY <1>4, <2>1
<1>6. ASSUME NEW i \in D PROVE g[i] = op(g[i - 1], seq[i])
  <2>1. /\ i \in 1..i /\ 1..i \subseteq Nat /\ (\A x \in 1..i : x <= i)
        /\ (1..i) \ {i} = 1..i - 1 /\ 1..i \in SUBSET D /\ i \in 0..Len(seq) /\ i - 1 \in 0..Len(seq)
    BY <1>1
  <2>2. Max(1..i) = i
    BY <2>1, MaxIs
  <2>3. it[1..i] = IF 1..i = {} THEN base ELSE op(it[(1..i) \ {Max(1..i)}], seq[Max(1..i)])
    BY <1>3, <2>1, Zenon DEF FoldsBy
  <2>4. it[1..i] = op(it[1..i - 1], seq[i])
    BY <2>1, <2>2, <2>3
  <2> QED BY <2>1, <2>4
<1>7. g[Len(seq)] = it[D]
  BY <1>1
<1> HIDE DEF g
<1> QED BY <1>2, <1>5, <1>6, <1>7
=============================================================================
