---------------------------- MODULE PollerProofs ----------------------------
(***************************************************************************)
(* Proofs about the store and about the poller, for every stream of        *)
(* updates, every set of configurations and any number of crashes,         *)
(* failures and late requests.  The lemmas are about single transactions   *)
(* and steps, so that the modules that compose the two can cite them.      *)
(***************************************************************************)
EXTENDS Poller, FiniteSetTheorems, WellFoundedInduction, TLAPS

(* A bounded set of naturals that is not empty has its maximum in it. *)
LEMMA MaxOfBounded ==
    ASSUME NEW n \in Nat, NEW S, S \subseteq 0..n, S # {}
    PROVE  Max(S) \in S /\ \A x \in S : x <= Max(S)
<1> DEFINE T == {m \in Nat : \A x \in S : x <= m}
           less == OpToRel(<, Nat)
<1>1. T \subseteq Nat /\ T # {}
  <2>1. n \in T
    OBVIOUS
  <2> QED BY <2>1
<1>2. PICK m \in T : \A y \in T : <<y, m>> \notin less
  <2> HIDE DEF T
  <2> QED BY <1>1, WFMin, NatLessThanWellFounded
<1>3. \A y \in T : m <= y
  <2>1. \A y, z \in Nat : y < z => <<y, z>> \in less
    BY DEF OpToRel
  <2> SUFFICES ASSUME NEW y \in T PROVE ~(y < m)
    OBVIOUS
  <2>2. m \in Nat /\ y \in Nat
    OBVIOUS
  <2>3. <<y, m>> \notin less
    BY <1>2
  <2> HIDE DEF T, less
  <2> QED BY <2>1, <2>2, <2>3
<1>4. m \in S
  <2> SUFFICES ASSUME m \notin S PROVE FALSE
    OBVIOUS
  <2>1. \A x \in S : x < m
    OBVIOUS
  <2>2. PICK x \in S : x \in 0..n /\ x < m
    BY <2>1
  <2>3. m - 1 \in Nat
    BY <2>2
  <2>4. m - 1 \in T
    BY <2>1, <2>3
  <2> QED BY <1>3, <2>4
<1>5. \A x \in S : m >= x
  OBVIOUS
<1>6. Max(S) \in S /\ \A x \in S : Max(S) >= x
  BY <1>4, <1>5 DEF Max
<1> QED BY <1>6

(* A set of naturals that is not empty has its minimum in it. *)
LEMMA MinOfBounded ==
    ASSUME NEW S, S \subseteq Nat, S # {}
    PROVE  Min(S) \in S /\ \A x \in S : Min(S) <= x
<1> DEFINE less == OpToRel(<, Nat)
<1>1. PICK m \in S : \A y \in S : <<y, m>> \notin less
  BY WFMin, NatLessThanWellFounded
<1>2. \A y \in S : m <= y
  <2>1. \A y, z \in Nat : y < z => <<y, z>> \in less
    BY DEF OpToRel
  <2> SUFFICES ASSUME NEW y \in S PROVE ~(y < m)
    OBVIOUS
  <2>2. m \in Nat /\ y \in Nat
    OBVIOUS
  <2>3. <<y, m>> \notin less
    BY <1>1
  <2> HIDE DEF less
  <2> QED BY <2>1, <2>2, <2>3
<1> QED BY <1>2 DEF Min

(* The maximum of two naturals. *)
LEMMA MaxOfTwo ==
    ASSUME NEW a \in Int, NEW b \in Int
    PROVE  Max({a, b}) \in {a, b} /\ a <= Max({a, b}) /\ b <= Max({a, b})
<1>1. \E x \in {a, b} : \A y \in {a, b} : x >= y
  OBVIOUS
<1> QED BY <1>1 DEF Max

(* ORDER BY ... LIMIT n returns a prefix: with an element, it returns all  *)
(* smaller ones.                                                           *)
LEMMA FirstNIsPrefix ==
    ASSUME MaxId \in Nat, NEW S \in SUBSET UpdateId, NEW n \in Nat,
           NEW v \in FirstN(S, n), NEW u \in S, u < v
    PROVE  u \in FirstN(S, n)
<1> DEFINE below(w) == {x \in S : x < w}
<1>1. IsFiniteSet(UpdateId)
  BY FS_Interval DEF UpdateId
<1>2. IsFiniteSet(S)
  BY <1>1, FS_Subset
<1>3. IsFiniteSet(below(v))
  BY <1>2, FS_Subset
<1>4. below(u) \subseteq below(v)
  <2>1. v \in S
    BY DEF FirstN
  <2>2. \A x \in S : x \in Int
    BY DEF UpdateId
  <2> QED BY <2>1, <2>2
<1>5. IsFiniteSet(below(u)) /\ Cardinality(below(u)) <= Cardinality(below(v))
  <2> HIDE DEF below
  <2> QED BY <1>3, <1>4, FS_Subset
<1>6. Cardinality(below(u)) \in Nat /\ Cardinality(below(v)) \in Nat
  BY <1>3, <1>5, FS_CardinalityType
<1>7. Cardinality(below(v)) < n
  BY DEF FirstN
<1>8. Cardinality(below(u)) < n
  <2> HIDE DEF below
  <2> QED BY <1>5, <1>6, <1>7
<1> QED BY <1>8 DEF FirstN

(* A page is empty only when there is nothing to return. *)
LEMMA FirstNOfSome ==
    ASSUME MaxId \in Nat, NEW S \in SUBSET UpdateId, S # {}, NEW n \in Nat \ {0}
    PROVE  FirstN(S, n) # {}
<1>0. S \subseteq Nat
  BY DEF UpdateId
<1>1. Min(S) \in S /\ \A x \in S : Min(S) <= x
  BY <1>0, MinOfBounded
<1>2. {v \in S : v < Min(S)} = {}
  <2>1. \A v \in S : v \in Int
    BY DEF UpdateId
  <2> QED BY <1>1, <2>1
<1>3. Cardinality({v \in S : v < Min(S)}) < n
  BY <1>2, FS_EmptySet
<1> QED BY <1>1, <1>3 DEF FirstN

(* LIMIT n returns n rows, or all there are. *)
LEMMA FirstNSize ==
    ASSUME MaxId \in Nat, NEW S \in SUBSET UpdateId, NEW n \in Nat
    PROVE  /\ IsFiniteSet(FirstN(S, n)) /\ Cardinality(FirstN(S, n)) \in Nat
           /\ Cardinality(FirstN(S, n)) <= n
           /\ FirstN(S, n) = S \/ Cardinality(FirstN(S, n)) = n
<1> DEFINE below(u) == {v \in S : v < u}
           F == FirstN(S, n)
<1>1. IsFiniteSet(S) /\ S \subseteq Nat /\ S \subseteq 0..MaxId
  <2>1. IsFiniteSet(S)
    <3>1. IsFiniteSet(0..MaxId) /\ S \subseteq 0..MaxId
      BY FS_Interval DEF UpdateId
    <3> QED BY <3>1, FS_Subset
  <2>2. S \subseteq 0..MaxId
    BY DEF UpdateId
  <2>3. \A x \in 0..MaxId : x \in Nat
    OBVIOUS
  <2> QED BY <2>1, <2>2, <2>3
<1>2. ASSUME NEW u PROVE IsFiniteSet(below(u)) /\ Cardinality(below(u)) \in Nat
  BY <1>1, FS_Subset, FS_CardinalityType
<1>3. F \subseteq S /\ \A u \in S : u \in F <=> Cardinality(below(u)) < n
  BY DEF FirstN
<1> HIDE DEF F
<1>4. IsFiniteSet(F) /\ Cardinality(F) \in Nat
  BY <1>1, <1>3, FS_Subset, FS_CardinalityType
<1>5. Cardinality(F) <= n
  <2>1. CASE F = {}
    BY <2>1, FS_EmptySet
  <2>2. CASE F # {}
    <3>1. Max(F) \in F /\ \A x \in F : x <= Max(F)
      BY <1>1, <1>3, <2>2, MaxOfBounded
    <3> DEFINE m == Max(F)
               B == below(m)
    <3>2. m \in S /\ Cardinality(B) < n
      BY <1>3, <3>1
    <3>3. F \subseteq B \cup {m}
      <4> SUFFICES ASSUME NEW x \in F, x # m PROVE x \in B
        OBVIOUS
      <4>1. x \in S /\ x \in Nat /\ m \in Nat /\ x <= m
        BY <1>1, <1>3, <3>1
      <4> HIDE DEF m
      <4> QED BY <4>1
    <3>4. IsFiniteSet(B) /\ Cardinality(B) \in Nat
      BY <1>2
    <3> HIDE DEF B, m
    <3>5. IsFiniteSet(B \cup {m}) /\ Cardinality(B \cup {m}) <= Cardinality(B) + 1
      BY <3>4, FS_AddElement
    <3>6. Cardinality(F) <= Cardinality(B \cup {m}) /\ Cardinality(B \cup {m}) \in Nat
      BY <3>3, <3>5, FS_Subset, FS_CardinalityType
    <3> QED BY <1>4, <3>2, <3>4, <3>5, <3>6
  <2> QED BY <2>1, <2>2
<1>6. ASSUME F # S PROVE Cardinality(F) >= n
  <2> DEFINE R == S \ F
  <2>1. R # {} /\ R \subseteq Nat
    BY <1>1, <1>3, <1>6
  <2>2. Min(R) \in R /\ \A x \in R : Min(R) <= x
    <3> HIDE DEF R
    <3> QED BY <2>1, MinOfBounded
  <2> DEFINE m == Min(R)
             B == below(m)
  <2>3. m \in S /\ ~(Cardinality(B) < n)
    BY <1>3, <2>2
  <2>4. B \subseteq F
    <3> SUFFICES ASSUME NEW x \in S, x < m, x \notin F PROVE FALSE
      OBVIOUS
    <3>1. x \in Nat /\ m \in Nat /\ m <= x
      BY <1>1, <2>2, <2>3
    <3> HIDE DEF m
    <3> QED BY <3>1
  <2>5. Cardinality(B) \in Nat
    BY <1>2
  <2> HIDE DEF B, m
  <2>6. Cardinality(B) <= Cardinality(F)
    BY <1>4, <2>4, FS_Subset
  <2> QED BY <1>4, <2>3, <2>5, <2>6
<1>7. F = S \/ Cardinality(F) = n
  BY <1>4, <1>5, <1>6
<1> QED BY <1>4, <1>5, <1>7 DEF F

(* So does the same query in descending order. *)
LEMMA LastNSize ==
    ASSUME MaxId \in Nat, NEW S \in SUBSET UpdateId, NEW n \in Nat
    PROVE  /\ IsFiniteSet(LastN(S, n)) /\ Cardinality(LastN(S, n)) \in Nat
           /\ Cardinality(LastN(S, n)) <= n
           /\ LastN(S, n) = S \/ Cardinality(LastN(S, n)) = n
<1> DEFINE above(u) == {v \in S : v > u}
           F == LastN(S, n)
<1>1. IsFiniteSet(S) /\ S \subseteq Nat /\ S \subseteq 0..MaxId
  <2>1. IsFiniteSet(S)
    <3>1. IsFiniteSet(0..MaxId) /\ S \subseteq 0..MaxId
      BY FS_Interval DEF UpdateId
    <3> QED BY <3>1, FS_Subset
  <2>2. S \subseteq 0..MaxId
    BY DEF UpdateId
  <2>3. \A x \in 0..MaxId : x \in Nat
    OBVIOUS
  <2> QED BY <2>1, <2>2, <2>3
<1>2. ASSUME NEW u PROVE IsFiniteSet(above(u)) /\ Cardinality(above(u)) \in Nat
  BY <1>1, FS_Subset, FS_CardinalityType
<1>3. F \subseteq S /\ \A u \in S : u \in F <=> Cardinality(above(u)) < n
  BY DEF LastN
<1> HIDE DEF F
<1>4. IsFiniteSet(F) /\ Cardinality(F) \in Nat
  BY <1>1, <1>3, FS_Subset, FS_CardinalityType
<1>5. Cardinality(F) <= n
  <2>1. CASE F = {}
    BY <2>1, FS_EmptySet
  <2>2. CASE F # {}
    <3> DEFINE m == Min(F)
               A == above(m)
    <3>1. m \in F /\ \A x \in F : m <= x
      BY <1>1, <1>3, <2>2, MinOfBounded
    <3>2. m \in S /\ Cardinality(A) < n
      BY <1>3, <3>1
    <3>3. F \subseteq A \cup {m}
      <4> SUFFICES ASSUME NEW x \in F, x # m PROVE x \in A
        OBVIOUS
      <4>1. x \in S /\ x \in Nat /\ m \in Nat /\ m <= x
        BY <1>1, <1>3, <3>1
      <4> HIDE DEF m
      <4> QED BY <4>1
    <3>4. IsFiniteSet(A) /\ Cardinality(A) \in Nat
      BY <1>2
    <3> HIDE DEF A, m
    <3>5. IsFiniteSet(A \cup {m}) /\ Cardinality(A \cup {m}) <= Cardinality(A) + 1
      BY <3>4, FS_AddElement
    <3>6. Cardinality(F) <= Cardinality(A \cup {m}) /\ Cardinality(A \cup {m}) \in Nat
      BY <3>3, <3>5, FS_Subset, FS_CardinalityType
    <3> QED BY <1>4, <3>2, <3>4, <3>5, <3>6
  <2> QED BY <2>1, <2>2
<1>6. ASSUME F # S PROVE Cardinality(F) >= n
  <2> DEFINE R == S \ F
             m == Max(R)
             A == above(m)
  <2>1. R # {} /\ R \subseteq 0..MaxId
    BY <1>1, <1>3, <1>6
  <2>2. m \in R /\ \A x \in R : x <= m
    <3> HIDE DEF R
    <3> QED BY <2>1, MaxOfBounded
  <2>3. m \in S /\ ~(Cardinality(A) < n)
    BY <1>3, <2>2
  <2>4. A \subseteq F
    <3> SUFFICES ASSUME NEW x \in S, x > m, x \notin F PROVE FALSE
      OBVIOUS
    <3>1. x \in Nat /\ m \in Nat /\ x <= m
      BY <1>1, <2>2, <2>3
    <3> HIDE DEF m
    <3> QED BY <3>1
  <2>5. Cardinality(A) \in Nat
    BY <1>2
  <2> HIDE DEF A, m
  <2>6. Cardinality(A) <= Cardinality(F)
    BY <1>4, <2>4, FS_Subset
  <2> QED BY <1>4, <2>3, <2>5, <2>6
<1>7. F = S \/ Cardinality(F) = n
  BY <1>4, <1>5, <1>6
<1> QED BY <1>4, <1>5, <1>7 DEF F

(* The last n updates are those from the least of them on. *)
LEMMA LastNIsSuffix ==
    ASSUME MaxId \in Nat, NEW S \in SUBSET UpdateId, S # {}, NEW n \in Nat \ {0}
    PROVE  /\ LastN(S, n) # {} /\ Min(LastN(S, n)) \in S
           /\ {u \in S : u >= Min(LastN(S, n))} = LastN(S, n)
<1> DEFINE above(u) == {v \in S : v > u}
           F == LastN(S, n)
           m == Min(F)
<1>1. F # {} /\ F \subseteq S /\ S \subseteq Nat
  <2>1. F # {}
    BY LastNSize, FS_EmptySet
  <2> QED BY <2>1 DEF LastN, UpdateId
<1>2. m \in F /\ \A x \in F : m <= x
  <2> HIDE DEF F
  <2> QED BY <1>1, MinOfBounded
<1>3. ASSUME NEW u \in S, u >= m PROVE u \in F
  <2>1. above(u) \subseteq above(m)
    <3> SUFFICES ASSUME NEW x \in S, x > u PROVE x > m
      OBVIOUS
    <3>1. u \in Nat /\ m \in Nat /\ x \in Nat /\ u >= m
      BY <1>1, <1>2, <1>3
    <3> HIDE DEF m
    <3> QED BY <3>1
  <2>2. IsFiniteSet(above(m)) /\ Cardinality(above(m)) \in Nat /\ Cardinality(above(u)) \in Nat
    <3>1. IsFiniteSet(0..MaxId)
      BY FS_Interval
    <3>2. above(u) \in SUBSET (0..MaxId) /\ above(m) \in SUBSET (0..MaxId)
      BY DEF UpdateId
    <3> QED BY <3>1, <3>2, FS_Subset, FS_CardinalityType
  <2>3. Cardinality(above(m)) < n
    BY <1>2 DEF LastN
  <2> HIDE DEF above
  <2>4. Cardinality(above(u)) <= Cardinality(above(m))
    BY <2>1, <2>2, FS_Subset
  <2>5. Cardinality(above(u)) < n
    BY <2>2, <2>3, <2>4
  <2> QED BY <2>5 DEF LastN, above
<1>4. \A u \in F : u \in S /\ u >= m
  <2>1. \A u \in F : u \in S /\ u \in Nat
    BY <1>1
  <2>2. m \in Nat
    BY <1>1, <1>2
  <2> HIDE DEF F, m
  <2> QED BY <1>2, <2>1, <2>2
<1> HIDE DEF F, m
<1>5. {u \in S : u >= m} = F /\ m \in S
  BY <1>1, <1>2, <1>3, <1>4
<1> QED BY <1>1, <1>5 DEF F, m

----------------------------------------------------------------------------
(* The transactions, one by one *)

(* The offset an ingest stores is above every update of the batch and not  *)
(* below the one it replaces, and is one of these.                         *)
LEMMA RaiseOffsetMax ==
    ASSUME MaxId \in Nat, upstreamOffset \in UpdateId,
           NEW news \in SUBSET UpdateId, CanIncrement(news)
    PROVE  /\ RaiseOffset(news) \in UpdateId
           /\ RaiseOffset(news) >= upstreamOffset
           /\ \A u \in news : RaiseOffset(news) > u
           /\ RaiseOffset(news) = upstreamOffset \/ \E u \in news : RaiseOffset(news) = u + 1
<1> DEFINE S == {upstreamOffset} \cup {u + 1 : u \in news}
<1>1. S \subseteq 0..MaxId /\ S # {}
  BY DEF UpdateId, CanIncrement
<1>2. Max(S) \in S /\ \A x \in S : x <= Max(S)
  <2> HIDE DEF S
  <2> QED BY <1>1, MaxOfBounded
<1>3. Max(S) \in 0..MaxId
  BY <1>1, <1>2
<1>4. \A u \in news : u \in Int /\ u + 1 <= Max(S)
  BY <1>2 DEF UpdateId
<1>5. RaiseOffset(news) = Max(S)
  BY DEF RaiseOffset
<1> HIDE DEF S
<1>6. Max(S) = upstreamOffset \/ \E u \in news : Max(S) = u + 1
  BY <1>2 DEF S
<1>7. upstreamOffset <= Max(S)
  BY <1>2 DEF S
<1> QED BY <1>3, <1>4, <1>5, <1>6, <1>7 DEF UpdateId

(* Every update that has a row lies at or below the highest one. *)
LEMMA HighestRowIsHighest ==
    ASSUME MaxId \in Nat, updates \subseteq UpdateId
    PROVE  /\ HighestRow \in UpdateId
           /\ updates # {} => HighestRow \in updates
<1>1. CASE updates = {}
  BY <1>1 DEF HighestRow, UpdateId
<1>2. CASE updates # {}
  <2>1. Max(updates) \in updates
    BY <1>2, MaxOfBounded DEF UpdateId
  <2> QED BY <1>2, <2>1 DEF HighestRow
<1> QED BY <1>1, <1>2

(* A committed batch keeps the tables well typed and consistent. *)
LEMMA IngestKeeps ==
    ASSUME StoreTypeOK, StoreInv, NEW news \in SUBSET UpdateId, IngestCommits(news)
    PROVE  StoreTypeOK' /\ StoreInv'
<1> USE StoreAssumption
<1>1. /\ RaiseOffset(news) \in UpdateId
      /\ RaiseOffset(news) >= upstreamOffset
      /\ \A u \in news : RaiseOffset(news) > u
  BY RaiseOffsetMax DEF StoreTypeOK, IngestCommits
<1>2. /\ updates' = updates \cup news
      /\ ingested' = ingested \cup news
      /\ upstreamOffset' = RaiseOffset(news)
      /\ deliveries' = deliveries \cup RoutedBy(news)
      /\ UNCHANGED <<cfg, clients, ackOffset>>
  BY DEF IngestCommits
<1>3. \A d \in RoutedBy(news) :
         /\ d \in Client \X UpdateId
         /\ d[1] \in clients
         /\ d[2] \in news
  BY DEF RoutedBy, IngestCommits, RoutesExist
<1>4. StoreTypeOK'
  BY <1>1, <1>2, <1>3 DEF StoreTypeOK
<1>5. Referential'
  BY <1>2, <1>3 DEF StoreInv, Referential
<1>6. WindowRetained'
  <2>1. \A u \in ingested' : u < upstreamOffset'
    BY <1>1, <1>2 DEF StoreInv, WindowRetained, StoreTypeOK, UpdateId
  <2>2. \A u \in ingested' : u + SafetyWindow >= upstreamOffset' => u \in updates'
    BY <1>1, <1>2 DEF StoreInv, WindowRetained, StoreTypeOK, UpdateId
  <2> QED BY <1>2, <2>1, <2>2 DEF StoreInv, WindowRetained
<1> QED BY <1>4, <1>5, <1>6 DEF StoreInv

(* What an acknowledgment removes: rows without deliveries, older than the *)
(* safety window, and therefore no delivery but the acknowledged ones.     *)
LEMMA AcknowledgeRemoves ==
    ASSUME StoreTypeOK, StoreInv, NEW c \in Client, NEW off \in UpdateId, Acknowledge(c, off)
    PROVE  /\ deliveries' = {d \in deliveries : d[1] # c \/ d[2] >= off}
           /\ updates' \subseteq updates
           /\ \A u \in updates \ updates' : u + SafetyWindow < upstreamOffset
           /\ \A d \in deliveries' : d[2] \in updates'
<1> DEFINE left == {d \in deliveries : d[1] # c \/ d[2] >= off}
<1> USE StoreAssumption
<1>1. /\ deliveries' = {d \in left : d[2] \notin Prunable(left)}
      /\ updates' = updates \ Prunable(left)
  BY DEF Acknowledge, Unacknowledged
<1>2. \A d \in left : d[2] \notin Prunable(left)
  <2> SUFFICES ASSUME NEW d \in left PROVE ~(\A e \in Client : <<e, d[2]>> \notin left)
    BY DEF Prunable
  <2>1. d[1] \in Client /\ d = <<d[1], d[2]>>
    BY DEF StoreTypeOK
  <2> HIDE DEF left
  <2> QED BY <2>1
<1>3. \A u \in Prunable(left) : u + SafetyWindow < upstreamOffset
  <2> SUFFICES ASSUME NEW u \in updates, u <= HighestRow - SafetyWindow
               PROVE  u + SafetyWindow < upstreamOffset
    BY DEF Prunable
  <2>1. HighestRow \in updates /\ HighestRow \in UpdateId
    BY HighestRowIsHighest DEF StoreTypeOK
  <2>2. HighestRow < upstreamOffset
    BY <2>1 DEF StoreInv, WindowRetained
  <2>3. u \in UpdateId /\ upstreamOffset \in UpdateId
    BY DEF StoreTypeOK
  <2> QED BY <2>1, <2>2, <2>3 DEF UpdateId
<1>4. deliveries' = left
  BY <1>1, <1>2
<1>5. \A d \in deliveries' : d[2] \in updates'
  BY <1>1, <1>2, <1>4 DEF StoreInv, Referential
<1> QED BY <1>1, <1>3, <1>4, <1>5

(* An acknowledgment keeps the tables well typed and consistent. *)
LEMMA AcknowledgeKeeps ==
    ASSUME StoreTypeOK, StoreInv, NEW c \in Client, NEW off \in UpdateId, Acknowledge(c, off)
    PROVE  /\ StoreTypeOK' /\ StoreInv'
           /\ \A e \in Client : \/ ackOffset'[e] = ackOffset[e]
                                \/ e = c /\ c \in clients /\ ackOffset'[c] \in {ackOffset[c], off}
           /\ c \in clients => off <= ackOffset'[c]
<1> USE StoreAssumption
<1>1. /\ deliveries' \subseteq deliveries
      /\ updates' \subseteq updates
      /\ \A u \in updates \ updates' : u + SafetyWindow < upstreamOffset
      /\ \A d \in deliveries' : d[2] \in updates'
  BY AcknowledgeRemoves
<1>2. UNCHANGED <<cfg, clients, upstreamOffset, ingested>>
  BY DEF Acknowledge
<1>3. /\ Max({ackOffset[c], off}) \in {ackOffset[c], off}
      /\ off <= Max({ackOffset[c], off})
  <2>1. ackOffset[c] \in Int /\ off \in Int
    BY DEF StoreTypeOK, UpdateId
  <2> QED BY <2>1, MaxOfTwo
<1>4. ackOffset' = [ackOffset EXCEPT ![c] = IF c \in clients THEN Max({@, off}) ELSE @]
  BY DEF Acknowledge
<1>5. ackOffset' \in [Client -> UpdateId]
  BY <1>3, <1>4 DEF StoreTypeOK
<1>6. StoreTypeOK'
  BY <1>1, <1>2, <1>5 DEF StoreTypeOK
<1>7. Referential'
  BY <1>1, <1>2 DEF StoreInv, Referential
<1>8. WindowRetained'
  BY <1>1, <1>2 DEF StoreInv, WindowRetained, StoreTypeOK, UpdateId
<1>9. \A e \in Client : \/ ackOffset'[e] = ackOffset[e]
                        \/ e = c /\ c \in clients /\ ackOffset'[c] \in {ackOffset[c], off}
  BY <1>3, <1>4 DEF StoreTypeOK
<1>10. c \in clients => off <= ackOffset'[c]
  BY <1>3, <1>4 DEF StoreTypeOK
<1> QED BY <1>6, <1>7, <1>8, <1>9, <1>10 DEF StoreInv

(* Reconciling the clients, under a validated configuration, keeps the     *)
(* tables consistent, and so does opening the store.                       *)
LEMMA ReconcileKeeps ==
    ASSUME StoreTypeOK, StoreInv, NEW k \in Configs, Reconcile(k), cfg' \in Configs
    PROVE  StoreTypeOK' /\ StoreInv'
<1>1. k.clients \subseteq Client
  BY StoreAssumption DEF Config
<1>2. /\ clients' = k.clients
      /\ ackOffset' = [c \in Client |-> IF c \in k.clients THEN ackOffset[c] ELSE 0]
      /\ deliveries' = {d \in deliveries : d[1] \in k.clients}
      /\ UNCHANGED <<updates, upstreamOffset, ingested>>
  BY DEF Reconcile
<1>3. StoreTypeOK'
  BY <1>1, <1>2, StoreAssumption DEF StoreTypeOK, UpdateId
<1>4. StoreInv'
  BY <1>2 DEF StoreInv, Referential, WindowRetained
<1> QED BY <1>3, <1>4

(* A new database is consistent. *)
LEMMA StoreInitKeeps == StoreInit => StoreTypeOK /\ StoreInv
<1> SUFFICES ASSUME StoreInit PROVE StoreTypeOK /\ StoreInv
  OBVIOUS
<1>1. cfg.clients \subseteq Client
  BY StoreAssumption DEF StoreInit, Config
<1> QED BY <1>1, StoreAssumption
        DEF StoreInit, StoreTypeOK, StoreInv, Referential, WindowRetained, UpdateId

----------------------------------------------------------------------------
(* The store as a specification of its own *)

(* One step of the store, whatever its environment asks, keeps the         *)
(* invariant.                                                              *)
LEMMA StoreStepKeeps ==
    StoreTypeOK /\ StoreInv /\ [StoreNext]_storeVars => (StoreTypeOK /\ StoreInv)'
<1> SUFFICES ASSUME StoreTypeOK, StoreInv, [StoreNext]_storeVars
             PROVE  (StoreTypeOK /\ StoreInv)'
  OBVIOUS
<1>1. CASE AnyIngest
  BY <1>1, IngestKeeps DEF AnyIngest
<1>2. CASE AnyAcknowledge
  <2>1. cfg.clients \subseteq Client
    BY StoreAssumption DEF StoreTypeOK, Config
  <2> QED BY <1>2, <2>1, AcknowledgeKeeps DEF AnyAcknowledge
<1>3. CASE AnyOpen
  BY <1>3, ReconcileKeeps DEF AnyOpen, Open
<1>4. CASE UNCHANGED storeVars
  BY <1>4 DEF storeVars, StoreTypeOK, StoreInv, Referential, WindowRetained
<1> QED BY <1>1, <1>2, <1>3, <1>4 DEF StoreNext

(* In every reachable state the tables are well typed and consistent.      *)
THEOREM StoreSafe == StoreSpec => [](StoreTypeOK /\ StoreInv)
<1> QED BY StoreInitKeeps, StoreStepKeeps, PTL DEF StoreSpec

(* No column leaves its range; in particular the stored offset, one more   *)
(* than an update id, never overflows (incrementUpdateID).                 *)
THEOREM StoreWellTyped == StoreSpec => []StoreTypeOK
<1> QED BY StoreSafe, PTL

(* An update is routed again only when it is older than the window.        *)
THEOREM RoutedOnce == StoreSpec => RoutedOnceInWindow
<1> DEFINE A == \A d \in deliveries' \ deliveries :
                   d[2] \in ingested => d[2] + SafetyWindow < upstreamOffset
<1>1. StoreTypeOK /\ StoreInv /\ [StoreNext]_storeVars => [A]_storeVars
  <2> SUFFICES ASSUME StoreTypeOK, StoreInv, StoreNext,
                      NEW d \in deliveries' \ deliveries, d[2] \in ingested
               PROVE  d[2] + SafetyWindow < upstreamOffset
    OBVIOUS
  <2>1. CASE AnyIngest
    <3>1. d[2] \notin updates
      BY <2>1 DEF AnyIngest, IngestCommits, RoutedBy
    <3>2. ~(d[2] + SafetyWindow >= upstreamOffset)
      BY <3>1 DEF StoreInv, WindowRetained
    <3>3. d[2] \in UpdateId /\ upstreamOffset \in UpdateId
      BY DEF StoreTypeOK
    <3> QED BY <3>2, <3>3, StoreAssumption DEF UpdateId
  <2>2. CASE AnyAcknowledge
    BY <2>2 DEF AnyAcknowledge, Acknowledge, Unacknowledged
  <2>3. CASE AnyOpen
    BY <2>3 DEF AnyOpen, Open, Reconcile
  <2> QED BY <2>1, <2>2, <2>3 DEF StoreNext
<1> QED BY <1>1, StoreSafe, PTL DEF StoreSpec, RoutedOnceInWindow

(* An acknowledgment takes nothing from another client, and nothing at or  *)
(* above the offset, whatever else is in the tables.                       *)
THEOREM AcksIndependent == StoreSpec => AcksAreIndependent
<1> DEFINE A == \A d, e \in deliveries \ deliveries' :
                   d[1] \in clients' /\ e[1] \in clients'
                   => d[1] = e[1] /\ d[2] < ackOffset'[d[1]]
<1>1. StoreTypeOK /\ StoreInv /\ [StoreNext]_storeVars => [A]_storeVars
  <2> SUFFICES ASSUME StoreTypeOK, StoreInv, StoreNext,
                      NEW d \in deliveries \ deliveries', NEW e \in deliveries \ deliveries',
                      d[1] \in clients', e[1] \in clients'
               PROVE  d[1] = e[1] /\ d[2] < ackOffset'[d[1]]
    OBVIOUS
  <2>1. CASE AnyIngest
    BY <2>1 DEF AnyIngest, IngestCommits
  <2>2. CASE AnyAcknowledge
    <3>1. PICK c \in Client, off \in UpdateId : Acknowledge(c, off)
      BY <2>2, StoreAssumption DEF AnyAcknowledge, StoreTypeOK, Config
    <3>2. deliveries' = {x \in deliveries : x[1] # c \/ x[2] >= off}
      BY <3>1, AcknowledgeRemoves
    <3>3. d[1] = c /\ e[1] = c /\ ~(d[2] >= off)
      BY <3>2
    <3>4. c \in clients
      BY <3>1, <3>3 DEF Acknowledge
    <3>5. off <= ackOffset'[c] /\ ackOffset' \in [Client -> UpdateId]
      BY <3>1, <3>4, AcknowledgeKeeps DEF StoreTypeOK
    <3>6. d[2] \in UpdateId
      BY DEF StoreTypeOK
    <3> QED BY <3>3, <3>5, <3>6, StoreAssumption DEF UpdateId
  <2>3. CASE AnyOpen
    BY <2>3 DEF AnyOpen, Open, Reconcile
  <2> QED BY <2>1, <2>2, <2>3 DEF StoreNext
<1> QED BY <1>1, StoreSafe, PTL DEF StoreSpec, AcksAreIndependent

(* A set of rows that only loses rows leaves no queue longer.              *)
LEMMA FewerRowsFewerPending ==
    ASSUME NEW rows, NEW left \in SUBSET rows, NEW c
    PROVE  /\ Cardinality(PendingIn(rows, c)) \in Nat
           /\ Cardinality(PendingIn(left, c)) \in Nat
           /\ Cardinality(PendingIn(left, c)) <= Cardinality(PendingIn(rows, c))
<1>1. PendingIn(rows, c) \in SUBSET UpdateId /\ PendingIn(left, c) \in SUBSET PendingIn(rows, c)
  BY DEF PendingIn
<1>2. IsFiniteSet(UpdateId)
  BY StoreAssumption, FS_Interval DEF UpdateId
<1>3. IsFiniteSet(PendingIn(rows, c))
  BY <1>1, <1>2, FS_Subset
<1> QED BY <1>1, <1>3, FS_Subset, FS_CardinalityType

(* A queue that grows, grows by an ingest that left it within the limit of *)
(* the configuration that routed to it.                                    *)
LEMMA StepIsBounded ==
    ASSUME StoreTypeOK, [StoreNext]_storeVars, NEW c \in Client,
           Cardinality(Pending(c)') > Cardinality(Pending(c))
    PROVE  Cardinality(Pending(c)') <= cfg.maxPending
<1>1. Pending(c) = PendingIn(deliveries, c) /\ Pending(c)' = PendingIn(deliveries', c)
  BY DEF Pending, PendingIn
<1>2. ~(deliveries' \subseteq deliveries)
  <2> SUFFICES ASSUME deliveries' \in SUBSET deliveries PROVE FALSE
    OBVIOUS
  <2> QED BY <1>1, FewerRowsFewerPending
<1>3. CASE AnyIngest
  <2>1. PICK B \in SUBSET UpdateId : IngestCommits(B)
    BY <1>3 DEF AnyIngest
  <2>2. deliveries' = deliveries \cup RoutedBy(B) /\ BacklogFits(B)
    BY <2>1 DEF IngestCommits
  <2>3. CASE c \in cfg.clients
    BY <1>1, <2>2, <2>3 DEF BacklogFits
  <2>4. CASE c \notin cfg.clients
    <3>1. \A u \in B : cfg.targets[u] \subseteq cfg.clients
      BY <2>1, StoreAssumption DEF StoreTypeOK
    <3>2. PendingIn(RoutedBy(B), c) = {}
      BY <2>4, <3>1 DEF PendingIn, RoutedBy
    <3>3. Pending(c)' = Pending(c)
      BY <1>1, <2>2, <3>2 DEF PendingIn
    <3>4. Cardinality(Pending(c)) \in Nat
      BY <1>1, FewerRowsFewerPending
    <3> QED BY <3>3, <3>4
  <2> QED BY <2>3, <2>4
<1>4. CASE AnyAcknowledge
  BY <1>2, <1>4 DEF AnyAcknowledge, Acknowledge, Unacknowledged
<1>5. CASE AnyOpen
  BY <1>2, <1>5 DEF AnyOpen, Open, Reconcile
<1>6. CASE UNCHANGED storeVars
  BY <1>2, <1>6 DEF storeVars
<1> QED BY <1>3, <1>4, <1>5, <1>6 DEF StoreNext

(* No client's queue outgrows the limit it is filled under. *)
THEOREM BacklogIsBounded == StoreSpec => BacklogBound
<1> DEFINE A == \A c \in Client :
                   Cardinality(Pending(c)') > Cardinality(Pending(c)) =>
                       Cardinality(Pending(c)') <= cfg.maxPending
<1>1. StoreTypeOK /\ [StoreNext]_storeVars => [A]_storeVars
  BY StepIsBounded
<1> QED BY <1>1, StoreSafe, PTL DEF StoreSpec, BacklogBound

(* Both offsets the database keeps only ever rise: that of the bot, and    *)
(* that of a client for as long as it is registered.                       *)
OffsetsRise ==
    [][/\ upstreamOffset <= upstreamOffset'
       /\ \A c \in clients \cap clients' : ackOffset[c] <= ackOffset'[c]]_storeVars

(* No acknowledgment that arrives late, no redelivered batch and no        *)
(* reopening takes an offset back.                                         *)
THEOREM OffsetsOnlyRise == StoreSpec => OffsetsRise
<1> DEFINE A == /\ upstreamOffset <= upstreamOffset'
                /\ \A c \in clients \cap clients' : ackOffset[c] <= ackOffset'[c]
<1>1. StoreTypeOK /\ [StoreNext]_storeVars => [A]_storeVars
  <2> SUFFICES ASSUME StoreTypeOK, StoreNext PROVE A
    OBVIOUS
  <2>1. upstreamOffset <= upstreamOffset /\ \A c \in clients : ackOffset[c] <= ackOffset[c]
    BY StoreAssumption DEF StoreTypeOK, UpdateId
  <2>2. CASE AnyIngest
    <3>1. PICK B \in SUBSET UpdateId : IngestCommits(B)
      BY <2>2 DEF AnyIngest
    <3>2. CanIncrement(B) /\ upstreamOffset' = RaiseOffset(B) /\ ackOffset' = ackOffset
      BY <3>1 DEF IngestCommits
    <3>3. upstreamOffset <= RaiseOffset(B)
      BY <3>2, RaiseOffsetMax, StoreAssumption DEF StoreTypeOK, UpdateId
    <3> QED BY <2>1, <3>2, <3>3
  <2>3. CASE AnyAcknowledge
    <3>1. PICK c \in Client, off \in UpdateId : Acknowledge(c, off)
      BY <2>3, StoreAssumption DEF AnyAcknowledge, StoreTypeOK, Config
    <3>2. /\ ackOffset' = [ackOffset EXCEPT ![c] = IF c \in clients THEN Max({@, off}) ELSE @]
          /\ UNCHANGED <<clients, upstreamOffset>>
      BY <3>1 DEF Acknowledge
    <3>3. ackOffset[c] <= Max({ackOffset[c], off})
      <4>1. ackOffset[c] \in Int /\ off \in Int
        BY StoreAssumption DEF StoreTypeOK, UpdateId
      <4> QED BY <4>1, MaxOfTwo
    <3>4. ackOffset \in [Client -> UpdateId] /\ clients \subseteq Client
      BY DEF StoreTypeOK
    <3> QED BY <2>1, <3>2, <3>3, <3>4
  <2>4. CASE AnyOpen
    <3>1. PICK k \in Configs : Open(k)
      BY <2>4 DEF AnyOpen
    <3>2. /\ upstreamOffset' = upstreamOffset /\ clients' = k.clients
          /\ ackOffset' = [c \in Client |-> IF c \in k.clients THEN ackOffset[c] ELSE 0]
      BY <3>1 DEF Open, Reconcile
    <3>3. clients \subseteq Client
      BY DEF StoreTypeOK
    <3> QED BY <2>1, <3>2, <3>3
  <2> QED BY <2>2, <2>3, <2>4 DEF StoreNext
<1> QED BY <1>1, StoreSafe, PTL DEF StoreSpec, OffsetsRise

(* With the limits of all configurations at most L, no queue ever holds    *)
(* more than L updates, across restarts under other limits too.            *)
THEOREM QueuesBounded ==
    ASSUME NEW L \in Nat, \A k \in Configs : k.maxPending <= L
    PROVE  StoreSpec => [](\A c \in Client : Cardinality(Pending(c)) <= L)
<1> DEFINE B == \A c \in Client : Cardinality(Pending(c)) <= L
<1>1. StoreInit => B
  <2> SUFFICES ASSUME StoreInit, NEW c \in Client PROVE Cardinality(Pending(c)) <= L
    OBVIOUS
  <2>1. Pending(c) = {}
    BY DEF StoreInit, Pending, PendingIn
  <2> QED BY <2>1, FS_EmptySet
<1>2. StoreTypeOK /\ B /\ [StoreNext]_storeVars => B'
  <2> SUFFICES ASSUME StoreTypeOK, B, [StoreNext]_storeVars, NEW c \in Client
               PROVE  Cardinality(Pending(c)') <= L
    BY DEF Pending, PendingIn
  <2>1. /\ Cardinality(Pending(c)) \in Nat /\ Cardinality(Pending(c)') \in Nat
        /\ Cardinality(Pending(c)) <= L
    BY FewerRowsFewerPending DEF Pending, PendingIn
  <2>2. CASE Cardinality(Pending(c)') > Cardinality(Pending(c))
    <3>1. Cardinality(Pending(c)') <= cfg.maxPending
      BY <2>2, StepIsBounded
    <3>2. cfg.maxPending <= L /\ cfg.maxPending \in Nat
      BY StoreAssumption DEF StoreTypeOK, Config
    <3> QED BY <2>1, <3>1, <3>2
  <2>3. CASE ~(Cardinality(Pending(c)') > Cardinality(Pending(c)))
    BY <2>1, <2>3
  <2> QED BY <2>2, <2>3
<1> QED BY <1>1, <1>2, StoreSafe, PTL DEF StoreSpec

(* The table of clients is that of the configuration the process runs      *)
(* under: every route ends at a row.                                       *)
THEOREM RegisteredAreConfigured == StoreSpec => [](clients = cfg.clients)
<1> DEFINE I == clients = cfg.clients
<1>1. StoreInit => I
  BY DEF StoreInit
<1>2. I /\ [StoreNext]_storeVars => I'
  <2> SUFFICES ASSUME I, [StoreNext]_storeVars PROVE I'
    OBVIOUS
  <2>1. CASE AnyIngest
    BY <2>1 DEF AnyIngest, IngestCommits
  <2>2. CASE AnyAcknowledge
    BY <2>2 DEF AnyAcknowledge, Acknowledge
  <2>3. CASE AnyOpen
    BY <2>3 DEF AnyOpen, Open, Reconcile
  <2>4. CASE UNCHANGED storeVars
    BY <2>4 DEF storeVars
  <2> QED BY <2>1, <2>2, <2>3, <2>4 DEF StoreNext
<1> QED BY <1>1, <1>2, PTL DEF StoreSpec

(* An offset of -n keeps exactly the last n updates of its bot, or all of  *)
(* them when there are fewer, however many the bot asks for: no more than  *)
(* a page.                                                                 *)
THEOREM NegativeOffsetIsExact ==
    ASSUME NEW c, Pending(c) # {}, NEW n \in Nat \ {0}
    PROVE  LET kept == {u \in Pending(c) : u >= NegativeOffset(c, n)}
               size == IF n < PageLimit THEN n ELSE PageLimit
           IN  /\ NegativeOffset(c, n) \in Pending(c)
               /\ kept = LastN(Pending(c), size)
               /\ Cardinality(kept) <= size
               /\ kept = Pending(c) \/ Cardinality(kept) = size
<1> DEFINE size == IF n < PageLimit THEN n ELSE PageLimit
<1> USE StoreAssumption
<1>1. Min({n, PageLimit}) = size /\ size \in Nat \ {0}
  <2>1. {n, PageLimit} \subseteq Nat /\ {n, PageLimit} # {}
    OBVIOUS
  <2>2. Min({n, PageLimit}) \in {n, PageLimit} /\ \A x \in {n, PageLimit} : Min({n, PageLimit}) <= x
    BY <2>1, MinOfBounded
  <2> QED BY <2>2
<1>2. Pending(c) \in SUBSET UpdateId
  BY DEF Pending, PendingIn
<1> HIDE DEF size
<1>3. LastN(Pending(c), size) # {}
  BY <1>1, <1>2, LastNIsSuffix
<1>4. NegativeOffset(c, n) = Min(LastN(Pending(c), size))
  <2>1. ~(n < 0)
    OBVIOUS
  <2>2. Min({n, PageLimit}) = size
    BY <1>1
  <2> QED BY <1>3, <2>1, <2>2, Zenon DEF NegativeOffset
<1>5. /\ NegativeOffset(c, n) \in Pending(c)
      /\ {u \in Pending(c) : u >= NegativeOffset(c, n)} = LastN(Pending(c), size)
  BY <1>1, <1>2, <1>4, LastNIsSuffix
<1> QED BY <1>1, <1>2, <1>5, LastNSize DEF size

----------------------------------------------------------------------------
(* The poller *)

(* Between the actions of the store and of the others: what a step that    *)
(* leaves the tables alone keeps.                                          *)
LEMMA StoreUnchanged ==
    ASSUME StoreTypeOK, StoreInv, UNCHANGED storeVars
    PROVE  StoreTypeOK' /\ StoreInv'
BY DEF storeVars, StoreTypeOK, StoreInv, Referential, WindowRetained

(* The offset in memory and the stored one are computed alike. *)
LEMMA NextOffsetIsRaised ==
    ASSUME offset = upstreamOffset
    PROVE  NextOffset(offset, batch) = RaiseOffset(batch)
BY DEF NextOffset, RaiseOffset

(* Telegram's answer to a request for the stored offset is the part of the *)
(* stream that comes next.                                                 *)
LEMMA AnswerIsNext ==
    ASSUME PollerTypeOK, NotAhead, offset = upstreamOffset
    PROVE  /\ Max({confirmed, offset}) = upstreamOffset
           /\ Answer(offset) \subseteq {u \in stream : u >= upstreamOffset}
           /\ \A v \in Answer(offset), u \in stream :
                 upstreamOffset <= u /\ u < v => u \in Answer(offset)
<1> USE StoreAssumption, StreamAssumption
<1>1. Max({confirmed, offset}) = upstreamOffset
  <2>1. confirmed \in Int /\ offset \in Int /\ confirmed <= offset
    BY DEF PollerTypeOK, NotAhead, UpdateId
  <2>2. /\ Max({confirmed, offset}) \in {confirmed, offset}
        /\ offset <= Max({confirmed, offset})
    BY <2>1, MaxOfTwo
  <2> QED BY <2>1, <2>2
<1> DEFINE S == {u \in stream : u >= upstreamOffset}
<1>2. Answer(offset) = FirstN(S, PageLimit)
  BY <1>1 DEF Answer
<1>3. S \in SUBSET UpdateId
  BY DEF PollerTypeOK
<1>4. FirstN(S, PageLimit) \subseteq S
  BY DEF FirstN
<1>5. \A v \in FirstN(S, PageLimit), u \in S : u < v => u \in FirstN(S, PageLimit)
  <2> HIDE DEF S
  <2> QED BY <1>3, FirstNIsPrefix
<1>6. \A u \in stream : upstreamOffset <= u => u \in S
  BY DEF PollerTypeOK, StoreTypeOK, UpdateId
<1> HIDE DEF S
<1>7. \A v \in Answer(offset), u \in stream :
         upstreamOffset <= u /\ u < v => u \in Answer(offset)
  BY <1>2, <1>5, <1>6
<1> QED BY <1>1, <1>2, <1>4, <1>7 DEF S

----------------------------------------------------------------------------
(* One lemma for each step that does more than move the poller on *)

(* The initial state. *)
LEMMA PollerInitKeeps == PollerInit => PollerTypeOK /\ PollerInv
<1> SUFFICES ASSUME PollerInit PROVE PollerTypeOK /\ PollerInv
  OBVIOUS
<1>1. StoreTypeOK /\ StoreInv
  BY StoreInitKeeps DEF PollerInit
<1> QED BY <1>1, StoreAssumption
        DEF PollerInit, StoreInit, PollerTypeOK, PollerState, PollerInv, NothingSkipped,
            NotAhead, BatchIsNext, OffsetInStep, AcksHold, AllParsed, UpdateId

(* An update Telegram receives comes after the stored offset. *)
LEMMA ProduceKeeps ==
    ASSUME PollerTypeOK, PollerInv, Produce PROVE PollerTypeOK' /\ PollerInv'
<1> USE StoreAssumption, StreamAssumption
<1>1. PICK u \in StreamId : (\A v \in stream : v < u) /\ stream' = stream \cup {u}
  BY DEF Produce
<1>2. UNCHANGED <<storeVars, pollerVars, confirmed, sent>>
  BY DEF Produce
<1>3. StoreTypeOK' /\ StoreInv'
  BY <1>2, StoreUnchanged DEF PollerTypeOK, PollerInv
<1>4. PollerTypeOK'
  BY <1>1, <1>2, <1>3 DEF PollerTypeOK, pollerVars
<1>5. u \in UpdateId /\ upstreamOffset \in UpdateId /\ stream \subseteq UpdateId
  BY DEF PollerTypeOK, StoreTypeOK
<1>6. u >= upstreamOffset
  BY <1>1, <1>5 DEF PollerInv, NothingSkipped, UpdateId
<1>7. NothingSkipped'
  BY <1>1, <1>2, <1>5, <1>6 DEF PollerInv, NothingSkipped, storeVars, UpdateId
<1>8. BatchIsNext'
  <2> SUFFICES ASSUME poller = "ingest"
               PROVE  /\ \A v \in batch : v \in stream' /\ v >= upstreamOffset
                      /\ \A v \in batch, w \in stream' :
                            upstreamOffset <= w /\ w < v => w \in batch
    BY <1>2 DEF BatchIsNext, pollerVars, storeVars
  <2>1. \A v \in batch : v \in stream /\ v >= upstreamOffset
    BY DEF PollerInv, BatchIsNext
  <2>2. ASSUME NEW v \in batch PROVE v \in Int /\ v < u
    <3>1. v \in stream
      BY <2>1
    <3> QED BY <1>1, <1>5, <3>1 DEF UpdateId
  <2>3. u \in Int
    BY <1>5 DEF UpdateId
  <2> QED BY <1>1, <2>1, <2>2, <2>3 DEF PollerInv, BatchIsNext
<1>9. NotAhead' /\ OffsetInStep' /\ AcksHold' /\ AllParsed'
  BY <1>2 DEF PollerInv, NotAhead, OffsetInStep, AcksHold, AllParsed, NextOffset,
              storeVars, pollerVars
<1> QED BY <1>3, <1>4, <1>7, <1>8, <1>9 DEF PollerInv

(* A request that reaches Telegram, in time or late, confirms nothing past *)
(* the stored offset.                                                      *)
LEMMA ConfirmKeeps ==
    ASSUME PollerTypeOK, PollerInv, NEW o \in UpdateId, o <= upstreamOffset, Confirm(o)
    PROVE  confirmed' \in UpdateId /\ confirmed' <= upstreamOffset
<1>1. confirmed \in Int /\ o \in Int
  BY DEF PollerTypeOK, UpdateId
<1>2. confirmed' \in {confirmed, o}
  BY <1>1, MaxOfTwo DEF Confirm
<1> QED BY <1>2 DEF PollerInv, NotAhead, PollerTypeOK

(* A committed batch: the database goes on exactly where the stream does.  *)
LEMMA IngestDoneKeeps ==
    ASSUME PollerTypeOK, PollerInv, IngestDone PROVE PollerTypeOK' /\ PollerInv'
<1> USE StoreAssumption, StreamAssumption
<1>1. batch \in SUBSET UpdateId /\ batch # {} /\ IngestCommits(batch)
  BY DEF PollerTypeOK, IngestDone
<1>2. /\ poller = "ingest" /\ poller' = "signal"
      /\ UNCHANGED <<offset, batch, telegramVars>>
  BY DEF IngestDone
<1>3. StoreTypeOK' /\ StoreInv'
  BY <1>1, IngestKeeps DEF PollerTypeOK, PollerInv
<1>4. PollerTypeOK'
  BY <1>2, <1>3 DEF PollerTypeOK, PollerState, telegramVars
<1>5. /\ RaiseOffset(batch) \in UpdateId
      /\ RaiseOffset(batch) >= upstreamOffset
      /\ \A u \in batch : RaiseOffset(batch) > u
      /\ RaiseOffset(batch) = upstreamOffset \/ \E u \in batch : RaiseOffset(batch) = u + 1
  BY <1>1, RaiseOffsetMax DEF IngestCommits, PollerTypeOK, StoreTypeOK
<1>6. /\ upstreamOffset' = RaiseOffset(batch)
      /\ ingested' = ingested \cup batch
      /\ deliveries' = deliveries \cup RoutedBy(batch)
      /\ ackOffset' = ackOffset
  BY <1>1 DEF IngestCommits
<1>7. /\ \A v \in batch : v \in stream /\ v >= upstreamOffset
      /\ \A v \in batch, u \in stream : upstreamOffset <= u /\ u < v => u \in batch
  BY <1>2 DEF PollerInv, BatchIsNext
<1>8. upstreamOffset \in UpdateId /\ stream \subseteq UpdateId
  BY DEF PollerTypeOK, StoreTypeOK
<1>9. NothingSkipped'
  <2>0. /\ \A u \in batch \cup stream : u \in Int
        /\ upstreamOffset \in Int /\ RaiseOffset(batch) \in Int
    BY <1>1, <1>5, <1>8 DEF UpdateId
  <2>1. PICK v \in batch : RaiseOffset(batch) = v + 1
    <3>1. PICK w \in batch : RaiseOffset(batch) > w /\ w >= upstreamOffset
      BY <1>1, <1>5, <1>7
    <3>2. RaiseOffset(batch) # upstreamOffset
      BY <2>0, <3>1
    <3> QED BY <1>5, <3>2
  <2>2. v \in stream /\ RaiseOffset(batch) - 1 = v
    BY <1>7, <2>0, <2>1
  <2>3. ASSUME NEW u \in stream, u < v + 1 PROVE u \in ingested \cup batch
    <3>1. u < upstreamOffset \/ (upstreamOffset <= u /\ u < v) \/ u = v
      BY <2>0, <2>3
    <3> QED BY <1>7, <3>1 DEF PollerInv, NothingSkipped
  <2> QED BY <1>2, <1>6, <2>1, <2>2, <2>3 DEF NothingSkipped, telegramVars
<1>10. NotAhead'
  BY <1>2, <1>5, <1>6, <1>8 DEF PollerInv, NotAhead, PollerTypeOK, UpdateId, telegramVars
<1>11. BatchIsNext'
  BY <1>2 DEF BatchIsNext
<1>12. OffsetInStep'
  <2>1. NextOffset(offset, batch) = RaiseOffset(batch)
    BY <1>2, NextOffsetIsRaised DEF PollerInv, OffsetInStep
  <2> QED BY <1>2, <1>6, <2>1 DEF OffsetInStep, NextOffset
<1>13. AcksHold'
  <2>1. \A d \in RoutedBy(batch) : d[1] \in Client /\ d[2] \in batch
    BY DEF RoutedBy
  <2>2. ASSUME NEW d \in RoutedBy(batch) PROVE d[2] >= ackOffset[d[1]]
    <3>1. d[2] >= upstreamOffset /\ ackOffset[d[1]] <= upstreamOffset
      BY <1>7, <2>1 DEF PollerInv, AcksHold
    <3>2. d[2] \in UpdateId /\ d[1] \in Client
      BY <1>1, <2>1
    <3>3. ackOffset[d[1]] \in UpdateId
      BY <3>2 DEF PollerTypeOK, StoreTypeOK
    <3> QED BY <1>8, <3>1, <3>2, <3>3 DEF UpdateId
  <2>3. \A c \in Client : ackOffset[c] <= RaiseOffset(batch)
    BY <1>5, <1>8 DEF PollerInv, AcksHold, PollerTypeOK, StoreTypeOK, UpdateId
  <2> QED BY <1>6, <2>2, <2>3 DEF PollerInv, AcksHold
<1>14. AllParsed'
  BY <1>2, <1>6 DEF PollerInv, AllParsed
<1> QED BY <1>3, <1>4, <1>9, <1>10, <1>11, <1>12, <1>13, <1>14 DEF PollerInv

(* A client acknowledges what it was sent. *)
LEMMA ClientAcksKeeps ==
    ASSUME PollerTypeOK, PollerInv, NEW c \in Client,
           NEW off \in 1..upstreamOffset, Acknowledge(c, off),
           UNCHANGED <<pollerVars, telegramVars>>
    PROVE  PollerTypeOK' /\ PollerInv'
<1> USE StoreAssumption, StreamAssumption
<1>1. off \in UpdateId /\ upstreamOffset \in UpdateId
  BY DEF PollerTypeOK, StoreTypeOK, UpdateId
<1>2. /\ StoreTypeOK' /\ StoreInv'
      /\ \A e \in Client : \/ ackOffset'[e] = ackOffset[e]
                           \/ e = c /\ ackOffset'[c] \in {ackOffset[c], off}
  BY <1>1, AcknowledgeKeeps DEF PollerTypeOK, PollerInv
<1>3. deliveries' = {d \in deliveries : d[1] # c \/ d[2] >= off}
  BY <1>1, AcknowledgeRemoves DEF PollerTypeOK, PollerInv
<1>4. UNCHANGED <<upstreamOffset, ingested>>
  BY DEF Acknowledge
<1>5. PollerTypeOK'
  BY <1>2 DEF PollerTypeOK, pollerVars, telegramVars
<1>6. AcksHold'
  <2>1. \A d \in deliveries : d[1] \in Client
    BY DEF PollerTypeOK, StoreTypeOK
  <2> QED BY <1>2, <1>3, <1>4, <2>1 DEF PollerInv, AcksHold
<1>7. NothingSkipped' /\ NotAhead' /\ BatchIsNext' /\ OffsetInStep' /\ AllParsed'
  BY <1>4 DEF PollerInv, NothingSkipped, NotAhead, BatchIsNext, OffsetInStep, AllParsed,
              NextOffset, pollerVars, telegramVars
<1> QED BY <1>2, <1>5, <1>6, <1>7 DEF PollerInv

(* The steps of the poller and the process that leave the tables alone, or *)
(* only open them.                                                         *)
LEMMA QuietStepKeeps ==
    ASSUME PollerTypeOK, PollerInv,
           \/ ArriveLate \/ Stop \/ Initialize
           \/ PollAnswered \/ PollEmpty \/ AnswerRejected \/ PollAbandoned
           \/ IngestPaused \/ Advance \/ Wake
    PROVE  PollerTypeOK' /\ PollerInv'
<1> USE StoreAssumption, StreamAssumption
<1>1. UNCHANGED <<storeVars, stream>>
  BY DEF ArriveLate, Stop, Initialize, PollAnswered, PollEmpty, AnswerRejected,
         PollAbandoned, IngestPaused, Advance, Wake, telegramVars
<1>2. StoreTypeOK' /\ StoreInv' /\ NothingSkipped' /\ AcksHold'
  BY <1>1, StoreUnchanged DEF PollerTypeOK, PollerInv, NothingSkipped, AcksHold, storeVars
<1>3. upstreamOffset' = upstreamOffset /\ upstreamOffset \in UpdateId
  BY <1>1 DEF PollerTypeOK, StoreTypeOK, storeVars
<1>4. stream' = stream
  BY <1>1
<1>5. ASSUME PollerTypeOK', NotAhead', BatchIsNext', OffsetInStep'
      PROVE  PollerTypeOK' /\ PollerInv'
  <2>1. ingested' = ingested
    BY <1>1 DEF storeVars
  <2>2. batch' = batch \/ batch' = {} \/ batch' \cap Unparsable = {}
    BY DEF ArriveLate, Stop, Initialize, PollAnswered, PollEmpty, AnswerRejected,
           PollAbandoned, IngestPaused, Advance, Wake, pollerVars
  <2>3. AllParsed'
    BY <2>1, <2>2 DEF PollerInv, AllParsed
  <2> QED BY <1>2, <1>5, <2>3 DEF PollerInv
<1>6. ASSUME NEW o, Abandon(o), o <= upstreamOffset, o \in UpdateId
      PROVE  sent' \subseteq UpdateId /\ \A x \in sent' : x <= upstreamOffset
  BY <1>6 DEF Abandon, PollerInv, NotAhead, PollerTypeOK
<1>7. upstreamOffset <= upstreamOffset
  BY <1>3 DEF UpdateId
<1>8. CASE ArriveLate
  <2>1. PICK o \in sent : Confirm(o) /\ sent' = sent \ {o}
    BY <1>8 DEF ArriveLate
  <2>2. o \in UpdateId /\ o <= upstreamOffset
    BY DEF PollerTypeOK, PollerInv, NotAhead
  <2>3. confirmed' \in UpdateId /\ confirmed' <= upstreamOffset
    BY <2>1, <2>2, ConfirmKeeps
  <2>4. UNCHANGED <<poller, offset, batch>>
    BY <1>8 DEF ArriveLate, pollerVars
  <2>5. PollerTypeOK'
    BY <1>2, <1>4, <2>1, <2>3, <2>4 DEF PollerTypeOK
  <2>6. NotAhead' /\ BatchIsNext' /\ OffsetInStep'
    BY <1>3, <1>4, <2>1, <2>3, <2>4
       DEF PollerInv, NotAhead, BatchIsNext, OffsetInStep, NextOffset
  <2> QED BY <1>5, <2>5, <2>6
<1>9. CASE Stop
  <2>1. sent' \subseteq UpdateId /\ \A x \in sent' : x <= upstreamOffset
    <3>1. CASE poller = "poll"
      BY <1>3, <1>6, <1>7, <1>9, <3>1 DEF Stop, PollerInv, OffsetInStep
    <3>2. CASE poller # "poll"
      BY <1>9, <3>2 DEF Stop, PollerInv, NotAhead, PollerTypeOK
    <3> QED BY <3>1, <3>2
  <2>2. PollerTypeOK'
    BY <1>2, <1>4, <1>9, <2>1 DEF Stop, PollerTypeOK, PollerState, UpdateId
  <2>3. NotAhead' /\ BatchIsNext' /\ OffsetInStep'
    BY <1>3, <1>9, <2>1 DEF Stop, PollerInv, NotAhead, BatchIsNext, OffsetInStep
  <2> QED BY <1>5, <2>2, <2>3
<1>10. CASE Initialize
  <2>1. PollerTypeOK'
    BY <1>2, <1>3, <1>10 DEF Initialize, PollerTypeOK, PollerState, telegramVars
  <2>2. NotAhead' /\ BatchIsNext' /\ OffsetInStep'
    BY <1>3, <1>10 DEF Initialize, PollerInv, NotAhead, BatchIsNext, OffsetInStep, telegramVars
  <2> QED BY <1>5, <2>1, <2>2
<1>11. CASE PollAnswered
  <2>1. poller = "poll" /\ offset = upstreamOffset
    BY <1>11 DEF PollAnswered, PollerInv, OffsetInStep
  <2>2. confirmed' \in UpdateId /\ confirmed' <= upstreamOffset
    BY <1>3, <1>7, <1>11, <2>1, ConfirmKeeps DEF PollAnswered
  <2>3. /\ Answer(offset) \subseteq {u \in stream : u >= upstreamOffset}
        /\ \A v \in Answer(offset), u \in stream :
              upstreamOffset <= u /\ u < v => u \in Answer(offset)
    BY <2>1, AnswerIsNext DEF PollerInv
  <2>4. /\ batch' = Answer(offset) /\ Answer(offset) # {}
        /\ poller' = "ingest"
        /\ UNCHANGED <<sent, offset>>
    BY <1>11 DEF PollAnswered
  <2>5. PollerTypeOK'
    BY <1>2, <1>4, <2>2, <2>3, <2>4 DEF PollerTypeOK, PollerState
  <2>6. NotAhead' /\ BatchIsNext' /\ OffsetInStep'
    BY <1>3, <1>4, <2>1, <2>2, <2>3, <2>4 DEF PollerInv, NotAhead, BatchIsNext, OffsetInStep
  <2> QED BY <1>5, <2>5, <2>6
<1>12. CASE PollEmpty \/ AnswerRejected
  <2>1. poller = "poll" /\ offset = upstreamOffset
    BY <1>12 DEF PollEmpty, AnswerRejected, PollerInv, OffsetInStep
  <2>2. confirmed' \in UpdateId /\ confirmed' <= upstreamOffset
    BY <1>3, <1>7, <1>12, <2>1, ConfirmKeeps DEF PollEmpty, AnswerRejected
  <2>3. poller' \in {"poll", "sleep"} /\ UNCHANGED <<sent, offset, batch>>
    BY <1>12, <2>1 DEF PollEmpty, AnswerRejected, pollerVars
  <2>4. PollerTypeOK'
    BY <1>2, <1>4, <2>1, <2>2, <2>3 DEF PollerTypeOK, PollerState
  <2>5. NotAhead' /\ BatchIsNext' /\ OffsetInStep'
    BY <1>3, <2>1, <2>2, <2>3 DEF PollerInv, NotAhead, BatchIsNext, OffsetInStep
  <2> QED BY <1>5, <2>4, <2>5
<1>13. CASE PollAbandoned
  <2>1. poller = "poll" /\ offset = upstreamOffset
    BY <1>13 DEF PollAbandoned, PollerInv, OffsetInStep
  <2>2. sent' \subseteq UpdateId /\ \A x \in sent' : x <= upstreamOffset
    BY <1>3, <1>6, <1>7, <1>13, <2>1 DEF PollAbandoned
  <2>3. poller' = "sleep" /\ UNCHANGED <<confirmed, offset, batch>>
    BY <1>13 DEF PollAbandoned
  <2>4. PollerTypeOK'
    BY <1>2, <1>4, <2>1, <2>2, <2>3 DEF PollerTypeOK, PollerState
  <2>5. NotAhead' /\ BatchIsNext' /\ OffsetInStep'
    BY <1>3, <2>1, <2>2, <2>3 DEF PollerInv, NotAhead, BatchIsNext, OffsetInStep
  <2> QED BY <1>5, <2>4, <2>5
<1>14. CASE IngestPaused \/ Wake
  <2>1. poller \in {"ingest", "sleep"} /\ offset = upstreamOffset
    BY <1>14 DEF IngestPaused, Wake, PollerInv, OffsetInStep
  <2>2. poller' \in {"poll", "sleep"} /\ batch' = {} /\ UNCHANGED <<offset, confirmed, sent>>
    BY <1>14 DEF IngestPaused, Wake, telegramVars, PollerTypeOK
  <2>3. PollerTypeOK'
    BY <1>2, <1>4, <2>2 DEF PollerTypeOK, PollerState
  <2>4. NotAhead' /\ BatchIsNext' /\ OffsetInStep'
    BY <1>3, <2>1, <2>2 DEF PollerInv, NotAhead, BatchIsNext, OffsetInStep
  <2> QED BY <1>5, <2>3, <2>4
<1>15. CASE Advance
  <2>1. /\ offset' = upstreamOffset
        /\ poller' = "poll" /\ batch' = {} /\ UNCHANGED <<confirmed, sent>>
    BY <1>15 DEF Advance, PollerInv, OffsetInStep, telegramVars
  <2>2. PollerTypeOK'
    BY <1>2, <1>3, <1>4, <2>1 DEF PollerTypeOK, PollerState
  <2>3. NotAhead' /\ BatchIsNext' /\ OffsetInStep'
    BY <1>3, <2>1 DEF PollerInv, NotAhead, BatchIsNext, OffsetInStep
  <2> QED BY <1>5, <2>2, <2>3
<1> QED BY <1>8, <1>9, <1>10, <1>11, <1>12, <1>13, <1>14, <1>15

(* Reconciling the clients, by a restart or by a tool beside the service.  *)
LEMMA ReconcileKeepsPoller ==
    ASSUME PollerTypeOK, PollerInv, NEW k \in Configs, Reconcile(k), cfg' \in Configs,
           UNCHANGED <<offset, batch, telegramVars>>,
           UNCHANGED poller \/ (poller = "down" /\ poller' = "start")
    PROVE  PollerTypeOK' /\ PollerInv'
<1>1. StoreTypeOK' /\ StoreInv'
  BY ReconcileKeeps DEF PollerTypeOK, PollerInv
<1>2. /\ ackOffset' = [c \in Client |-> IF c \in k.clients THEN ackOffset[c] ELSE 0]
      /\ deliveries' = {d \in deliveries : d[1] \in k.clients}
      /\ UNCHANGED <<updates, upstreamOffset, ingested>>
  BY DEF Reconcile
<1>3. PollerTypeOK'
  BY <1>1 DEF PollerTypeOK, PollerState, telegramVars
<1>4. AcksHold'
  <2>1. 0 <= upstreamOffset
    BY StoreAssumption DEF PollerTypeOK, StoreTypeOK, UpdateId
  <2>2. \A d \in deliveries : d[1] \in Client
    BY DEF PollerTypeOK, StoreTypeOK
  <2> QED BY <1>2, <2>1, <2>2 DEF PollerInv, AcksHold
<1>5. NothingSkipped' /\ NotAhead' /\ BatchIsNext' /\ OffsetInStep' /\ AllParsed'
  BY <1>2 DEF PollerInv, NothingSkipped, NotAhead, BatchIsNext, OffsetInStep, AllParsed,
              NextOffset, telegramVars
<1> QED BY <1>1, <1>3, <1>4, <1>5 DEF PollerInv

(* The steps the service takes without its clients. *)
LEMMA UpstreamStepKeeps ==
    ASSUME PollerTypeOK, PollerInv, UpstreamStep PROVE PollerTypeOK' /\ PollerInv'
<1>1. CASE Produce
  BY <1>1, ProduceKeeps
<1>2. CASE \E k \in Configs : Start(k)
  BY <1>2, ReconcileKeepsPoller DEF Start, Open
<1>3. CASE IngestDone
  BY <1>3, IngestDoneKeeps
<1>4. CASE IngestFatal
  BY <1>4, QuietStepKeeps DEF IngestFatal
<1>5. CASE ArriveLate \/ Stop \/ Initialize \/ PollAnswered \/ PollEmpty \/ AnswerRejected
           \/ PollAbandoned \/ IngestPaused \/ Advance \/ Wake
  BY <1>5, QuietStepKeeps
<1> QED BY <1>1, <1>2, <1>3, <1>4, <1>5 DEF UpstreamStep, PollerStep

(* The inductive invariant is inductive. *)
LEMMA PollerNextKeeps ==
    PollerTypeOK /\ PollerInv /\ [PollerNext]_allPollerVars => (PollerTypeOK /\ PollerInv)'
<1> SUFFICES ASSUME PollerTypeOK, PollerInv, [PollerNext]_allPollerVars
             PROVE  (PollerTypeOK /\ PollerInv)'
  OBVIOUS
<1>1. CASE UpstreamStep
  BY <1>1, UpstreamStepKeeps
<1>2. CASE \E c \in cfg.clients : ClientAcks(c)
  <2>1. cfg.clients \subseteq Client
    BY StoreAssumption DEF PollerTypeOK, StoreTypeOK, Config
  <2> QED BY <1>2, <2>1, ClientAcksKeeps DEF ClientAcks
<1>3. CASE UNCHANGED allPollerVars
  BY <1>3 DEF allPollerVars, storeVars, pollerVars, telegramVars, PollerTypeOK, StoreTypeOK,
              PollerInv, StoreInv, Referential, WindowRetained, NothingSkipped, NotAhead,
              BatchIsNext, OffsetInStep, AcksHold, AllParsed, NextOffset
<1> QED BY <1>1, <1>2, <1>3 DEF PollerNext

----------------------------------------------------------------------------
(* Theorems *)

(* The inductive invariant holds in every reachable state; in particular   *)
(* the offset in memory is the stored one whenever it is used, and what a  *)
(* client acknowledged is never queued for it again.                       *)
THEOREM PollerSafe == PollerSpec => [](PollerTypeOK /\ PollerInv)
<1> QED BY PollerInitKeeps, PollerNextKeeps, PTL DEF PollerSpec

(* Nor does the offset the poller computes itself (nextOffset), and an     *)
(* answer is in hand exactly while it is being ingested.                   *)
THEOREM PollerWellTyped == PollerSpec => []PollerTypeOK
<1> QED BY PollerSafe, PTL

(* No request asks past the stored offset, below which all is stored. *)
LEMMA InvIsDurable ==
    ASSUME PollerTypeOK, PollerInv PROVE ConfirmedDurable
<1> SUFFICES ASSUME NEW u \in stream, u < confirmed PROVE u \in ingested
  BY DEF ConfirmedDurable
<1>1. confirmed <= upstreamOffset
  BY DEF PollerInv, NotAhead
<1>2. u \in UpdateId /\ confirmed \in UpdateId /\ upstreamOffset \in UpdateId
  BY StreamAssumption DEF PollerTypeOK, StoreTypeOK
<1>3. u < upstreamOffset
  BY <1>1, <1>2, StoreAssumption DEF UpdateId
<1> QED BY <1>3 DEF PollerInv, NothingSkipped

(* What Telegram has forgotten is in the database, always. *)
THEOREM ConfirmedIsDurable == PollerSpec => []ConfirmedDurable
<1>1. PollerTypeOK /\ PollerInv => ConfirmedDurable
  BY InvIsDurable
<1> QED BY <1>1, PollerSafe, PTL

(* An update that does not parse is not ingested, so that the stored       *)
(* offset cannot have passed it, nor any request.                          *)
LEMMA InvHoldsUnparsed == PollerTypeOK /\ PollerInv => UnparsedIsHeld
<1> SUFFICES ASSUME PollerTypeOK, PollerInv, NEW u \in stream \cap Unparsable
             PROVE  u \notin ingested /\ confirmed <= u /\ upstreamOffset <= u
  BY DEF UnparsedIsHeld
<1>1. u \in Int /\ upstreamOffset \in Int /\ confirmed \in Int
  BY StreamAssumption DEF PollerTypeOK, StoreTypeOK, UpdateId
<1>2. u \notin ingested
  BY DEF PollerInv, AllParsed
<1>3. ~(u < upstreamOffset)
  BY <1>2 DEF PollerInv, NothingSkipped
<1>4. confirmed <= upstreamOffset
  BY DEF PollerInv, NotAhead
<1> QED BY <1>1, <1>2, <1>3, <1>4

(* An update that does not parse stays with Telegram, and all after it. *)
THEOREM UnparsedStays == PollerSpec => []UnparsedIsHeld
<1> QED BY InvHoldsUnparsed, PollerSafe, PTL

(* What a step queues is above all that was ingested before. *)
LEMMA NextRoutesLast ==
    ASSUME PollerTypeOK, PollerInv, PollerNext,
           NEW d \in deliveries' \ deliveries, NEW u \in ingested
    PROVE  u < d[2]
<1>1. CASE IngestDone
  <2>1. d[2] \in batch
    BY <1>1 DEF IngestDone, IngestCommits, RoutedBy
  <2>2. d[2] >= upstreamOffset
    BY <1>1, <2>1 DEF IngestDone, PollerInv, BatchIsNext
  <2>3. u < upstreamOffset
    BY DEF PollerInv, StoreInv, WindowRetained
  <2>4. d[2] \in UpdateId /\ u \in UpdateId /\ upstreamOffset \in UpdateId
    BY <2>1, StreamAssumption DEF PollerTypeOK, StoreTypeOK
  <2> QED BY <2>2, <2>3, <2>4, StoreAssumption DEF UpdateId
<1>2. CASE \E c \in cfg.clients : ClientAcks(c)
  BY <1>2 DEF ClientAcks, Acknowledge, Unacknowledged
<1>3. CASE \E k \in Configs : Start(k)
  BY <1>3 DEF Start, Open, Reconcile
<1>4. CASE Produce \/ ArriveLate \/ Stop \/ Initialize \/ PollAnswered \/ PollEmpty
           \/ AnswerRejected \/ PollAbandoned \/ IngestPaused \/ IngestFatal \/ Advance \/ Wake
  BY <1>4 DEF Produce, ArriveLate, Stop, Initialize, PollAnswered, PollEmpty, AnswerRejected,
              PollAbandoned, IngestPaused, IngestFatal, Advance, Wake, storeVars
<1> QED BY <1>1, <1>2, <1>3, <1>4 DEF PollerNext, UpstreamStep, PollerStep

(* Every update is routed at most once and in the order of the stream,     *)
(* through restarts, lost answers and redeliveries, and with a safety      *)
(* window of any size.                                                     *)
THEOREM RoutedInOrder == PollerSpec => RoutedOnceInOrder
<1> DEFINE A == \A d \in deliveries' \ deliveries : \A u \in ingested : u < d[2]
<1>1. PollerTypeOK /\ PollerInv /\ [PollerNext]_allPollerVars => [A]_allPollerVars
  BY NextRoutesLast
<1> QED BY <1>1, PollerSafe, PTL DEF PollerSpec, RoutedOnceInOrder

(* Every step of the poller and the process is, in the database, one of    *)
(* the transactions of module Store or none: a batch that is not empty is  *)
(* ingested, a positive offset acknowledged, or the database opened.       *)
THEOREM PollerImplementsStore == PollerSpec => StoreSpec
<1>1. PollerInit => StoreInit
  BY DEF PollerInit
<1>2. PollerTypeOK /\ [PollerNext]_allPollerVars => [StoreNext]_storeVars
  <2> SUFFICES ASSUME PollerTypeOK, [PollerNext]_allPollerVars PROVE [StoreNext]_storeVars
    OBVIOUS
  <2>1. CASE IngestDone
    <3>1. batch \in (SUBSET UpdateId) \ {{}}
      BY <2>1, StreamAssumption DEF IngestDone, PollerTypeOK
    <3> QED BY <2>1, <3>1 DEF IngestDone, StoreNext, AnyIngest
  <2>2. CASE \E c \in cfg.clients : ClientAcks(c)
    <3>1. PICK c \in cfg.clients, off \in 1..upstreamOffset : Acknowledge(c, off)
      BY <2>2 DEF ClientAcks
    <3>2. off \in UpdateId \ {0}
      BY StoreAssumption DEF PollerTypeOK, StoreTypeOK, UpdateId
    <3> QED BY <3>1, <3>2 DEF StoreNext, AnyAcknowledge
  <2>3. CASE \E k \in Configs : Start(k)
    BY <2>3 DEF Start, StoreNext, AnyOpen
  <2>4. CASE Produce \/ ArriveLate \/ Stop \/ Initialize \/ PollAnswered \/ PollEmpty
             \/ AnswerRejected \/ PollAbandoned \/ IngestPaused \/ IngestFatal \/ Advance \/ Wake
    BY <2>4 DEF Produce, ArriveLate, Stop, Initialize, PollAnswered, PollEmpty, AnswerRejected,
                PollAbandoned, IngestPaused, IngestFatal, Advance, Wake
  <2>5. CASE UNCHANGED allPollerVars
    BY <2>5 DEF allPollerVars
  <2> QED BY <2>1, <2>2, <2>3, <2>4, <2>5 DEF PollerNext, UpstreamStep, PollerStep
<1> QED BY <1>1, <1>2, PollerSafe, PTL DEF PollerSpec, StoreSpec

(* Beside the service alone, no ingest fails for a missing client: what    *)
(* ends the process there is an update id that cannot be incremented.      *)
THEOREM FatalOnlyAtMaximum ==
    PollerSpec => [](IngestFails(batch) => MaxId \in batch)
<1>1. PollerTypeOK /\ clients = cfg.clients => (IngestFails(batch) => MaxId \in batch)
  <2> SUFFICES ASSUME PollerTypeOK, clients = cfg.clients PROVE RoutesExist(batch)
    BY DEF IngestFails, CanIncrement
  <2>1. cfg \in Configs /\ batch \subseteq UpdateId
    BY StreamAssumption DEF PollerTypeOK, StoreTypeOK
  <2> QED BY <2>1, StoreAssumption DEF RoutesExist
<1> QED BY <1>1, PollerSafe, PollerImplementsStore, RegisteredAreConfigured, PTL

(* The batch in hand is no longer than a page.                             *)
BatchIsPage == IsFiniteSet(batch) /\ Cardinality(batch) <= PageLimit

(* No answer has more updates than the poller asks for.                    *)
LEMMA AnswerIsPage ==
    ASSUME PollerTypeOK, NEW o PROVE IsFiniteSet(Answer(o)) /\ Cardinality(Answer(o)) <= PageLimit
<1>1. {u \in stream : u >= Max({confirmed, o})} \in SUBSET UpdateId
  BY StreamAssumption DEF PollerTypeOK
<1>2. MaxId \in Nat /\ PageLimit \in Nat
  BY StoreAssumption
<1> QED BY <1>1, <1>2, FirstNSize DEF Answer

(* Whatever the process does, the batch it ingests is one page.            *)
LEMMA BatchStaysPage == PollerSpec => []BatchIsPage
<1>1. PollerInit => BatchIsPage
  BY FS_EmptySet, StoreAssumption DEF PollerInit, BatchIsPage
<1>2. PollerTypeOK /\ BatchIsPage /\ [PollerNext]_allPollerVars => BatchIsPage'
  <2> SUFFICES ASSUME PollerTypeOK, BatchIsPage, [PollerNext]_allPollerVars
               PROVE  BatchIsPage'
    OBVIOUS
  <2>1. CASE PollAnswered
    BY <2>1, AnswerIsPage DEF PollAnswered, BatchIsPage
  <2>2. CASE Stop \/ IngestPaused \/ IngestFatal \/ Advance
    <3>1. batch' = {}
      BY <2>2 DEF Stop, IngestPaused, IngestFatal, Advance
    <3> QED BY <3>1, FS_EmptySet, StoreAssumption DEF BatchIsPage
  <2>3. CASE \/ Produce \/ ArriveLate \/ (\E k \in Configs : Start(k))
             \/ Initialize \/ PollEmpty \/ AnswerRejected \/ PollAbandoned
             \/ IngestDone \/ Wake
             \/ (\E c \in cfg.clients : ClientAcks(c))
             \/ UNCHANGED allPollerVars
    <3>1. batch' = batch
      BY <2>3 DEF Produce, ArriveLate, Start, Initialize, PollEmpty, AnswerRejected,
                  PollAbandoned, IngestDone, Wake, ClientAcks, allPollerVars, pollerVars
    <3> QED BY <3>1 DEF BatchIsPage
  <2> QED BY <2>1, <2>2, <2>3 DEF PollerNext, UpstreamStep, PollerStep
<1> QED BY <1>1, <1>2, PollerSafe, PTL DEF PollerSpec

(* Every client's queue has room for a page. *)
HasRoom == \A c \in cfg.clients : Cardinality(Pending(c)) + PageLimit <= cfg.maxPending

(* The backlog limit refuses a batch only while some client has less than  *)
(* a page of room: where the limit is a page or more, a bot that takes all *)
(* its updates makes the poller go on.  (With a smaller limit a batch may  *)
(* be refused for ever: see PauseEnds.)                                    *)
THEOREM RoomAccepts ==
    PollerSpec => [](poller = "ingest" /\ HasRoom => ~BacklogFull(batch))
<1>1. ASSUME PollerTypeOK, BatchIsPage, NEW c \in cfg.clients,
             Cardinality(Pending(c)) + PageLimit <= cfg.maxPending
      PROVE  Cardinality(PendingIn(deliveries \cup RoutedBy(batch), c)) <= cfg.maxPending
  <2> DEFINE grown == PendingIn(deliveries \cup RoutedBy(batch), c)
  <2>1. grown \subseteq Pending(c) \cup batch
    BY DEF PendingIn, Pending, RoutedBy
  <2>2. IsFiniteSet(Pending(c)) /\ Cardinality(Pending(c)) \in Nat
    <3>1. Pending(c) \subseteq UpdateId /\ IsFiniteSet(UpdateId)
      BY FS_Interval, StoreAssumption DEF Pending, PendingIn, UpdateId
    <3> QED BY <3>1, FS_Subset, FS_CardinalityType
  <2>3. IsFiniteSet(batch) /\ Cardinality(batch) \in Nat /\ Cardinality(batch) <= PageLimit
    BY <1>1, FS_CardinalityType DEF BatchIsPage
  <2>4. /\ IsFiniteSet(Pending(c) \cup batch)
        /\ Cardinality(Pending(c) \cup batch) \in Nat
        /\ Cardinality(Pending(c) \cup batch) <= Cardinality(Pending(c)) + Cardinality(batch)
    <3>1. IsFiniteSet(Pending(c) \cap batch)
      BY <2>2, FS_Subset
    <3>2. Cardinality(Pending(c) \cap batch) \in Nat
      BY <3>1, FS_CardinalityType
    <3>3. /\ IsFiniteSet(Pending(c) \cup batch)
          /\ Cardinality(Pending(c) \cup batch)
                 = Cardinality(Pending(c)) + Cardinality(batch) - Cardinality(Pending(c) \cap batch)
      BY <2>2, <2>3, FS_Union
    <3>4. Cardinality(Pending(c) \cup batch) \in Nat
      BY <3>3, FS_CardinalityType
    <3> QED BY <2>2, <2>3, <3>2, <3>3, <3>4
  <2> HIDE DEF grown
  <2>5. Cardinality(grown) \in Nat /\ Cardinality(grown) <= Cardinality(Pending(c) \cup batch)
    BY <2>1, <2>4, FS_Subset, FS_CardinalityType
  <2>6. cfg.maxPending \in Nat /\ PageLimit \in Nat
    BY <1>1, StoreAssumption DEF PollerTypeOK, StoreTypeOK, Config
  <2>7. Cardinality(grown) <= cfg.maxPending
    BY <1>1, <2>2, <2>3, <2>4, <2>5, <2>6
  <2> QED BY <2>7 DEF grown
<1>2. PollerTypeOK /\ BatchIsPage => (poller = "ingest" /\ HasRoom => ~BacklogFull(batch))
  BY <1>1 DEF HasRoom, BacklogFull, BacklogFits
<1> QED BY <1>2, BatchStaysPage, PollerSafe, PTL
=============================================================================
