-------------------------- MODULE ItemTable_proofs --------------------------
(***************************************************************************)
(* Lemmas about the statements on tItems and about the slot search, for    *)
(* tables of any size.                                                     *)
(***************************************************************************)
EXTENDS ItemTable, FiniteSetTheorems, WellFoundedInduction, TLAPS

\* Every non-empty set of naturals has a least element.
LEMMA LeastNatural ==
  ASSUME NEW S \in SUBSET Nat, S # {}
  PROVE  \E m \in S : \A n \in S : m <= n
<1>1. PICK m \in S : \A n \in S : ~ (<<n, m>> \in OpToRel(<, Nat))
  BY NatLessThanWellFounded, WFMin
<1>2. \A n \in S : ~ (n < m)
  BY <1>1 DEF OpToRel
<1> QED
  BY <1>2

\* The candidates of the slot search are naturals, and there is one.
LEMMA CandidatesExist ==
  ASSUME NEW t, IsTable(t), NEW c, NEW box
  PROVE  /\ FirstSlot(box) \in Nat
         /\ IsFiniteSet(Counted(t, c, box))
         /\ Candidates(t, c, box) \in SUBSET Nat
         /\ Candidates(t, c, box) # {}
<1> DEFINE K == Counted(t, c, box)
           n == Cardinality(K)
           f == FirstSlot(box)
<1>1. f \in Nat
  BY TableAssumption DEF FirstSlot
<1>2. /\ IsFiniteSet(K)
      /\ n \in Nat
  <2>1. K \subseteq RowIds
    BY DEF IsTable, Counted, In
  <2> QED
    BY <2>1, FS_Subset, FS_CardinalityType, TableAssumption
<1>3. f + n \in Candidates(t, c, box)
  <2>1. Cardinality(UpTo(t, c, box, f + n)) <= n
    BY <1>2, FS_Subset DEF UpTo
  <2>2. f + n \in f..(f + n) /\ (f + n) - f = n
    BY <1>1, <1>2
  <2> QED
    BY <2>1, <2>2 DEF Candidates
<1>4. Candidates(t, c, box) \subseteq f..(f + n)
  BY DEF Candidates
<1>5. f..(f + n) \subseteq Nat
  BY <1>1, <1>2
<1> QED
  BY <1>1, <1>2, <1>3, <1>4, <1>5

\* What FindNextAvailableContainerSlot returns for a container with rows: the
\* least candidate.
LEMMA SlotIsLeastCandidate ==
  ASSUME NEW t, IsTable(t), NEW c, NEW box, Counted(t, c, box) # {}
  PROVE  LET p == FindNextAvailableContainerSlot(t, c, box)
         IN  /\ p \in Candidates(t, c, box)
             /\ \A q \in Candidates(t, c, box) : p <= q
<1>1. \E p \in Candidates(t, c, box) : \A q \in Candidates(t, c, box) : p <= q
  BY CandidatesExist, LeastNatural
<1> QED
  BY <1>1 DEF FindNextAvailableContainerSlot

\* It is a natural number, for any container.
LEMMA NextSlotIsNat ==
  ASSUME NEW t, IsTable(t), NEW c, NEW box
  PROVE  FindNextAvailableContainerSlot(t, c, box) \in Nat
<1>1. CASE Counted(t, c, box) = {}
  BY <1>1 DEF FindNextAvailableContainerSlot
<1>2. CASE Counted(t, c, box) # {}
  BY <1>2, SlotIsLeastCandidate, CandidatesExist
<1> QED
  BY <1>1, <1>2

\* The rows up to a slot: a finite set of at most all counted rows.
LEMMA UpToFinite ==
  ASSUME NEW t, IsTable(t), NEW c, NEW box, NEW p
  PROVE  /\ IsFiniteSet(UpTo(t, c, box, p))
         /\ Cardinality(UpTo(t, c, box, p)) \in Nat
<1>1. IsFiniteSet(Counted(t, c, box))
  BY CandidatesExist
<1>2. UpTo(t, c, box, p) \in SUBSET Counted(t, c, box)
  BY DEF UpTo
<1> QED
  BY <1>1, <1>2, FS_Subset, FS_CardinalityType

\* A slot below the one found is no candidate: too many rows lie at or below it.
LEMMA BelowIsCrowded ==
  ASSUME NEW t, IsTable(t), NEW c, NEW box, Counted(t, c, box) # {},
         NEW q \in Nat, FirstSlot(box) <= q,
         q < FindNextAvailableContainerSlot(t, c, box)
  PROVE  Cardinality(UpTo(t, c, box, q)) > q - FirstSlot(box)
<1> DEFINE p == FindNextAvailableContainerSlot(t, c, box)
           f == FirstSlot(box)
           n == Cardinality(Counted(t, c, box))
<1>1. /\ f \in Nat /\ n \in Nat
      /\ p \in Nat /\ p \in f..(f + n)
      /\ q \notin Candidates(t, c, box)
  <2>1. f \in Nat /\ n \in Nat /\ p \in Nat
    BY CandidatesExist, NextSlotIsNat, FS_CardinalityType
  <2>2. p \in Candidates(t, c, box) /\ \A r \in Candidates(t, c, box) : p <= r
    BY SlotIsLeastCandidate
  <2>3. p \in f..(f + n)
    BY <2>2 DEF Candidates
  <2>4. ~ (p <= q)
    BY <2>1
  <2> QED
    BY <2>1, <2>2, <2>3, <2>4
<1>2. q \in f..(f + n)
  BY <1>1
<1>3. ~ (Cardinality(UpTo(t, c, box, q)) <= q - f)
  BY <1>1, <1>2 DEF Candidates
<1>4. Cardinality(UpTo(t, c, box, q)) \in Nat
  BY UpToFinite
<1> QED
  BY <1>1, <1>3, <1>4

(***************************************************************************)
(* FindNextAvailableContainerSlot returns a slot that no row occupies: a   *)
(* row there would be counted at the slot but not at the one before, which *)
(* is crowded already.  This holds for tables with several rows in a slot. *)
(***************************************************************************)
THEOREM NextSlotIsFree ==
  ASSUME NEW t, IsTable(t), NEW c, NEW box, Counted(t, c, box) # {}
  PROVE  LET p == FindNextAvailableContainerSlot(t, c, box)
         IN  /\ p \in Nat
             /\ p >= FirstSlot(box)
             /\ At(t, c, box, p) = {}
<1> DEFINE p == FindNextAvailableContainerSlot(t, c, box)
           f == FirstSlot(box)
           n == Cardinality(Counted(t, c, box))
           U(q) == UpTo(t, c, box, q)
<1>1. /\ f \in Nat /\ n \in Nat /\ p \in Nat
      /\ p \in f..(f + n)
      /\ Cardinality(U(p)) <= p - f
  <2>1. f \in Nat /\ n \in Nat /\ p \in Nat
    BY CandidatesExist, NextSlotIsNat, FS_CardinalityType
  <2>2. p \in Candidates(t, c, box)
    BY SlotIsLeastCandidate
  <2> QED
    BY <2>1, <2>2 DEF Candidates
<1>2. ASSUME NEW i \in At(t, c, box, p)
      PROVE  FALSE
  <2>1. i \in DOMAIN t /\ t[i].slot = p /\ i \in Counted(t, c, box)
    BY <1>1 DEF At, In, Counted
  <2>2. i \in U(p)
    BY <2>1, <1>1 DEF UpTo
  <2>3. CASE p = f
    <3>1. Cardinality(U(p)) <= 0 /\ Cardinality(U(p)) \in Nat
      BY <1>1, <2>3, UpToFinite
    <3>2. Cardinality(U(p)) = 0
      BY <3>1
    <3> QED
      BY <3>2, <2>2, UpToFinite, FS_EmptySet
  <2>4. CASE p # f
    <3>1. p - 1 \in Nat /\ f <= p - 1 /\ p - 1 < p
      BY <1>1, <2>4
    <3>2. Cardinality(U(p - 1)) > (p - 1) - f
      BY <3>1, BelowIsCrowded
    <3>3. i \notin U(p - 1)
      BY <1>1, <2>1 DEF UpTo
    <3>4. Cardinality(U(p - 1) \cup {i}) = Cardinality(U(p - 1)) + 1
      BY <3>3, UpToFinite, FS_AddElement
    <3>5. U(p - 1) \cup {i} \in SUBSET U(p)
      <4>1. ASSUME NEW j \in U(p - 1) PROVE j \in U(p)
        <5>1. j \in Counted(t, c, box) /\ t[j].slot <= p - 1
          BY DEF UpTo
        <5>2. t[j].slot \in Nat
          BY <5>1 DEF Counted, In, IsTable, Row
        <5> QED
          BY <5>1, <5>2, <1>1 DEF UpTo
      <4> QED
        BY <4>1, <2>2
    <3>6. Cardinality(U(p - 1) \cup {i}) <= Cardinality(U(p))
      BY <3>5, UpToFinite, FS_Subset
    <3>7. Cardinality(U(p)) \in Nat /\ Cardinality(U(p - 1)) \in Nat
      BY UpToFinite
    <3> QED
      BY <3>2, <3>4, <3>6, <3>7, <1>1
  <2> QED
    BY <2>3, <2>4
<1>3. p >= f
  BY <1>1
<1> QED
  BY <1>1, <1>2, <1>3

\* Of distinct slots from first up to and including q, no more than q - first + 1
\* can be taken; one less if nobody has slot q.
LEMMA DistinctSlotsCount ==
  ASSUME NEW t, IsTable(t), NEW c, NEW box, NEW q \in Nat, FirstSlot(box) <= q,
         \A i, j \in Counted(t, c, box) : t[i].slot = t[j].slot => i = j,
         At(t, c, box, q) = {}
  PROVE  Cardinality(UpTo(t, c, box, q)) <= q - FirstSlot(box)
<1> DEFINE f == FirstSlot(box)
           U == UpTo(t, c, box, q)
           g == [i \in U |-> t[i].slot]
<1>1. f \in Nat
  BY CandidatesExist
<1>2. \A i \in U : t[i].slot \in f..(q - 1)
  <2>1. TAKE i \in U
  <2>2. i \in DOMAIN t /\ t[i].owner = c /\ t[i].parent = box
        /\ t[i].slot >= f /\ t[i].slot <= q
    BY DEF UpTo, Counted, In
  <2>3. t[i].slot \in Nat
    BY <2>2 DEF IsTable, Row
  <2>4. t[i].slot # q
    BY <2>2 DEF At, In
  <2> QED
    BY <1>1, <2>2, <2>3, <2>4
<1>3. g \in Injection(U, f..(q - 1))
  <2>1. g \in [U -> f..(q - 1)]
    BY <1>2
  <2>2. \A i, j \in U : g[i] = g[j] => i = j
    BY DEF UpTo
  <2> QED
    BY <2>1, <2>2 DEF Injection, IsInjective
<1>4. /\ IsFiniteSet(f..(q - 1))
      /\ Cardinality(f..(q - 1)) = q - f
  <2>1. f \in Int /\ q - 1 \in Int /\ f <= q /\ q \in Int
    BY <1>1
  <2>2. IsFiniteSet(f..(q - 1))
    BY <2>1, FS_Interval
  <2>3. Cardinality(f..(q - 1)) = IF f > q - 1 THEN 0 ELSE (q - 1) - f + 1
    BY <2>1, FS_Interval
  <2> QED
    BY <2>1, <2>2, <2>3
<1> HIDE DEF g
<1> QED
  BY <1>3, <1>4, FS_Injection

\* When no two rows share a slot, every slot below the one found is occupied.
THEOREM NextSlotIsLowestFree ==
  ASSUME NEW t, IsTable(t), NEW c, NEW box, Counted(t, c, box) # {},
         \A i, j \in Counted(t, c, box) : t[i].slot = t[j].slot => i = j,
         NEW q \in FirstSlot(box)..(FindNextAvailableContainerSlot(t, c, box) - 1)
  PROVE  At(t, c, box, q) # {}
<1>1. /\ q \in Nat /\ FirstSlot(box) <= q
      /\ q < FindNextAvailableContainerSlot(t, c, box)
  BY CandidatesExist, NextSlotIsNat
<1>2. SUFFICES ASSUME At(t, c, box, q) = {} PROVE FALSE
  OBVIOUS
<1>3. Cardinality(UpTo(t, c, box, q)) > q - FirstSlot(box)
  BY <1>1, BelowIsCrowded
<1>4. Cardinality(UpTo(t, c, box, q)) <= q - FirstSlot(box)
  BY <1>1, <1>2, DistinctSlotsCount
<1>5. Cardinality(UpTo(t, c, box, q)) \in Nat /\ FirstSlot(box) \in Nat
  BY UpToFinite, CandidatesExist
<1> QED
  BY <1>1, <1>3, <1>4, <1>5

-----------------------------------------------------------------------------
\* The rows of a finite part of a table can be listed by slot.
LEMMA SlotOrderExists ==
  ASSUME NEW t, IsTable(t), NEW ids \in SUBSET DOMAIN t
  PROVE  SlotOrders(t, ids) # {}
<1> DEFINE Bad == {S \in SUBSET DOMAIN t : SlotOrders(t, S) = {}}
           sizes == {Cardinality(S) : S \in Bad}
<1>1. \A S \in SUBSET DOMAIN t : IsFiniteSet(S) /\ Cardinality(S) \in Nat
  BY FS_Subset, FS_CardinalityType, TableAssumption DEF IsTable
<1>2. SUFFICES ASSUME ids \in Bad PROVE FALSE
  OBVIOUS
<1>3. PICK S \in Bad : \A T \in Bad : Cardinality(S) <= Cardinality(T)
  <2>1. sizes \in SUBSET Nat /\ sizes # {}
    BY <1>1, <1>2
  <2>2. PICK m \in sizes : \A n \in sizes : m <= n
    <3> HIDE DEF sizes
    <3> QED BY <2>1, LeastNatural
  <2> QED BY <2>2
<1>4. \A i \in DOMAIN t : t[i].slot \in Nat
  BY DEF IsTable, Row
<1>5. S # {}
  <2>1. SUFFICES ASSUME S = {} PROVE FALSE
    OBVIOUS
  <2>2. Cardinality(S) = 0
    BY <2>1, FS_EmptySet
  <2>3. [k \in 1..0 |-> k] \in SlotOrders(t, S)
    BY <2>1, <2>2 DEF SlotOrders
  <2> QED BY <2>3
<1>6. PICK i \in S : \A j \in S : t[i].slot <= t[j].slot
  <2> DEFINE slots == {t[j].slot : j \in S}
  <2>1. slots \in SUBSET Nat /\ slots # {}
    BY <1>4, <1>5
  <2>2. PICK m \in slots : \A n \in slots : m <= n
    <3> HIDE DEF slots
    <3> QED BY <2>1, LeastNatural
  <2> QED BY <2>2
<1> DEFINE R == S \ {i}
<1>7. /\ Cardinality(R) = Cardinality(S) - 1
      /\ Cardinality(R) \in Nat /\ Cardinality(S) \in Nat
  BY <1>1, FS_RemoveElement
<1>8. PICK r : r \in SlotOrders(t, R)
  BY <1>3, <1>7
<1> DEFINE n == Cardinality(S)
           rows == [k \in 1..n |-> IF k = 1 THEN i ELSE r[k - 1]]
<1>9. /\ r \in [1..(n - 1) -> R]
      /\ \A k, m \in 1..(n - 1) :
           k < m => r[k] # r[m] /\ t[r[k]].slot <= t[r[m]].slot
  BY <1>7, <1>8 DEF SlotOrders
<1>10. ASSUME NEW k \in 1..n, NEW m \in 1..n, k < m
       PROVE  rows[k] # rows[m] /\ t[rows[k]].slot <= t[rows[m]].slot
  <2>1. m - 1 \in 1..(n - 1) /\ rows[m] = r[m - 1] /\ r[m - 1] \in R
    BY <1>7, <1>9, <1>10
  <2>2. CASE k = 1
    BY <1>6, <2>1, <2>2
  <2>3. CASE k # 1
    <3>1. k - 1 \in 1..(n - 1) /\ rows[k] = r[k - 1] /\ k - 1 < m - 1
      BY <1>7, <1>10, <2>3
    <3> HIDE DEF rows
    <3> QED BY <1>9, <2>1, <3>1
  <2> QED BY <2>2, <2>3
<1>11. rows \in [1..n -> S]
  <2>1. ASSUME NEW k \in 1..n, k # 1 PROVE r[k - 1] \in S
    BY <1>7, <1>9, <2>1
  <2> QED BY <2>1
<1>12. rows \in SlotOrders(t, S)
  <2> HIDE DEF rows
  <2> QED BY <1>10, <1>11 DEF SlotOrders
<1> QED BY <1>3, <1>12

\* A result set whose first j rows lie at or below q, and no other if it is to
\* be counted, has so many rows up to q.
LEMMA RowsOfPrefix ==
  ASSUME NEW t, IsTable(t), NEW c, NEW box, NEW rows \in SlotOrders(t, Counted(t, c, box)),
         NEW q \in Nat, NEW j \in 0..Cardinality(Counted(t, c, box))
  PROVE  /\ (\A k \in 1..j : t[rows[k]].slot <= q) => Cardinality(UpTo(t, c, box, q)) >= j
         /\ (\A k \in (j + 1)..Cardinality(Counted(t, c, box)) : t[rows[k]].slot > q)
              => Cardinality(UpTo(t, c, box, q)) <= j
<1> DEFINE K == Counted(t, c, box)
           n == Cardinality(K)
           U == UpTo(t, c, box, q)
           first == [k \in 1..j |-> rows[k]]
<1>1. /\ n \in Nat /\ IsFiniteSet(K) /\ j \in Nat /\ j <= n
      /\ rows \in [1..n -> K]
      /\ \A k, m \in 1..n : k < m => rows[k] # rows[m] /\ t[rows[k]].slot <= t[rows[m]].slot
  BY CandidatesExist, FS_CardinalityType DEF SlotOrders
<1>2. /\ IsFiniteSet(1..j) /\ Cardinality(1..j) = j
      /\ IsFiniteSet(1..n) /\ Cardinality(1..n) = n
  <2>1. \A m \in Nat : IsFiniteSet(1..m) /\ Cardinality(1..m) = IF 1 > m THEN 0 ELSE m - 1 + 1
    BY FS_Interval
  <2> HIDE DEF n
  <2>2. \A m \in Nat : Cardinality(1..m) = m
    BY <2>1
  <2> QED BY <1>1, <2>1, <2>2
<1>3. IsFiniteSet(U) /\ Cardinality(U) \in Nat
  BY UpToFinite
<1>4. \A k, m \in 1..n : rows[k] = rows[m] => k = m
  BY <1>1
<1>5. \A i \in K : t[i].slot \in Nat
  BY DEF Counted, In, IsTable, Row
<1>6. ASSUME \A k \in 1..j : t[rows[k]].slot <= q
      PROVE  Cardinality(U) >= j
  <2>1. \A k \in 1..j : k \in 1..n /\ rows[k] \in U
    BY <1>1, <1>6 DEF UpTo
  <2>2. first \in Injection(1..j, U)
    BY <1>4, <2>1 DEF Injection, IsInjective
  <2> HIDE DEF first
  <2> QED BY <1>2, <1>3, <2>2, FS_Injection
<1>7. ASSUME \A k \in (j + 1)..n : t[rows[k]].slot > q
      PROVE  Cardinality(U) <= j
  <2>1. rows \in Injection(1..n, K)
    BY <1>1, <1>4 DEF Injection, IsInjective
  <2>2. rows \in Surjection(1..n, K)
    BY <1>1, <1>2, <2>1, FS_Injection
  <2>3. \A i \in K : \E k \in 1..n : rows[k] = i
    BY <2>2 DEF Surjection
  <2> DEFINE g == [i \in U |-> CHOOSE k \in 1..n : rows[k] = i]
  <2>4. ASSUME NEW i \in U PROVE g[i] \in 1..j /\ rows[g[i]] = i
    <3>1. i \in K /\ t[i].slot <= q
      BY DEF UpTo
    <3>2. g[i] \in 1..n /\ rows[g[i]] = i
      BY <2>3, <3>1
    <3>3. ~(g[i] \in (j + 1)..n)
      BY <1>5, <1>7, <3>1, <3>2
    <3> QED BY <1>1, <3>2, <3>3
  <2>5. g \in [U -> 1..j]
    BY <2>4
  <2>6. \A x, y \in U : g[x] = g[y] => x = y
    BY <2>4
  <2> HIDE DEF g
  <2>7. g \in Injection(U, 1..j)
    BY <2>5, <2>6 DEF Injection, IsInjective
  <2> QED BY <1>2, <2>7, FS_Injection
<1> QED BY <1>6, <1>7

\* The least candidate is the only one with no candidate below.
LEMMA SlotIsUnique ==
  ASSUME NEW t, IsTable(t), NEW c, NEW box, Counted(t, c, box) # {},
         NEW p \in Candidates(t, c, box), \A q \in Candidates(t, c, box) : q >= p
  PROVE  FindNextAvailableContainerSlot(t, c, box) = p
<1>1. Candidates(t, c, box) \in SUBSET Nat
  BY CandidatesExist
<1>2. LET r == FindNextAvailableContainerSlot(t, c, box)
      IN  r \in Candidates(t, c, box) /\ \A q \in Candidates(t, c, box) : r <= q
  BY SlotIsLeastCandidate
<1> QED BY <1>1, <1>2

(***************************************************************************)
(* The loop of FindNextAvailableContainerSlot stops at the least candidate *)
(* in any order of the rows: up to a slot that it passed there are too     *)
(* many rows, and behind the row that stops it none that would count.      *)
(***************************************************************************)
THEOREM WalkFindsSlot ==
  ASSUME NEW t, IsTable(t), NEW c, NEW box, NEW rows \in SlotOrders(t, Counted(t, c, box))
  PROVE  FindNextAvailableContainerSlot(t, c, box) = Walk(t, c, box, rows)
<1> DEFINE K == Counted(t, c, box)
           n == Cardinality(K)
           f == FirstSlot(box)
           stops == {k \in 1..n : f + k - 1 < t[rows[k]].slot}
           Up(q) == Cardinality(UpTo(t, c, box, q))
<1>1. /\ f \in Nat /\ n \in Nat /\ IsFiniteSet(K)
      /\ rows \in [1..n -> K]
      /\ \A k, m \in 1..n : k < m => t[rows[k]].slot <= t[rows[m]].slot
      /\ \A k \in 1..n : t[rows[k]].slot \in Nat
  <2>1. f \in Nat /\ n \in Nat /\ IsFiniteSet(K)
    BY CandidatesExist, FS_CardinalityType
  <2>2. /\ rows \in [1..n -> K]
        /\ \A k, m \in 1..n : k < m => t[rows[k]].slot <= t[rows[m]].slot
    BY DEF SlotOrders
  <2>3. \A i \in K : t[i].slot \in Nat
    BY DEF Counted, In, IsTable, Row
  <2> HIDE DEF K, n
  <2> QED BY <2>1, <2>2, <2>3
<1>2. CASE n = 0
  <2>1. K = {}
    BY <1>1, <1>2, FS_EmptySet
  <2> QED BY <1>2, <2>1 DEF FindNextAvailableContainerSlot, Walk
\* The loop came to the row k; f + k - 1 is a candidate and none is below.
<1>3. ASSUME n # 0, NEW k \in 1..(n + 1),
             \A m \in 1..(k - 1) : m \notin stops,
             k = n + 1 \/ k \in stops
      PROVE  FindNextAvailableContainerSlot(t, c, box) = f + k - 1
  <2> DEFINE p == f + k - 1
  <2>1. K # {} /\ p \in f..(f + n) /\ p \in Nat /\ k - 1 \in 0..n /\ (k - 1) + 1 = k
    BY <1>1, <1>3, FS_EmptySet
  <2>2. \A m \in k..n : t[rows[m]].slot > p
    <3> SUFFICES ASSUME NEW m \in k..n PROVE t[rows[m]].slot > p
      OBVIOUS
    <3>1. k \in stops /\ k \in 1..n /\ m \in 1..n
      BY <1>1, <1>3
    <3>2. t[rows[k]].slot > p /\ t[rows[k]].slot <= t[rows[m]].slot
      BY <1>1, <3>1
    <3> QED BY <1>1, <2>1, <3>1, <3>2
  <2>3. Up(p) <= k - 1
    BY <2>1, <2>2, RowsOfPrefix
  <2>4. p \in Candidates(t, c, box)
    BY <1>1, <2>1, <2>3 DEF Candidates
  <2>5. ASSUME NEW q \in Candidates(t, c, box), q < p PROVE FALSE
    <3>1. q \in f..(f + n) /\ Up(q) <= q - f
      BY <2>5 DEF Candidates
    <3>2. q \in Nat /\ q - f + 1 \in 0..n /\ q - f + 1 \in 1..(k - 1)
      BY <1>1, <2>1, <2>5, <3>1
    <3>3. ASSUME NEW m \in 1..(q - f + 1) PROVE t[rows[m]].slot <= q
      <4>1. m \in 1..(k - 1) /\ m \in 1..n /\ m - 1 <= q - f
        BY <1>1, <3>2
      <4>2. ~(f + m - 1 < t[rows[m]].slot)
        BY <1>3, <4>1
      <4> QED BY <1>1, <3>2, <4>1, <4>2
    <3>4. Up(q) >= q - f + 1
      BY <3>2, <3>3, RowsOfPrefix
    <3>5. Up(q) \in Nat
      BY UpToFinite
    <3> QED BY <1>1, <3>1, <3>2, <3>4, <3>5
  <2>6. \A q \in Candidates(t, c, box) : q >= p
    <3>1. Candidates(t, c, box) \in SUBSET Nat
      BY CandidatesExist
    <3> QED BY <2>1, <2>5, <3>1
  <2> QED BY <2>1, <2>4, <2>6, SlotIsUnique
<1>4. CASE n # 0 /\ stops = {}
  <2>1. FindNextAvailableContainerSlot(t, c, box) = f + (n + 1) - 1
    <3>1. n + 1 \in 1..(n + 1) /\ n # 0 /\ \A m \in 1..((n + 1) - 1) : m \notin stops
      <4> HIDE DEF stops, n
      <4> QED BY <1>1, <1>4
    <3> HIDE DEF stops, n, f
    <3> QED BY <1>3, <3>1
  <2>2. Walk(t, c, box, rows) = f + n
    BY <1>4 DEF Walk
  <2> QED BY <1>1, <2>1, <2>2
<1>5. CASE n # 0 /\ stops # {}
  <2>1. PICK k \in stops : \A m \in stops : k <= m
    <3>1. stops \in SUBSET Nat
      BY <1>1
    <3> HIDE DEF stops
    <3> QED BY <1>5, <3>1, LeastNatural
  <2>2. (CHOOSE m \in stops : \A l \in stops : m <= l) = k
    <3>1. \A m \in stops : m \in Nat
      BY <1>1
    <3> HIDE DEF stops
    <3> QED BY <2>1, <3>1
  <2>3. FindNextAvailableContainerSlot(t, c, box) = f + k - 1
    <3>1. k \in 1..(n + 1) /\ n # 0 /\ \A m \in 1..(k - 1) : m \notin stops
      <4>1. k \in 1..n
        OBVIOUS
      <4> HIDE DEF stops
      <4> QED BY <1>1, <1>5, <2>1, <4>1
    <3> HIDE DEF stops, n, f
    <3> QED BY <1>3, <2>1, <3>1
  <2>4. Walk(t, c, box, rows) = f - 1 + k
    BY <1>5, <2>2 DEF Walk
  <2> QED BY <1>1, <2>1, <2>3, <2>4
<1> QED BY <1>2, <1>4, <1>5
=============================================================================
