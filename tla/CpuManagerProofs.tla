-------------------------- MODULE CpuManagerProofs --------------------------
(* Proofs of the properties of CpuManager, for every topology.               *)
EXTENDS CpuManager, TLAPS, FiniteSetTheorems

-----------------------------------------------------------------------------
(* Finite sets in order.                                                     *)

\* rank numbers the members of S in the order of their different numbers f.
Ranked(S, f, below, rank) ==
  /\ f \in [S -> Nat] /\ \A x, y \in S : f[x] = f[y] => x = y
  /\ below \in [S -> SUBSET S] /\ \A x, y \in S : y \in below[x] <=> f[y] < f[x]
  /\ rank \in [S -> Nat] /\ \A x \in S : rank[x] = Cardinality(below[x])

AllRanks(S, f, rank) ==
  /\ Cardinality(S) \in Nat
  /\ \A x \in S : rank[x] \in 0 .. Cardinality(S) - 1
  /\ \A x, y \in S : rank[x] < rank[y] => f[x] < f[y]
  /\ \A x, y \in S : rank[x] = rank[y] => x = y
  /\ \A k \in 0 .. Cardinality(S) - 1 : \E x \in S : rank[x] = k

\* Members of a finite set that have different numbers take all ranks.
LEMMA Ranks ==
  ASSUME NEW S, IsFiniteSet(S), NEW f, NEW below, NEW rank, Ranked(S, f, below, rank)
  PROVE  AllRanks(S, f, rank)
<1> DEFINE n == Cardinality(S)
<1>1. n \in Nat
  BY FS_CardinalityType
<1>2. /\ \A x \in S : f[x] \in Nat /\ rank[x] \in Nat /\ rank[x] = Cardinality(below[x])
      /\ \A x \in S : below[x] \in SUBSET S /\ x \notin below[x]
      /\ \A x, y \in S : y \in below[x] <=> f[y] < f[x]
      /\ \A x, y \in S : f[x] = f[y] => x = y
      /\ DOMAIN rank = S /\ rank = [x \in S |-> rank[x]]
  BY DEF Ranked
<1>3. ASSUME NEW x \in S
      PROVE  /\ IsFiniteSet(below[x])
             /\ rank[x] \in 0 .. n - 1
  <2>1. /\ IsFiniteSet(below[x]) /\ Cardinality(below[x]) <= n
        /\ n = Cardinality(below[x]) => S = below[x]
    BY <1>2, FS_Subset
  <2>2. Cardinality(below[x]) \in Nat
    BY <2>1, FS_CardinalityType
  <2>3. n # Cardinality(below[x])
    BY <1>2, <2>1
  <2> HIDE DEF n
  <2>4. Cardinality(below[x]) \in 0 .. n - 1
    BY <1>1, <2>1, <2>2, <2>3
  <2> QED
    BY <1>2, <2>1, <2>4
<1>4. ASSUME NEW x \in S, NEW y \in S, f[x] < f[y]
      PROVE  rank[x] < rank[y]
  <2>1. below[x] \cup {x} \in SUBSET below[y]
    <3>1. ASSUME NEW z \in below[x]
          PROVE  z \in below[y]
      BY <1>2, <1>4, <3>1
    <3> QED
      BY <1>2, <1>4, <3>1
  <2>2. Cardinality(below[x] \cup {x}) = Cardinality(below[x]) + 1
    BY <1>2, <1>3, FS_AddElement
  <2>3. Cardinality(below[x] \cup {x}) <= Cardinality(below[y])
    BY <1>3, <2>1, FS_Subset
  <2> QED
    BY <1>2, <2>2, <2>3
<1> HIDE DEF n
<1>5. ASSUME NEW x \in S, NEW y \in S, rank[x] < rank[y]
      PROVE  f[x] < f[y]
  <2>1. rank[x] \in Int /\ rank[y] \in Int
    BY <1>1, <1>3
  <2>2. f[x] # f[y]
    BY <1>2, <1>5, <2>1
  <2>3. ~(f[y] < f[x])
    <3> SUFFICES ASSUME f[y] < f[x] PROVE FALSE
      OBVIOUS
    <3>1. rank[y] < rank[x]
      BY <1>4
    <3> QED
      BY <1>5, <2>1, <3>1
  <2> QED
    BY <1>2, <2>2, <2>3
<1>6. ASSUME NEW x \in S, NEW y \in S, rank[x] = rank[y]
      PROVE  x = y
  <2>1. rank[x] \in Int /\ rank[y] \in Int
    BY <1>1, <1>3
  <2>2. ~(f[x] < f[y]) /\ ~(f[y] < f[x])
    BY <1>4, <1>6, <2>1
  <2>3. f[x] = f[y]
    BY <1>2, <2>2
  <2> QED
    BY <1>2, <2>3
<1>7. rank \in Injection(S, 0 .. n - 1)
  <2>1. rank \in [S -> 0 .. n - 1]
    BY <1>2, <1>3
  <2> QED
    BY <1>6, <2>1 DEF Injection, IsInjective
<1>8. IsFiniteSet(0 .. n - 1) /\ Cardinality(0 .. n - 1) = n
  <2>1. 0 \in Int /\ n - 1 \in Int
    BY <1>1
  <2>2. /\ IsFiniteSet(0 .. n - 1)
        /\ Cardinality(0 .. n - 1) = IF 0 > n - 1 THEN 0 ELSE (n - 1) - 0 + 1
    BY <2>1, FS_Interval
  <2> QED
    BY <1>1, <2>2
<1>9. rank \in Surjection(S, 0 .. n - 1)
  BY <1>7, <1>8, FS_Injection DEF n
<1>10. \A k \in 0 .. n - 1 : \E x \in S : rank[x] = k
  BY <1>9 DEF Surjection
<1> QED
  BY <1>1, <1>3, <1>5, <1>6, <1>10 DEF n, AllRanks

\* L holds the members of S once, in ascending order.
InOrder(S, L) ==
  /\ Cardinality(S) \in Nat
  /\ DOMAIN L = 0 .. Cardinality(S) - 1
  /\ \A k \in DOMAIN L : L[k] \in S
  /\ \A j, k \in DOMAIN L : j < k => L[j] < L[k]
  /\ \A c \in S : \E k \in DOMAIN L : L[k] = c
  /\ \A k \in DOMAIN L : Cardinality({d \in S : d < L[k]}) = k

LEMMA ListedInOrder ==
  ASSUME NEW S, IsFiniteSet(S), S \subseteq Nat
  PROVE  InOrder(S, Listed(S))
<1> DEFINE f == [x \in S |-> x]
           below == [x \in S |-> {d \in S : d < x}]
           rank == [x \in S |-> Cardinality(below[x])]
           n == Cardinality(S)
<1>1. /\ f \in [S -> Nat] /\ \A x, y \in S : f[x] = f[y] => x = y
      /\ \A x \in S : f[x] = x
  OBVIOUS
<1>2. /\ below \in [S -> SUBSET S]
      /\ \A x, y \in S : y \in below[x] <=> f[y] < f[x]
      /\ \A x \in S : below[x] = {d \in S : d < x}
  OBVIOUS
<1> HIDE DEF f, below
<1>3. /\ rank \in [S -> Nat]
      /\ \A x \in S : rank[x] = Cardinality(below[x])
  <2>1. \A x \in S : Cardinality(below[x]) \in Nat
    BY <1>2, FS_Subset, FS_CardinalityType
  <2> QED
    BY <2>1
<1> HIDE DEF rank
<1>4. /\ n \in Nat /\ \A x \in S : rank[x] \in 0 .. n - 1
      /\ \A x, y \in S : rank[x] < rank[y] => f[x] < f[y]
      /\ \A x, y \in S : rank[x] = rank[y] => x = y
      /\ \A k \in 0 .. n - 1 : \E x \in S : rank[x] = k
  <2>1. Ranked(S, f, below, rank)
    BY <1>1, <1>2, <1>3 DEF Ranked
  <2>2. AllRanks(S, f, rank)
    BY <2>1, Ranks
  <2> QED
    BY <2>2 DEF AllRanks
<1>5. /\ DOMAIN Listed(S) = 0 .. n - 1
      /\ \A k \in 0 .. n - 1 : Listed(S)[k] = CHOOSE c \in S : rank[c] = k
  BY <1>2, <1>3 DEF Listed
<1> HIDE DEF n
<1>6. \A k \in 0 .. n - 1 : Listed(S)[k] \in S /\ rank[Listed(S)[k]] = k
  BY <1>4, <1>5
<1>7. ASSUME NEW j \in 0 .. n - 1, NEW k \in 0 .. n - 1, j < k
      PROVE  Listed(S)[j] < Listed(S)[k]
  <2>1. /\ Listed(S)[j] \in S /\ rank[Listed(S)[j]] = j
        /\ Listed(S)[k] \in S /\ rank[Listed(S)[k]] = k
    BY <1>6
  <2>2. f[Listed(S)[j]] < f[Listed(S)[k]]
    BY <1>4, <1>7, <2>1
  <2> QED
    BY <1>1, <2>1, <2>2
<1>8. ASSUME NEW c \in S
      PROVE  \E k \in 0 .. n - 1 : Listed(S)[k] = c
  <2>1. rank[c] \in 0 .. n - 1
    BY <1>4
  <2>2. Listed(S)[rank[c]] = c
    BY <1>4, <1>6, <2>1
  <2> QED
    BY <2>1, <2>2
<1>9. \A k \in 0 .. n - 1 : Cardinality({d \in S : d < Listed(S)[k]}) = k
  <2> TAKE k \in 0 .. n - 1
  <2> DEFINE c == Listed(S)[k]
  <2>1. c \in S /\ rank[c] = k
    BY <1>6
  <2> HIDE DEF c
  <2>2. Cardinality({d \in S : d < c}) = k
    BY <1>2, <1>3, <2>1
  <2> QED
    BY <2>2 DEF c
<1> QED
  BY <1>4, <1>5, <1>6, <1>7, <1>8, <1>9 DEF n, InOrder

\* A finite set of numbers has a greatest one, which is in it.
LEMMA Greatest ==
  ASSUME NEW S, IsFiniteSet(S), S \subseteq Nat, S # {}
  PROVE  \E m \in S : \A c \in S : c <= m
<1> DEFINE n == Cardinality(S)
           L == Listed(S)
<1>1. n \in Nat /\ n # 0
  BY FS_CardinalityType, FS_EmptySet
<1>2. /\ DOMAIN L = 0 .. n - 1 /\ \A k \in 0 .. n - 1 : L[k] \in S
      /\ \A j, k \in 0 .. n - 1 : j < k => L[j] < L[k]
      /\ \A c \in S : \E k \in 0 .. n - 1 : L[k] = c
  <2>1. InOrder(S, Listed(S))
    BY ListedInOrder
  <2> QED
    BY <2>1 DEF InOrder
<1> HIDE DEF n, L
<1>3. n - 1 \in 0 .. n - 1
  BY <1>1
<1>4. ASSUME NEW c \in S
      PROVE  c <= L[n - 1]
  <2>1. PICK k \in 0 .. n - 1 : L[k] = c
    BY <1>2
  <2>2. CASE k = n - 1
    BY <2>1, <2>2
  <2>3. CASE k < n - 1
    <3>1. L[k] < L[n - 1] /\ L[k] \in Nat /\ L[n - 1] \in Nat
      BY <1>2, <1>3, <2>3
    <3> QED
      BY <2>1, <3>1
  <2> QED
    BY <1>1, <2>2, <2>3
<1> QED
  BY <1>2, <1>3, <1>4

\* A finite set of numbers has a least one.
LEMMA Least ==
  ASSUME NEW S, IsFiniteSet(S), S \subseteq Nat, S # {}
  PROVE  \E m \in S : \A c \in S : m <= c
<1> DEFINE n == Cardinality(S)
           L == Listed(S)
<1>1. n \in Nat /\ n # 0
  BY FS_CardinalityType, FS_EmptySet
<1>2. /\ DOMAIN L = 0 .. n - 1 /\ \A k \in 0 .. n - 1 : L[k] \in S
      /\ \A j, k \in 0 .. n - 1 : j < k => L[j] < L[k]
      /\ \A c \in S : \E k \in 0 .. n - 1 : L[k] = c
  <2>1. InOrder(S, Listed(S))
    BY ListedInOrder
  <2> QED
    BY <2>1 DEF InOrder
<1> HIDE DEF n, L
<1>3. 0 \in 0 .. n - 1
  BY <1>1
<1>4. ASSUME NEW c \in S
      PROVE  L[0] <= c
  <2>1. PICK k \in 0 .. n - 1 : L[k] = c
    BY <1>2
  <2>2. CASE k = 0
    BY <2>1, <2>2
  <2>3. CASE 0 < k
    <3>1. L[0] < L[k] /\ L[0] \in Nat /\ L[k] \in Nat
      BY <1>2, <1>3, <2>3
    <3> QED
      BY <2>1, <3>1
  <2> QED
    BY <1>1, <2>2, <2>3
<1> QED
  BY <1>2, <1>3, <1>4

-----------------------------------------------------------------------------
(* The cpus and their ids.                                                   *)

LEMMA CpusFinite ==
  /\ NbCpus \in Nat /\ 0 \in Cpus /\ Cpus \subseteq Nat
  /\ IsFiniteSet(Cpus) /\ Cardinality(Cpus) = NbCpus
<1>1. NbCpus \in Nat /\ NbCpus # 0 /\ NbCpus - 1 \in Int
  BY NbCpusAssumption
<1>2. 0 \in Cpus /\ Cpus \subseteq Nat
  BY <1>1 DEF Cpus
<1>3. /\ IsFiniteSet(0 .. NbCpus - 1)
      /\ Cardinality(0 .. NbCpus - 1) = IF 0 > NbCpus - 1 THEN 0 ELSE (NbCpus - 1) - 0 + 1
  BY <1>1, FS_Interval
<1> QED
  BY <1>1, <1>2, <1>3 DEF Cpus

LEMMA MaxCoreId ==
  max_core_id \in Nat /\ \A c \in Cpus : CoreOf[c] \in Nat /\ CoreOf[c] <= max_core_id
<1> DEFINE S == {CoreOf[c] : c \in Cpus}
<1>1. IsFiniteSet(S)
  <2>1. CoreOf \in Surjection(Cpus, S)
    BY TopologyAssumption DEF Surjection
  <2> HIDE DEF S
  <2> QED
    BY <2>1, CpusFinite, FS_Surjection
<1>2. S \subseteq Nat /\ \A c \in Cpus : CoreOf[c] \in Nat
  BY TopologyAssumption
<1>3. S # {}
  BY CpusFinite
<1>4. \E m \in S : \A c \in Cpus : CoreOf[c] <= m
  BY <1>1, <1>2, <1>3, Greatest
<1>5. max_core_id \in S /\ \A c \in Cpus : CoreOf[c] <= max_core_id
  BY <1>4 DEF max_core_id
<1> QED
  BY <1>2, <1>5

\* Numbers with two digits, the low one at most m, compare digit by digit.
LEMMA TwoDigits ==
  ASSUME NEW m \in Nat, NEW a \in 0 .. m, NEW b \in 0 .. m, NEW p \in Nat, NEW q \in Nat
  PROVE  /\ a + p * (m + 1) \in Nat
         /\ p < q => a + p * (m + 1) < b + q * (m + 1)
<1>1. p * (m + 1) \in Nat
  OBVIOUS
<1>2. ASSUME p < q
      PROVE  a + p * (m + 1) < b + q * (m + 1)
  <2>1. PICK r \in Nat : q = p + 1 + r
    <3>1. q - p - 1 \in Nat /\ q = p + 1 + (q - p - 1)
      BY <1>2
    <3> QED
      BY <3>1
  <2>2. q * (m + 1) = p * (m + 1) + (m + 1) + r * (m + 1)
    BY <2>1
  <2>3. r * (m + 1) \in Nat
    OBVIOUS
  <2> QED
    BY <1>1, <2>2, <2>3
<1> QED
  BY <1>1, <1>2

\* Ids are different for different cores, and ascend package by package.
LEMMA Ids ==
  /\ \A c \in Cpus : Id(c) \in Nat
  /\ \A c, d \in Cpus : Id(c) = Id(d) => SameCore(c, d)
  /\ \A c, d \in Cpus : SameCore(c, d) => Id(c) = Id(d)
  /\ \A c, d \in Cpus : Id(c) < Id(d) => Before(c, d)
<1>1. /\ max_core_id \in Nat
      /\ \A c \in Cpus : CoreOf[c] \in 0 .. max_core_id /\ PackageOf[c] \in Nat
  BY MaxCoreId, TopologyAssumption
<1>2. ASSUME NEW c \in Cpus, NEW d \in Cpus
      PROVE  /\ Id(c) \in Nat
             /\ PackageOf[c] < PackageOf[d] => Id(c) < Id(d)
             /\ PackageOf[c] = PackageOf[d] => Id(d) - Id(c) = CoreOf[d] - CoreOf[c]
  <2>1. /\ CoreOf[c] \in 0 .. max_core_id /\ PackageOf[c] \in Nat
        /\ CoreOf[d] \in 0 .. max_core_id /\ PackageOf[d] \in Nat
    BY <1>1
  <2>2. /\ Id(c) \in Nat
        /\ PackageOf[c] < PackageOf[d] => Id(c) < Id(d)
    BY <1>1, <2>1, TwoDigits DEF Id
  <2>3. ASSUME PackageOf[c] = PackageOf[d]
        PROVE  Id(d) - Id(c) = CoreOf[d] - CoreOf[c]
    <3>1. PackageOf[c] * (max_core_id + 1) \in Nat
      BY <1>1, <2>1
    <3> QED
      BY <1>1, <2>1, <2>3, <3>1 DEF Id
  <2> QED
    BY <2>2, <2>3
<1>3. ASSUME NEW c \in Cpus, NEW d \in Cpus
      PROVE  /\ Id(c) = Id(d) => SameCore(c, d)
             /\ Id(c) < Id(d) => Before(c, d)
  <2>1. PackageOf[c] \in Nat /\ PackageOf[d] \in Nat /\ CoreOf[c] \in Nat /\ CoreOf[d] \in Nat
    BY <1>1
  <2>2. Id(c) \in Nat /\ Id(d) \in Nat
    BY <1>2
  <2>3. CASE PackageOf[c] < PackageOf[d]
    BY <1>2, <2>2, <2>3 DEF Before
  <2>4. CASE PackageOf[d] < PackageOf[c]
    BY <1>2, <2>2, <2>4
  <2>5. CASE PackageOf[c] = PackageOf[d]
    <3>1. Id(d) - Id(c) = CoreOf[d] - CoreOf[c]
      BY <1>2, <2>5
    <3> QED
      BY <2>1, <2>2, <2>5, <3>1 DEF Before, SameCore
  <2> QED
    BY <2>1, <2>3, <2>4, <2>5
<1>4. \A c, d \in Cpus : SameCore(c, d) => Id(c) = Id(d)
  BY DEF SameCore, Id
<1> QED
  BY <1>2, <1>3, <1>4

LEMMA Bits ==
  /\ \A c \in Cpus : Bit(c) \in 0 .. Width - 1
  /\ \A c \in Cpus : Id(c) < Width => Bit(c) = Id(c)
<1>1. ASSUME NEW c \in Cpus
      PROVE  Bit(c) \in 0 .. Width - 1 /\ (Id(c) < Width => Bit(c) = Id(c))
  <2>1. Id(c) \in Nat /\ Width \in Nat \ {0}
    BY Ids, WidthAssumption
  <2> QED
    BY <2>1 DEF Bit
<1> QED
  BY <1>1

-----------------------------------------------------------------------------
(* The cpus that are left on, one with each id.                              *)

LEMMA FirstsListed ==
  /\ Firsts \subseteq Cpus /\ 0 \in Firsts /\ IsFiniteSet(Firsts)
  /\ DOMAIN Listed(Firsts) = 0 .. Cardinality(Firsts) - 1
  /\ Cardinality(DOMAIN Listed(Firsts)) = Cardinality(Firsts)
  /\ Cardinality(Firsts) \in Nat
  /\ DOMAIN Listed(Firsts) \subseteq Cpus /\ 0 \in DOMAIN Listed(Firsts)
  /\ \A k \in DOMAIN Listed(Firsts) : Listed(Firsts)[k] \in Firsts
  /\ \A c \in Firsts : \E k \in DOMAIN Listed(Firsts) : Listed(Firsts)[k] = c
<1> DEFINE n == Cardinality(Firsts)
           L == Listed(Firsts)
<1>1. Firsts \subseteq Cpus /\ 0 \in Firsts /\ Firsts \subseteq Nat
  <2>1. \A d \in Cpus : ~(d < 0)
    BY CpusFinite
  <2> QED
    BY <2>1, CpusFinite DEF Firsts
<1>2. /\ IsFiniteSet(Firsts) /\ n \in Nat /\ n <= NbCpus
  <2>1. IsFiniteSet(Firsts) /\ n <= NbCpus
    BY <1>1, CpusFinite, FS_Subset
  <2> QED
    BY <2>1, FS_CardinalityType
<1>3. /\ DOMAIN L = 0 .. n - 1
      /\ \A k \in DOMAIN L : L[k] \in Firsts
      /\ \A c \in Firsts : \E k \in DOMAIN L : L[k] = c
  <2>1. InOrder(Firsts, L)
    BY <1>1, <1>2, ListedInOrder
  <2> QED
    BY <2>1 DEF InOrder
<1>4. Cardinality(DOMAIN L) = n
  <2>1. n - 1 \in Int /\ 0 \in Int
    BY <1>2
  <2>2. Cardinality(0 .. n - 1) = IF 0 > n - 1 THEN 0 ELSE (n - 1) - 0 + 1
    BY <2>1, FS_Interval
  <2> HIDE DEF n
  <2> QED
    BY <1>2, <1>3, <2>2
<1>5. DOMAIN L \subseteq Cpus /\ 0 \in DOMAIN L
  <2> HIDE DEF n, L
  <2>1. n # 0
    BY <1>1, <1>2, <1>3
  <2> QED
    BY <1>2, <1>3, <2>1, CpusFinite DEF Cpus
<1> QED
  BY <1>1, <1>2, <1>3, <1>4, <1>5

\* When they have no gaps the position of a cpu in the list is its number.
LEMMA FirstsNumbered ==
  ASSUME DOMAIN Listed(Firsts) \subseteq Firsts
  PROVE  \A k \in DOMAIN Listed(Firsts) : Listed(Firsts)[k] = k
<1> DEFINE n == Cardinality(Firsts)
           L == Listed(Firsts)
<1>1. /\ n \in Nat /\ Firsts \subseteq Nat /\ IsFiniteSet(Firsts)
      /\ DOMAIN L = 0 .. n - 1 /\ Cardinality(0 .. n - 1) = n
  BY FirstsListed, CpusFinite
<1>2. Firsts = 0 .. n - 1
  <2>1. 0 .. n - 1 \in SUBSET Firsts /\ Cardinality(0 .. n - 1) = Cardinality(Firsts)
    BY <1>1
  <2> HIDE DEF n
  <2> QED
    BY <1>1, <2>1, FS_Subset
<1>3. /\ \A k \in DOMAIN L : L[k] \in Firsts
      /\ \A k \in DOMAIN L : Cardinality({d \in Firsts : d < L[k]}) = k
  <2>1. InOrder(Firsts, L)
    BY <1>1, ListedInOrder
  <2> QED
    BY <2>1 DEF InOrder
<1> HIDE DEF n, L
<1>4. ASSUME NEW k \in DOMAIN L
      PROVE  L[k] = k
  <2>1. L[k] \in 0 .. n - 1
    BY <1>2, <1>3
  <2>2. {d \in Firsts : d < L[k]} = 0 .. L[k] - 1
    BY <1>1, <1>2, <2>1
  <2>3. 0 \in Int /\ L[k] - 1 \in Int
    BY <1>1, <2>1
  <2>4. Cardinality(0 .. L[k] - 1) = IF 0 > L[k] - 1 THEN 0 ELSE (L[k] - 1) - 0 + 1
    BY <2>3, FS_Interval
  <2>5. Cardinality(0 .. L[k] - 1) = L[k]
    BY <1>1, <2>1, <2>4
  <2> QED
    BY <1>3, <2>2, <2>5
<1> QED
  BY <1>4 DEF L

\* Of the cpus with the same bit exactly one is left on.
LEMMA FirstsByBit ==
  /\ \A c \in Cpus : \E d \in Firsts : Bit(d) = Bit(c)
  /\ \A c, d \in Firsts : Bit(c) = Bit(d) => c = d
<1>1. Firsts \subseteq Cpus /\ Cpus \subseteq Nat
  BY FirstsListed, CpusFinite
<1>2. ASSUME NEW c \in Cpus
      PROVE  \E d \in Firsts : Bit(d) = Bit(c)
  <2> DEFINE S == {d \in Cpus : Bit(d) = Bit(c)}
  <2>1. S \subseteq Nat /\ IsFiniteSet(S) /\ S # {}
    BY <1>1, CpusFinite, FS_Subset
  <2>2. PICK m \in S : \A d \in S : m <= d
    BY <2>1, Least
  <2>3. ASSUME NEW d \in Cpus, d < m
        PROVE  Bit(d) # Bit(m)
    <3>1. m \in Nat /\ d \in Nat
      BY <1>1
    <3>2. d \notin S
      BY <2>2, <2>3, <3>1
    <3> QED
      BY <3>2
  <2>4. m \in Firsts
    BY <2>3 DEF Firsts
  <2> QED
    BY <2>4
<1>3. ASSUME NEW c \in Firsts, NEW d \in Firsts, Bit(c) = Bit(d)
      PROVE  c = d
  <2>1. c \in Cpus /\ d \in Cpus /\ c \in Nat /\ d \in Nat
    BY <1>1
  <2>2. ~(c < d) /\ ~(d < c)
    BY <1>3, <2>1 DEF Firsts
  <2> QED
    BY <2>1, <2>2
<1> QED
  BY <1>2, <1>3

-----------------------------------------------------------------------------
(* The inductive invariant.                                                  *)

IInv == TypeOK /\ Hotplug /\ Numbering /\ Reached /\ Settings /\ Restored /\ Boosts

LEMMA InitHolds == Init => IInv
<1> SUFFICES ASSUME Init PROVE IInv
  OBVIOUS
<1>1. TypeOK
  BY CpusFinite, TopologyAssumption, BoundsAssumption
     DEF Init, TypeOK, Locations, Gone, Packages, Empty
<1>2. Hotplug /\ Numbering /\ Reached
  BY DEF Init, Hotplug, Numbering, Reached, Owning, Closing
<1>3. Settings /\ Restored /\ Boosts
  BY DEF Init, Settings, Restored, Boosts, Closing, Gone, Starting, Empty
<1> QED
  BY <1>1, <1>2, <1>3 DEF IInv

LEMMA Stutters == IInv /\ UNCHANGED vars => IInv'
<1> SUFFICES ASSUME IInv, UNCHANGED vars PROVE IInv'
  OBVIOUS
<1> USE DEF vars, machine, manager, files, ghosts
<1>1. TypeOK' /\ Hotplug'
  BY DEF IInv, TypeOK, Hotplug
<1>2. Numbering' /\ Reached'
  BY DEF IInv, Numbering, Reached
<1>3. Settings' /\ Restored'
  BY DEF IInv, Settings, Restored
<1>4. Boosts'
  BY DEF IInv, Boosts
<1> QED
  BY <1>1, <1>2, <1>3, <1>4 DEF IInv

\* The loops over the cpus in use stay inside of the list.
LEMMA OnlineLoops ==
  ASSUME TypeOK, Numbering
  PROVE  /\ online = Listed(Firsts) =>
              /\ NbOnline \in Nat /\ DOMAIN online = 0 .. NbOnline - 1
              /\ 0 \in DOMAIN online /\ DOMAIN online \subseteq Cpus
              /\ \A k \in DOMAIN online : online[k] \in Firsts /\ online[k] \in Cpus
              /\ \A c \in Firsts : \E k \in DOMAIN online : online[k] = c
              /\ i + 1 < NbOnline => i + 1 \in DOMAIN online
         /\ i \in Nat /\ i < NbCpus /\ (i + 1 < NbCpus => i + 1 \in Cpus)
<1>1. i \in Cpus
  BY DEF TypeOK
<1>2. i \in Nat /\ i < NbCpus /\ (i + 1 < NbCpus => i + 1 \in Cpus)
  BY <1>1, CpusFinite DEF Cpus
<1>3. ASSUME online = Listed(Firsts)
      PROVE  /\ NbOnline \in Nat /\ DOMAIN online = 0 .. NbOnline - 1
             /\ 0 \in DOMAIN online /\ DOMAIN online \subseteq Cpus
             /\ \A k \in DOMAIN online : online[k] \in Firsts /\ online[k] \in Cpus
             /\ \A c \in Firsts : \E k \in DOMAIN online : online[k] = c
  BY <1>3, FirstsListed DEF NbOnline
<1>4. ASSUME online = Listed(Firsts), i + 1 < NbOnline
      PROVE  i + 1 \in DOMAIN online
  BY <1>2, <1>3, <1>4
<1> QED
  BY <1>2, <1>3, <1>4

\* Sorting numbers the cpus by their ids.
LEMMA Sorted ==
  ASSUME TypeOK, Numbering, SortIds
  PROVE  /\ online' = online /\ online = Listed(Firsts)
         /\ DOMAIN vid' = DOMAIN online /\ DOMAIN online \subseteq Firsts
         /\ \A c \in DOMAIN vid' : vid'[c] \in DOMAIN vid'
         /\ \A v \in DOMAIN vid' : \E c \in DOMAIN vid' : vid'[c] = v
         /\ \A c, d \in DOMAIN vid' : c < d => Id(vid'[c]) < Id(vid'[d])
         /\ asked' = DOMAIN vid'
<1> DEFINE D == DOMAIN online
           n == Cardinality(D)
           f == [v \in D |-> rid[v]]
           below == [v \in D |-> {u \in D : rid[u] < rid[v]}]
           rank == [v \in D |-> Cardinality(below[v])]
<1>1. /\ pc = "sort" /\ online' = online /\ online = Listed(Firsts)
      /\ D \subseteq Firsts /\ \A v \in D : rid[v] = Id(v)
      /\ vid' = [c \in D |-> CHOOSE v \in D :
                               Cardinality({u \in D : rid[u] < rid[v]}) = c]
      /\ asked' = D
  BY DEF SortIds, Goes, Numbering, Owning
<1>2. D \subseteq Cpus /\ Firsts \subseteq Cpus /\ IsFiniteSet(D) /\ n \in Nat /\ D = 0 .. n - 1
  BY <1>1, FirstsListed, FS_Subset
<1>3. /\ \A v \in D : rid[v] \in Nat
      /\ \A u, v \in D : rid[u] = rid[v] => u = v
  <2>1. \A v \in D : rid[v] \in Nat
    BY <1>1, <1>2, Ids
  <2>2. \A u, v \in D : Id(u) = Id(v) => u = v
    BY <1>1, FirstsByBit DEF Bit
  <2> QED
    BY <1>1, <2>1, <2>2
<1>4. /\ f \in [D -> Nat] /\ \A u, v \in D : f[u] = f[v] => u = v
      /\ \A v \in D : f[v] = rid[v]
      /\ below \in [D -> SUBSET D]
      /\ \A v \in D : below[v] = {u \in D : rid[u] < rid[v]}
  BY <1>3
<1>5. \A u, v \in D : v \in below[u] <=> f[v] < f[u]
  BY <1>4
<1> HIDE DEF f, below
<1>6. /\ rank \in [D -> Nat] /\ \A v \in D : rank[v] = Cardinality(below[v])
  <2>1. \A v \in D : Cardinality(below[v]) \in Nat
    BY <1>2, <1>4, FS_Subset, FS_CardinalityType
  <2> QED
    BY <2>1
<1> HIDE DEF rank, D
<1>7. AllRanks(D, f, rank)
  <2>1. Ranked(D, f, below, rank)
    BY <1>4, <1>5, <1>6 DEF Ranked
  <2> QED
    BY <1>2, <2>1, Ranks
<1>8. /\ \A v \in D : rank[v] \in D
      /\ \A u, v \in D : rank[u] < rank[v] => Id(u) < Id(v)
      /\ \A u, v \in D : rank[u] = rank[v] => u = v
      /\ \A k \in D : \E v \in D : rank[v] = k
  <2>1. \A v \in D : f[v] = Id(v)
    BY <1>1, <1>4
  <2>2. D = 0 .. Cardinality(D) - 1
    BY <1>2
  <2>3. /\ \A v \in D : rank[v] \in D
        /\ \A k \in D : \E v \in D : rank[v] = k
    BY <1>7, <2>2 DEF AllRanks
  <2>4. /\ \A u, v \in D : rank[u] < rank[v] => f[u] < f[v]
        /\ \A u, v \in D : rank[u] = rank[v] => u = v
    BY <1>7 DEF AllRanks
  <2> QED
    BY <2>1, <2>3, <2>4
<1>9. \A v \in D : Cardinality({u \in D : rid[u] < rid[v]}) = rank[v]
  BY <1>4, <1>6
<1>10. DOMAIN vid' = D
  BY <1>1 DEF D
<1>11. ASSUME NEW c \in D
       PROVE  vid'[c] \in D /\ rank[vid'[c]] = c
  <2>1. vid'[c] = CHOOSE v \in D : Cardinality({u \in D : rid[u] < rid[v]}) = c
    BY <1>1 DEF D
  <2>2. \E v \in D : Cardinality({u \in D : rid[u] < rid[v]}) = c
    BY <1>8, <1>9
  <2>3. /\ vid'[c] \in D
        /\ Cardinality({u \in D : rid[u] < rid[vid'[c]]}) = c
    BY <2>1, <2>2
  <2> QED
    BY <1>9, <2>3
<1>12. \A v \in D : \E c \in D : vid'[c] = v
  BY <1>8, <1>11
<1>13. \A c, d \in D : c < d => Id(vid'[c]) < Id(vid'[d])
  BY <1>8, <1>11
<1> QED
  BY <1>1, <1>10, <1>11, <1>12, <1>13 DEF D

LEMMA HotplugStep == IInv /\ Next => Hotplug'
<1> SUFFICES ASSUME IInv, Next PROVE Hotplug'
  OBVIOUS
<1> USE DEF machine, manager, files, ghosts
<1>1. /\ TypeOK /\ Hotplug /\ pc \in Locations /\ hot \subseteq Cpus
      /\ i \in Nat /\ i < NbCpus /\ i \in Cpus
      /\ Cpus \subseteq Nat /\ NbCpus \in Nat /\ \A c \in Cpus : c < NbCpus
      /\ Firsts \subseteq Cpus
  <2>1. TypeOK /\ Hotplug /\ Numbering
    BY DEF IInv
  <2>2. pc \in Locations /\ hot \subseteq Cpus /\ i \in Cpus
    BY <2>1 DEF TypeOK
  <2>3. Cpus \subseteq Nat /\ NbCpus \in Nat /\ \A c \in Cpus : c < NbCpus
    BY CpusFinite DEF Cpus
  <2> QED
    BY <2>1, <2>2, <2>3, FirstsListed
<1>2. CASE SwitchOn
  <2>1. /\ pc = "switchOn" /\ active' = {} /\ hot' = hot \cup {i} /\ hot' \subseteq Cpus
        /\ \A c \in Cpus : c < i + 1 => c \in hot'
    BY <1>1, <1>2 DEF SwitchOn, Turn, Hotplug
  <2>2. CASE i + 1 < NbCpus
    <3>1. pc' = "switchOn" /\ i' = i + 1
      BY <1>2, <2>2 DEF SwitchOn, Turn
    <3> QED
      BY <2>1, <3>1 DEF Hotplug
  <2>3. CASE ~(i + 1 < NbCpus)
    <3>1. pc' = "scan"
      BY <1>2, <2>3 DEF SwitchOn, Turn
    <3>2. \A c \in Cpus : c < i + 1
      BY <1>1, <2>3
    <3>3. hot' = Cpus
      BY <2>1, <3>2
    <3> QED
      BY <2>1, <3>1, <3>3 DEF Hotplug
  <2> QED
    BY <2>2, <2>3
<1>3. CASE SwitchAllOn
  <2>1. /\ pc = "allOn" /\ hot' = hot \cup {i} /\ hot' \subseteq Cpus
        /\ \A c \in Cpus : c < i + 1 => c \in hot'
    BY <1>1, <1>3 DEF SwitchAllOn, Turn, Hotplug
  <2>2. CASE i + 1 < NbCpus
    <3>1. pc' = "allOn" /\ i' = i + 1
      BY <1>3, <2>2 DEF SwitchAllOn, Turn
    <3> QED
      BY <2>1, <3>1 DEF Hotplug
  <2>3. CASE ~(i + 1 < NbCpus)
    <3>1. pc' = "restore"
      BY <1>3, <2>3 DEF SwitchAllOn, Turn
    <3>2. \A c \in Cpus : c < i + 1
      BY <1>1, <2>3
    <3>3. hot' = Cpus
      BY <2>1, <3>2
    <3> QED
      BY <3>1, <3>3 DEF Hotplug
  <2> QED
    BY <2>2, <2>3
<1>4. CASE Scan
  <2>1. /\ pc = "scan" /\ hot = Cpus /\ hot' = hot /\ active' = {}
        /\ pc' = "switchOff" /\ i' = 0
    BY <1>1, <1>4 DEF Scan, Goes, Hotplug
  <2>2. active' = {Bit(c) : c \in 0 .. i' - 1} /\ \A c \in Cpus : c >= i'
    BY <1>1, <2>1
  <2> QED
    BY <2>1, <2>2 DEF Hotplug
<1>5. CASE SwitchOff
  <2>1. /\ pc = "switchOff"
        /\ active = {Bit(c) : c \in 0 .. i - 1}
        /\ \A c \in Cpus : c \in hot <=> c >= i \/ c \in Firsts
        /\ hot' = IF Bit(i) \in active THEN hot \ {i} ELSE hot
        /\ active' = active \cup {Bit(i)}
    BY <1>5 DEF SwitchOff, Turn, IInv, Hotplug
  <2>2. active' = {Bit(c) : c \in 0 .. i}
    <3>1. \A c : c \in 0 .. i <=> c \in 0 .. i - 1 \/ c = i
      BY <1>1
    <3> QED
      BY <2>1, <3>1
  <2>3. i \in Firsts <=> Bit(i) \notin active
    <3>1. \A d : d \in 0 .. i - 1 <=> d \in Cpus /\ d < i
      BY <1>1 DEF Cpus
    <3> QED
      BY <1>1, <2>1, <3>1 DEF Firsts
  <2>4. hot' \subseteq Cpus /\ \A c \in Cpus : c \in hot' <=> c >= i + 1 \/ c \in Firsts
    BY <1>1, <2>1, <2>3
  <2>5. CASE i + 1 < NbCpus
    <3>1. pc' = "switchOff" /\ i' = i + 1
      BY <1>5, <2>5 DEF SwitchOff, Turn
    <3>2. i' - 1 = i
      BY <1>1, <3>1
    <3>3. /\ active' = {Bit(c) : c \in 0 .. i' - 1}
          /\ \A c \in Cpus : c \in hot' <=> c >= i' \/ c \in Firsts
      BY <2>2, <2>4, <3>1, <3>2
    <3> QED
      BY <3>1, <3>3 DEF Hotplug
  <2>6. CASE ~(i + 1 < NbCpus)
    <3>1. pc' = "list"
      BY <1>5, <2>6 DEF SwitchOff, Turn
    <3>2. \A c \in Cpus : ~(c >= i + 1)
      BY <1>1, <2>6
    <3>3. hot' = Firsts
      BY <1>1, <2>4, <3>2
    <3> QED
      BY <3>1, <3>3 DEF Hotplug
  <2> QED
    BY <2>5, <2>6
<1>6. CASE Start \/ Destroy \/ EnableBoost \/ Restore \/ Stopped
  BY <1>1, <1>6 DEF Start, Destroy, EnableBoost, Restore, Stopped, vars,
     Turn, Goes, Gone, Hotplug
<1>7. CASE ListOnline \/ SetUpCpu \/ SortIds \/ SetUpIdle
  BY <1>1, <1>7 DEF ListOnline, SetUpCpu, SortIds, SetUpIdle, Turn, Goes, Hotplug
<1>8. CASE StrayReads \/ OpenMsr \/ DisableBoost
  BY <1>1, <1>8 DEF StrayReads, OpenMsr, DisableBoost, Turn, Goes, Hotplug
<1>9. CASE SleepEnable \/ SleepDisable \/ \E c \in DOMAIN vid : CoreDisable(c) \/ CoreEnable(c)
  BY <1>9 DEF SleepEnable, SleepDisable, CoreDisable, CoreEnable, Call, Hotplug
<1>10. CASE DisableNone \/ StrayCall \/ Crash
  BY <1>10 DEF DisableNone, StrayCall, Crash, Dies, Hotplug
<1> QED
  BY <1>2, <1>3, <1>4, <1>5, <1>6, <1>7, <1>8, <1>9, <1>10 DEF Next

\* What the lemmas below need to know of a state.
LEMMA InUse ==
  ASSUME IInv
  PROVE  /\ TypeOK /\ Hotplug /\ Numbering
         /\ i \in Nat /\ i \in Cpus
         /\ pc \in Owning => online = Listed(Firsts)
         /\ online = Listed(Firsts) =>
              /\ DOMAIN online = 0 .. NbOnline - 1 /\ NbOnline \in Nat
              /\ 0 \in DOMAIN online /\ DOMAIN online \subseteq Cpus
              /\ \A k \in DOMAIN online : online[k] \in Firsts /\ online[k] \in Cpus
              /\ \A c \in Firsts : \E k \in DOMAIN online : online[k] = c
              /\ i + 1 < NbOnline => i + 1 \in DOMAIN online
  BY OnlineLoops DEF IInv, Numbering, TypeOK

LEMMA NumberingStep == IInv /\ Next => Numbering'
<1> SUFFICES ASSUME IInv, Next PROVE Numbering'
  OBVIOUS
<1> USE DEF machine, manager, files, ghosts
<1>1. /\ TypeOK /\ Hotplug /\ Numbering
      /\ i \in Nat /\ i \in Cpus /\ pc \in Locations
  BY InUse DEF TypeOK
<1>2. /\ pc \in Owning => online = Listed(Firsts)
      /\ online = Listed(Firsts) =>
           /\ DOMAIN online = 0 .. NbOnline - 1 /\ NbOnline \in Nat
           /\ 0 \in DOMAIN online
           /\ i + 1 < NbOnline => i + 1 \in DOMAIN online
  BY InUse
<1>3. CASE Start
  BY <1>3 DEF Start, Numbering, Owning, Closing
<1>4. CASE SwitchOn \/ Scan \/ SwitchOff
  BY <1>1, <1>4 DEF SwitchOn, Scan, SwitchOff, Turn, Goes, Numbering, Owning, Closing
<1>5. CASE ListOnline
  <2>1. /\ pc = "list" /\ pc' = "cpus" /\ i' = 0 /\ online = Empty
        /\ online' = Listed(Firsts) /\ rid' = rid /\ vid' = vid
    BY <1>1, <1>5 DEF ListOnline, Goes, Hotplug, Numbering
  <2>2. DOMAIN rid = {}
    BY <1>1, <2>1 DEF TypeOK, Empty
  <2>3. i' \in DOMAIN online' /\ DOMAIN rid' = 0 .. i' - 1
    BY <2>1, <2>2, FirstsListed
  <2>4. vid' # Empty =>
       /\ DOMAIN vid' = DOMAIN online' /\ DOMAIN online' \subseteq Firsts
       /\ \A v \in DOMAIN vid' : \E c \in DOMAIN vid' : vid'[c] = v
       /\ \A c, d \in DOMAIN vid' : c < d => Id(vid'[c]) < Id(vid'[d])
    BY <1>1, <2>1 DEF Numbering
  <2> QED
    BY <2>1, <2>2, <2>3, <2>4 DEF Numbering, Owning, Closing
<1>6. CASE SetUpCpu
  <2>1. /\ pc = "cpus" /\ online = Listed(Firsts) /\ hot = Firsts
        /\ online' = online /\ vid' = vid
        /\ DOMAIN rid = 0 .. i - 1 /\ i \in DOMAIN online
        /\ \A k \in DOMAIN rid : k \in Firsts /\ rid[k] = Id(k)
    BY <1>1, <1>2, <1>6 DEF SetUpCpu, Turn, Goes, Hotplug, Numbering, Owning
  <2>2. CASE i \in hot
    <3>1. rid' = [k \in 0 .. i |-> IF k = i THEN Id(i) ELSE rid[k]]
      BY <1>6, <2>2 DEF SetUpCpu
    <3>2. DOMAIN rid' = 0 .. i /\ \A k \in DOMAIN rid' : k \in Firsts /\ rid'[k] = Id(k)
      <4>1. \A k \in 0 .. i : k = i \/ k \in 0 .. i - 1
        BY <1>1
      <4> QED
        BY <2>1, <2>2, <3>1, <4>1
    <3>3. CASE i + 1 < NbOnline
      <4>1. pc' = "cpus" /\ i' = i + 1 /\ i' - 1 = i
        BY <1>1, <1>6, <2>2, <3>3 DEF SetUpCpu, Turn
      <4> QED
        BY <1>1, <1>2, <2>1, <3>2, <3>3, <4>1 DEF Numbering, Owning
    <3>4. CASE ~(i + 1 < NbOnline)
      <4>1. pc' = "sort"
        BY <1>6, <2>2, <3>4 DEF SetUpCpu, Turn
      <4>2. 0 .. i = DOMAIN online
        BY <1>1, <1>2, <2>1, <3>4
      <4> QED
        BY <1>1, <2>1, <3>2, <4>1, <4>2 DEF Numbering, Owning
    <3> QED
      BY <3>3, <3>4
  <2>3. CASE i \notin hot
    <3>1. pc' = "lost" /\ rid' = rid
      BY <1>6, <2>3 DEF SetUpCpu, Goes
    <3> QED
      BY <1>1, <2>1, <3>1 DEF Numbering, Owning, Closing
  <2> QED
    BY <2>2, <2>3
<1>7. CASE SortIds
  <2>1. /\ online' = online /\ online = Listed(Firsts) /\ pc' = "idle" /\ i' = 0
        /\ DOMAIN vid' = DOMAIN online /\ DOMAIN online \subseteq Firsts
        /\ \A v \in DOMAIN vid' : \E c \in DOMAIN vid' : vid'[c] = v
        /\ \A c, d \in DOMAIN vid' : c < d => Id(vid'[c]) < Id(vid'[d])
    BY <1>1, <1>7, Sorted DEF SortIds, Goes
  <2> QED
    BY <1>2, <2>1 DEF Numbering, Owning
<1>8. CASE SetUpIdle \/ StrayReads \/ OpenMsr \/ DisableBoost
  <2>1. /\ pc \in {"idle", "stray", "msr", "boostOff"}
        /\ pc' \in {"idle", "stray", "msr", "boostOff", "running", "dead"}
        /\ i' = 0 \/ (i' = i + 1 /\ i + 1 < NbOnline)
        /\ online' = online /\ vid' = vid /\ rid' = rid
    <3>1. CASE SetUpIdle
      BY <3>1 DEF SetUpIdle, Turn, Goes
    <3>2. CASE StrayReads
      BY <3>2 DEF StrayReads, Turn, Goes
    <3>3. CASE OpenMsr
      BY <3>3 DEF OpenMsr, Turn, Goes
    <3>4. CASE DisableBoost
      BY <3>4 DEF DisableBoost, Turn, Goes
    <3> QED
      BY <1>8, <3>1, <3>2, <3>3, <3>4
  <2>2. online = Listed(Firsts) /\ i' \in DOMAIN online
    BY <1>2, <2>1 DEF Owning
  <2> QED
    BY <1>1, <2>1, <2>2 DEF Numbering, Owning, Closing
<1>9. CASE Destroy \/ EnableBoost \/ SwitchAllOn \/ Restore
  <2>1. /\ pc \in {"running"} \cup Closing
        /\ pc' \in Closing \cup {"closed", "dead"}
        /\ pc' \in {"boostOn", "restore"} => i' = 0 \/ (i' = i + 1 /\ i + 1 < NbOnline)
        /\ online' = online /\ vid' = vid /\ rid' = rid
    <3>1. CASE Destroy
      BY <3>1 DEF Destroy, Turn, Goes, Closing
    <3>2. CASE EnableBoost
      BY <3>2 DEF EnableBoost, Turn, Goes, Closing
    <3>3. CASE SwitchAllOn
      BY <3>3 DEF SwitchAllOn, Turn, Goes, Closing
    <3>4. CASE Restore
      BY <3>4 DEF Restore, Turn, Goes, Closing
    <3> QED
      BY <1>9, <3>1, <3>2, <3>3, <3>4
  <2>2. /\ online = Listed(Firsts)
        /\ pc' \in {"boostOn", "restore"} => i' \in DOMAIN online
    BY <1>2, <2>1 DEF Owning
  <2> QED
    BY <1>1, <2>1, <2>2 DEF Numbering, Owning, Closing
<1>10. CASE DisableNone \/ StrayCall \/ Crash \/ Stopped
  BY <1>1, <1>10 DEF DisableNone, StrayCall, Crash, Dies, Stopped, vars, Numbering,
     Owning, Closing
<1>11. CASE SleepEnable \/ SleepDisable \/ \E c \in DOMAIN vid : CoreDisable(c) \/ CoreEnable(c)
  BY <1>1, <1>11 DEF SleepEnable, SleepDisable, CoreDisable, CoreEnable, Call, Numbering
<1> QED
  BY <1>3, <1>4, <1>5, <1>6, <1>7, <1>8, <1>9, <1>10, <1>11 DEF Next

\* Cores have different cpus.
LEMMA CoresApart ==
  ASSUME Numbering, NEW c \in DOMAIN vid, NEW d \in DOMAIN vid, vid[c] = vid[d],
         DOMAIN vid \subseteq Nat, \A e \in Cpus : Id(e) \in Nat,
         \A e \in DOMAIN vid : vid[e] \in Cpus
  PROVE  c = d
<1>1. vid # Empty
  BY DEF Empty
<1>2. /\ c < d => Id(vid[c]) < Id(vid[d])
      /\ d < c => Id(vid[d]) < Id(vid[c])
  BY <1>1 DEF Numbering
<1>3. ~(c < d) /\ ~(d < c)
  BY <1>2
<1> QED
  BY <1>3

LEMMA VidType ==
  ASSUME IInv
  PROVE  /\ DOMAIN vid \subseteq Cpus /\ DOMAIN vid \subseteq Nat
         /\ \A e \in DOMAIN vid : vid[e] \in DOMAIN vid /\ vid[e] \in Cpus
         /\ vid = Empty \/ DOMAIN vid \subseteq Firsts
         /\ DOMAIN vid = {} \/ (DOMAIN vid \subseteq Firsts /\ DOMAIN online = DOMAIN vid)
  BY CpusFinite DEF IInv, TypeOK, Numbering, Empty

LEMMA ReachedStep == IInv /\ Next => Reached'
<1> SUFFICES ASSUME IInv, Next PROVE Reached'
  OBVIOUS
<1> USE DEF machine, manager, files, ghosts
<1>1. TypeOK /\ Hotplug /\ Numbering /\ Reached /\ pc \in Locations
  BY DEF IInv, TypeOK
<1>2. /\ \A e \in DOMAIN vid : vid[e] \in DOMAIN vid /\ vid[e] \in Cpus
      /\ \A c, d \in DOMAIN vid : vid[c] = vid[d] => c = d
  BY <1>1, VidType, CoresApart, Ids
<1>3. CASE SortIds
  <2>1. /\ DOMAIN vid' = DOMAIN online /\ DOMAIN online \subseteq Firsts
        /\ \A c \in DOMAIN vid' : vid'[c] \in DOMAIN vid'
        /\ asked' = DOMAIN vid' /\ hot' = Firsts
    BY <1>1, <1>3, Sorted DEF SortIds, Goes, Hotplug
  <2> QED
    BY <2>1 DEF Reached
<1>4. CASE SetUpIdle \/ StrayReads
  BY <1>1, <1>4 DEF SetUpIdle, StrayReads, Turn, Goes, Reached
<1>5. CASE OpenMsr \/ DisableBoost
  BY <1>1, <1>5 DEF OpenMsr, DisableBoost, Turn, Goes, Reached
<1>6. ASSUME NEW c \in DOMAIN vid, CoreDisable(c)
      PROVE  Reached'
  <2>1. /\ pc = "running" /\ vid' = vid
        /\ hot' = hot \ ({vid[c]} \ {0}) /\ asked' = asked \ {c}
    BY <1>6 DEF CoreDisable, Call
  <2>2. \A d \in DOMAIN vid : vid[d] \in hot <=> d \in asked \/ vid[d] = 0
    BY <1>1, <2>1 DEF Reached
  <2>3. \A d \in DOMAIN vid' : vid'[d] \in hot' <=> d \in asked' \/ vid'[d] = 0
    BY <1>2, <2>1, <2>2
  <2> QED
    BY <2>3 DEF Reached
<1>7. ASSUME NEW c \in DOMAIN vid, CoreEnable(c)
      PROVE  Reached'
  <2>1. /\ pc = "running" /\ vid' = vid
        /\ hot' = hot \cup {vid[c]} /\ asked' = asked \cup {c}
    BY <1>7 DEF CoreEnable, Call
  <2>2. \A d \in DOMAIN vid : vid[d] \in hot <=> d \in asked \/ vid[d] = 0
    BY <1>1, <2>1 DEF Reached
  <2>3. \A d \in DOMAIN vid' : vid'[d] \in hot' <=> d \in asked' \/ vid'[d] = 0
    BY <1>2, <2>1, <2>2
  <2> QED
    BY <2>3 DEF Reached
<1>8. CASE SleepEnable \/ SleepDisable
  BY <1>1, <1>8 DEF SleepEnable, SleepDisable, Call, Reached
<1>9. CASE Start \/ SwitchOn \/ Scan \/ SwitchOff \/ ListOnline
  BY <1>9 DEF Start, SwitchOn, Scan, SwitchOff, ListOnline, Turn, Goes, Reached
<1>10. CASE SetUpCpu
  BY <1>10 DEF SetUpCpu, Turn, Goes, Reached
<1>11. CASE Destroy \/ EnableBoost \/ SwitchAllOn \/ Restore
  BY <1>11 DEF Destroy, EnableBoost, SwitchAllOn, Restore, Turn, Goes, Reached
<1>12. CASE DisableNone \/ StrayCall \/ Crash \/ Stopped
  BY <1>1, <1>12 DEF DisableNone, StrayCall, Crash, Dies, Stopped, vars, Gone, Reached
<1> QED
  BY <1>3, <1>4, <1>5, <1>6, <1>7, <1>8, <1>9, <1>10, <1>11, <1>12 DEF Next

LEMMA SettingsStep == IInv /\ Next => Settings' /\ Restored'
<1> SUFFICES ASSUME IInv, Next PROVE Settings' /\ Restored'
  OBVIOUS
<1> USE DEF machine, manager, files, ghosts
<1>1. /\ TypeOK /\ Hotplug /\ Settings /\ Restored /\ pc \in Locations
      /\ i \in Nat /\ i \in Cpus /\ Firsts \subseteq Cpus
      /\ governor \in [Cpus -> {"initial", "userspace", "ondemand"}]
  BY InUse, FirstsListed DEF IInv, TypeOK
<1>2. /\ pc \in Owning => online = Listed(Firsts)
      /\ online = Listed(Firsts) =>
           /\ DOMAIN online = 0 .. NbOnline - 1 /\ NbOnline \in Nat /\ 0 \in DOMAIN online
           /\ \A k \in DOMAIN online : online[k] \in Firsts /\ online[k] \in Cpus
           /\ \A c \in Firsts : \E k \in DOMAIN online : online[k] = c
      /\ pc \in {"cpus", "idle", "restore"} => i \in DOMAIN online
  <2>1. Numbering
    BY DEF IInv
  <2> QED
    BY <2>1, InUse DEF Numbering
<1>3. CASE Restore
  <2> DEFINE Blind == stuck \cup unopened
  <2>1. /\ pc = "restore" /\ online = Listed(Firsts) /\ i \in DOMAIN online
        /\ hot = Cpus /\ hot' = Cpus /\ online' = online /\ online[i] \in Cpus
        /\ stuck' = stuck /\ unopened' = unopened
        /\ \A k \in 0 .. i - 1 :
             governor[online[k]] # "userspace" /\ (online[k] \in polling => online[k] \in Blind)
    BY <1>1, <1>2, <1>3 DEF Restore, Turn, Goes, Hotplug, Settings, Owning, Closing
  <2>2. /\ governor' = [governor EXCEPT ![online[i]] = "ondemand"]
        /\ polling' = polling \ ({online[i]} \ Blind)
    BY <1>3, <2>1 DEF Restore, Writable
  <2>3. /\ \A c \in Cpus : governor'[c] = "userspace" => c \in Firsts
        /\ polling' \subseteq Firsts
    BY <1>1, <2>1, <2>2 DEF Settings
  <2>4. \A k \in 0 .. i :
          governor'[online[k]] # "userspace" /\ (online[k] \in polling' => online[k] \in Blind)
    <3>1. \A k \in 0 .. i : (k = i \/ k \in 0 .. i - 1) /\ k \in DOMAIN online
      BY <1>1, <1>2, <2>1
    <3>2. \A k \in 0 .. i : online[k] \in Cpus
      BY <1>2, <2>1, <3>1
    <3> QED
      BY <1>1, <2>1, <2>2, <3>1, <3>2
  <2>5. CASE pc' = "dead"
    BY <2>3, <2>5 DEF Settings, Restored
  <2>6. CASE pc' = "restore"
    <3>1. i' = i + 1 /\ i' - 1 = i
      BY <1>1, <1>3, <2>6 DEF Restore, Turn, Goes
    <3> QED
      BY <2>1, <2>3, <2>4, <2>6, <3>1 DEF Settings, Restored
  <2>7. CASE pc' = "closed"
    <3>1. 0 .. i = DOMAIN online
      BY <1>1, <1>2, <1>3, <2>1, <2>7 DEF Restore, Turn, Goes
    <3>2. \A c \in Firsts : governor'[c] # "userspace" /\ (c \in polling' => c \in Blind)
      BY <1>2, <2>1, <2>4, <3>1
    <3>3. polling' \subseteq Blind /\ \A c \in Cpus : governor'[c] # "userspace"
      BY <2>3, <3>2
    <3> QED
      BY <2>1, <2>3, <2>7, <3>3 DEF Settings, Restored
  <2> QED
    BY <1>3, <2>5, <2>6, <2>7 DEF Restore, Turn, Goes
<1>4. CASE SetUpCpu
  <2>1. /\ pc = "cpus" /\ pc' \in {"cpus", "sort", "lost"} /\ polling' = polling
        /\ governor' = [governor EXCEPT ![online[i]] = "userspace"]
        /\ online[i] \in Firsts
    BY <1>2, <1>4 DEF SetUpCpu, Turn, Goes, Owning
  <2> QED
    BY <1>1, <2>1 DEF Settings, Restored
<1>5. CASE SetUpIdle
  <2>1. /\ pc = "idle" /\ pc' \in {"idle", "stray"} /\ governor' = governor
        /\ polling' \subseteq polling \cup {online[i]} /\ online[i] \in Firsts
    BY <1>2, <1>5 DEF SetUpIdle, Turn, Owning
  <2> QED
    BY <1>1, <2>1 DEF Settings, Restored
<1>6. CASE SleepEnable \/ SleepDisable
  <2>1. /\ pc = "running" /\ pc' = "running" /\ governor' = governor
        /\ polling' \subseteq polling \cup {online[0]} /\ online[0] \in Firsts
    BY <1>2, <1>6 DEF SleepEnable, SleepDisable, Call, Owning
  <2> QED
    BY <1>1, <2>1 DEF Settings, Restored
<1>7. CASE SwitchAllOn
  <2>1. /\ governor' = governor /\ polling' = polling
        /\ pc' \in {"allOn", "restore"} /\ (pc' = "restore" => 0 .. i' - 1 = {})
    BY <1>7 DEF SwitchAllOn, Turn
  <2> QED
    BY <1>1, <2>1 DEF Settings, Restored
<1>8. CASE Start \/ SwitchOn \/ Scan \/ SwitchOff \/ ListOnline \/ SortIds
  <2>1. /\ governor' = governor /\ polling' = polling
        /\ pc' \notin {"restore", "closed"}
    BY <1>8 DEF Start, SwitchOn, Scan, SwitchOff, ListOnline, SortIds, Turn, Goes
  <2> QED
    BY <1>1, <2>1 DEF Settings, Restored
<1>9. CASE \/ StrayReads \/ OpenMsr \/ DisableBoost \/ DisableNone
           \/ StrayCall \/ Destroy \/ EnableBoost \/ Crash
  <2>1. /\ governor' = governor /\ polling' = polling
        /\ pc' \notin {"restore", "closed"}
    BY <1>9 DEF StrayReads, OpenMsr, DisableBoost, DisableNone, StrayCall, Destroy,
       EnableBoost, Crash, Dies, Turn, Goes
  <2> QED
    BY <1>1, <2>1 DEF Settings, Restored
<1>10. CASE \E c \in DOMAIN vid : CoreDisable(c) \/ CoreEnable(c)
  <2>1. governor' = governor /\ polling' = polling /\ pc' = "running"
    BY <1>10 DEF CoreDisable, CoreEnable, Call
  <2> QED
    BY <1>1, <2>1 DEF Settings, Restored
<1>11. CASE Stopped
  BY <1>1, <1>11 DEF Stopped, vars, Settings, Restored
<1> QED
  BY <1>3, <1>4, <1>5, <1>6, <1>7, <1>8, <1>9, <1>10, <1>11 DEF Next

LEMMA BoostsStep == IInv /\ Next => Boosts'
<1> SUFFICES ASSUME IInv, Next PROVE Boosts'
  OBVIOUS
<1> USE DEF machine, manager, files, ghosts
<1>1. /\ TypeOK /\ Hotplug /\ Boosts /\ pc \in Locations
      /\ i \in Nat /\ i \in Cpus /\ Firsts \subseteq Cpus
      /\ boost \subseteq Packages /\ bootBoost \subseteq Packages
      /\ DOMAIN saved \subseteq DOMAIN online /\ unread \subseteq DOMAIN online
      /\ \A k \in DOMAIN online : PackageOf[online[k]] \in Packages
  BY InUse, FirstsListed DEF IInv, TypeOK, Packages
<1>2. /\ pc \in Owning => online = Listed(Firsts)
      /\ online = Listed(Firsts) =>
           /\ DOMAIN online = 0 .. NbOnline - 1 /\ NbOnline \in Nat /\ 0 \in DOMAIN online
           /\ \A k \in DOMAIN online : online[k] \in Firsts /\ online[k] \in Cpus
           /\ \A c \in Firsts : \E k \in DOMAIN online : online[k] = c
      /\ pc \in {"msr", "boostOff", "boostOn", "restore"} => i \in DOMAIN online
  <2>1. Numbering
    BY DEF IInv
  <2> QED
    BY <2>1, InUse DEF Numbering
<1> DEFINE Used == {PackageOf[c] : c \in Firsts}
           Back(p) == p \notin spoiled => (p \in boost <=> p \in bootBoost)
           After(p) == p \notin spoiled' => (p \in boost' <=> p \in bootBoost')
           Others == \A p \in Packages \ Used : Back(p)
           Kept == \A k \in DOMAIN saved :
                     PackageOf[online[k]] \notin spoiled =>
                       (saved[k] <=> PackageOf[online[k]] \in bootBoost)
           Guessed == \A k \in unread : PackageOf[online[k]] \in spoiled
<1>3. /\ Others /\ Kept /\ Guessed
      /\ pc \in Gone \cup (Starting \ {"boostOff"}) => \A p \in Packages : Back(p)
      /\ pc = "boostOff" => \A k \in 0 .. i - 1 : k \in DOMAIN saved
      /\ pc \in {"running"} \cup Closing => DOMAIN saved = DOMAIN online
      /\ pc = "restore" => \A k \in 0 .. i - 1 : Back(PackageOf[online[k]])
  BY <1>1 DEF Boosts
<1>4. ASSUME pc' = "dead", spoiled' = Packages,
             UNCHANGED <<online, saved, unread, bootBoost>>
      PROVE  Boosts'
  BY <1>1, <1>4 DEF Boosts, Closing
<1>5. CASE OpenMsr
  <2>1. /\ pc = "msr" /\ online = Listed(Firsts) /\ i \in DOMAIN online
        /\ online' = online /\ boost' = boost /\ bootBoost' = bootBoost
        /\ \A p \in Packages : Back(p)
        /\ pc' \in {"msr", "boostOff"} /\ (pc' = "boostOff" => 0 .. i' - 1 = {})
    BY <1>2, <1>3, <1>5 DEF OpenMsr, Turn, Owning, Starting
  <2>2. spoiled \subseteq spoiled'
    BY <1>5 DEF OpenMsr
  <2>3. Kept'
    <3>1. CASE Keeps(PackageOf[online[i]] \in boost) /\ spoiled' = spoiled
      BY <1>1, <1>3, <2>1, <3>1 DEF Keeps
    <3>2. CASE (\E content \in BOOLEAN : Keeps(content)) /\ PackageOf[online[i]] \in spoiled'
      BY <1>3, <2>1, <2>2, <3>2 DEF Keeps
    <3>3. CASE saved' = saved
      BY <1>3, <2>1, <2>2, <3>3
    <3> QED
      BY <1>5, <3>1, <3>2, <3>3 DEF OpenMsr
  <2>4. Guessed'
    BY <1>3, <1>5, <2>1 DEF OpenMsr
  <2> QED
    BY <2>1, <2>2, <2>3, <2>4 DEF Boosts, Closing
<1>6. CASE DisableBoost
  <2>1. /\ pc = "boostOff" /\ online = Listed(Firsts) /\ i \in DOMAIN saved
        /\ PackageOf[online[i]] \in Used
        /\ boost' = boost \/ boost' = boost \ {PackageOf[online[i]]}
        /\ UNCHANGED <<online, saved, unread, bootBoost, spoiled>>
    BY <1>2, <1>6 DEF DisableBoost, Written, Turn, Owning
  <2>2. Others' /\ Kept' /\ Guessed'
    BY <1>3, <2>1
  <2>3. \A k \in 0 .. i : k \in DOMAIN saved
    <3>1. \A k \in 0 .. i : k = i \/ k \in 0 .. i - 1
      BY <1>1
    <3> QED
      BY <1>3, <2>1, <3>1
  <2>4. CASE i + 1 < NbOnline
    <3>1. pc' = "boostOff" /\ i' = i + 1 /\ i' - 1 = i
      BY <1>1, <1>6, <2>4 DEF DisableBoost, Turn
    <3> QED
      BY <2>1, <2>2, <2>3, <3>1 DEF Boosts, Closing, Gone, Starting
  <2>5. CASE ~(i + 1 < NbOnline)
    <3>1. pc' = "running"
      BY <1>6, <2>5 DEF DisableBoost, Turn
    <3>2. DOMAIN online \subseteq 0 .. i
      BY <1>1, <1>2, <2>1, <2>5
    <3>3. DOMAIN saved' = DOMAIN online'
      BY <1>1, <2>1, <2>3, <3>2
    <3> QED
      BY <2>1, <2>2, <3>1, <3>3 DEF Boosts, Closing, Gone, Starting
  <2> QED
    BY <2>4, <2>5
<1>7. CASE \E c \in DOMAIN vid : CoreDisable(c) \/ CoreEnable(c)
  <2>1. /\ pc = "running" /\ pc' = "running"
        /\ UNCHANGED <<online, saved, unread, bootBoost, spoiled>>
    BY <1>7 DEF CoreDisable, CoreEnable, Call
  <2>2. PICK D \in SUBSET DOMAIN vid : boost' = boost \ {PackageOf[online[vid[d]]] : d \in D}
    <3>1. ASSUME NEW c \in DOMAIN vid, CoreDisable(c)
          PROVE  \E D \in SUBSET DOMAIN vid :
                   boost' = boost \ {PackageOf[online[vid[d]]] : d \in D}
      BY <3>1 DEF CoreDisable, DisableOthers
    <3>2. ASSUME NEW c \in DOMAIN vid, CoreEnable(c)
          PROVE  \E D \in SUBSET DOMAIN vid :
                   boost' = boost \ {PackageOf[online[vid[d]]] : d \in D}
      <4>1. boost' = boost \ {PackageOf[online[vid[d]]] : d \in {}}
        BY <3>2 DEF CoreEnable
      <4> QED
        BY <4>1
    <3> QED
      BY <1>7, <3>1, <3>2
  <2>3. \A d \in DOMAIN vid : PackageOf[online[vid[d]]] \in Used
    BY <1>2, <2>1, VidType DEF Owning
  <2>4. Others' /\ Kept' /\ Guessed'
    BY <1>3, <2>1, <2>2, <2>3
  <2> QED
    BY <1>3, <2>1, <2>4 DEF Boosts, Closing, Gone, Starting
<1>8. CASE EnableBoost
  <2>1. /\ pc = "boostOn" /\ pc' \in {"boostOn", "allOn"} /\ online = Listed(Firsts)
        /\ PackageOf[online[i]] \in Used
        /\ boost' = boost \/ boost' = boost \cup {PackageOf[online[i]]}
        /\ UNCHANGED <<online, saved, unread, bootBoost, spoiled>>
    BY <1>2, <1>8 DEF EnableBoost, Written, Turn, Owning, Closing
  <2>2. Others' /\ Kept' /\ Guessed'
    BY <1>3, <2>1
  <2> QED
    BY <1>3, <2>1, <2>2 DEF Boosts, Closing, Gone, Starting
<1>9. CASE Restore
  <2>1. /\ pc = "restore" /\ online = Listed(Firsts) /\ i \in DOMAIN online /\ hot = Cpus
        /\ online[i] \in Cpus /\ PackageOf[online[i]] \in Used
        /\ UNCHANGED <<online, saved, unread, bootBoost>>
    BY <1>1, <1>2, <1>9 DEF Restore, Turn, Goes, Owning, Closing, Hotplug
  <2>2. CASE pc' = "dead"
    BY <1>4, <1>9, <2>1, <2>2 DEF Restore, Turn, Goes
  <2>3. CASE pc' # "dead"
    <3>1. Turn("restore", NbOnline, "closed") /\ spoiled' = spoiled
      BY <1>9, <2>3 DEF Restore, Goes
    <3>2. boost' \in Written(i, IF saved[i] THEN boost \cup {PackageOf[online[i]]}
                                             ELSE boost \ {PackageOf[online[i]]})
      BY <1>9, <2>1 DEF Restore
    <3>3. /\ \A p : p # PackageOf[online[i]] => (p \in boost' <=> p \in boost)
          /\ After(PackageOf[online[i]])
      <4>1. /\ saved[i] => boost' = boost \cup {PackageOf[online[i]]} \/ (boost' = boost /\ i \in unread)
            /\ ~saved[i] => boost' = boost \ {PackageOf[online[i]]} \/ (boost' = boost /\ i \in unread)
        BY <3>2 DEF Written
      <4>2. i \in DOMAIN saved
        BY <1>3, <2>1 DEF Closing
      <4>3. i \in unread => PackageOf[online[i]] \in spoiled'
        BY <1>3, <3>1
      <4>4. PackageOf[online[i]] \notin spoiled =>
              (saved[i] <=> PackageOf[online[i]] \in bootBoost)
        BY <1>3, <4>2
      <4>5. CASE saved[i]
        BY <2>1, <3>1, <4>1, <4>3, <4>4, <4>5
      <4>6. CASE ~saved[i]
        BY <2>1, <3>1, <4>1, <4>3, <4>4, <4>6
      <4> QED
        BY <4>5, <4>6
    <3>4. Others' /\ Kept' /\ Guessed'
      BY <1>3, <2>1, <3>1, <3>3
    <3>5. \A k \in 0 .. i : Back(PackageOf[online[k]])'
      <4>1. \A k \in 0 .. i : k = i \/ k \in 0 .. i - 1
        BY <1>1
      <4> QED
        BY <1>3, <2>1, <3>1, <3>3, <4>1
    <3>6. DOMAIN saved' = DOMAIN online'
      BY <1>3, <2>1 DEF Closing
    <3>7. CASE i + 1 < NbOnline
      <4>1. pc' = "restore" /\ i' = i + 1 /\ i' - 1 = i
        BY <1>1, <3>1, <3>7 DEF Turn
      <4> QED
        BY <2>1, <3>1, <3>4, <3>5, <3>6, <4>1 DEF Boosts, Closing, Gone, Starting
    <3>8. CASE ~(i + 1 < NbOnline)
      <4>1. pc' = "closed"
        BY <3>1, <3>8 DEF Turn
      <4>2. 0 .. i = DOMAIN online
        BY <1>1, <1>2, <2>1, <3>8
      <4>3. \A p \in Used : Back(p)'
        BY <1>2, <2>1, <3>5, <4>2
      <4>4. \A p \in Packages : Back(p)'
        BY <3>4, <4>3
      <4> QED
        BY <2>1, <3>1, <3>4, <4>1, <4>4 DEF Boosts, Closing, Gone
    <3> QED
      BY <3>7, <3>8
  <2> QED
    BY <2>2, <2>3
<1>10. CASE Destroy \/ SwitchAllOn
  <2>1. /\ pc \in {"running", "allOn"} /\ pc' \in Closing /\ boost' = boost
        /\ pc' = "restore" => 0 .. i' - 1 = {}
        /\ UNCHANGED <<online, saved, unread, bootBoost, spoiled>>
    BY <1>10 DEF Destroy, SwitchAllOn, Turn, Goes, Closing
  <2> QED
    BY <1>3, <2>1 DEF Boosts, Closing, Gone, Starting
<1>11. CASE SleepEnable \/ SleepDisable
  <2>1. /\ pc = "running" /\ pc' = "running" /\ boost' = boost
        /\ UNCHANGED <<online, saved, unread, bootBoost, spoiled>>
    BY <1>11 DEF SleepEnable, SleepDisable, Call
  <2> QED
    BY <1>3, <2>1 DEF Boosts, Closing, Gone, Starting
<1>12. CASE Start
  <2>1. /\ pc \in Gone /\ pc' = "switchOn" /\ saved' = Empty /\ unread' = {}
        /\ boost' = boost /\ bootBoost' = bootBoost /\ spoiled' = spoiled
    BY <1>12 DEF Start
  <2> QED
    BY <1>3, <2>1 DEF Boosts, Closing, Empty
<1>13. CASE SwitchOn \/ Scan \/ SwitchOff \/ SetUpCpu \/ SortIds \/ SetUpIdle \/ StrayReads
  <2>1. /\ pc \in Starting \ {"boostOff"}
        /\ pc' \notin {"boostOff", "running"} \cup Closing
        /\ boost' = boost
        /\ UNCHANGED <<online, saved, unread, bootBoost, spoiled>>
    <3>1. CASE SwitchOn \/ Scan \/ SwitchOff
      BY <3>1 DEF SwitchOn, Scan, SwitchOff, Turn, Goes, Starting, Closing
    <3>2. CASE SetUpCpu \/ SortIds
      BY <3>2 DEF SetUpCpu, SortIds, Turn, Goes, Starting, Closing
    <3>3. CASE SetUpIdle \/ StrayReads
      BY <3>3 DEF SetUpIdle, StrayReads, Turn, Goes, Starting, Closing
    <3> QED
      BY <1>13, <3>1, <3>2, <3>3
  <2> QED
    BY <1>3, <2>1 DEF Boosts, Closing
<1>14. CASE ListOnline
  <2>1. /\ pc = "list" /\ pc' = "cpus" /\ boost' = boost
        /\ UNCHANGED <<saved, unread, bootBoost, spoiled>>
    BY <1>14 DEF ListOnline, Goes
  <2>2. DOMAIN online = {}
    BY <2>1, InUse DEF Numbering, Empty
  <2>3. DOMAIN saved = {} /\ unread = {}
    BY <1>1, <2>2
  <2> QED
    BY <1>3, <2>1, <2>3 DEF Boosts, Closing, Starting
<1>15. CASE DisableNone \/ StrayCall \/ Crash
  <2>1. /\ pc' = "dead" /\ spoiled' = IF pc \in Changing THEN Packages ELSE spoiled
        /\ pc \notin Gone /\ boost' = boost
        /\ UNCHANGED <<online, saved, unread, bootBoost>>
    BY <1>15 DEF DisableNone, StrayCall, Crash, Dies, Gone
  <2>2. CASE pc \in Changing
    BY <1>4, <2>1, <2>2
  <2>3. CASE pc \notin Changing
    <3>1. pc \in Starting \ {"boostOff"}
      BY <1>1, <2>1, <2>3 DEF Changing, Locations
    <3> QED
      BY <1>3, <2>1, <2>3, <3>1 DEF Boosts, Closing
  <2> QED
    BY <2>2, <2>3
<1>16. CASE Stopped
  BY <1>1, <1>16 DEF Stopped, vars, Boosts
<1> QED
  BY <1>5, <1>6, <1>7, <1>8, <1>9, <1>10, <1>11, <1>12, <1>13, <1>14, <1>15, <1>16 DEF Next

LEMMA TypeStep == IInv /\ Next => TypeOK'
<1> SUFFICES ASSUME IInv, Next PROVE TypeOK'
  OBVIOUS
<1> USE DEF machine, manager, files, ghosts
<1>1. /\ TypeOK /\ Numbering /\ Hotplug /\ i \in Nat /\ i \in Cpus /\ 0 \in Cpus
      /\ (i + 1 < NbCpus => i + 1 \in Cpus) /\ Firsts \subseteq Cpus
      /\ MaxCrashes \in Nat /\ MaxRuns \in Nat /\ MaxSwitches \in Nat
      /\ \A k \in DOMAIN online : PackageOf[online[k]] \in Packages
  BY InUse, OnlineLoops, FirstsListed, BoundsAssumption, CpusFinite DEF TypeOK, Packages
<1>2. /\ pc \in Owning => online = Listed(Firsts)
      /\ online = Listed(Firsts) =>
           /\ DOMAIN online = 0 .. NbOnline - 1 /\ NbOnline \in Nat
           /\ 0 \in DOMAIN online /\ DOMAIN online \subseteq Cpus
           /\ \A k \in DOMAIN online : online[k] \in Firsts /\ online[k] \in Cpus
           /\ i + 1 < NbOnline => i + 1 \in DOMAIN online
      /\ pc \in {"cpus", "idle", "msr", "boostOff", "boostOn", "restore"} => i \in DOMAIN online
  BY <1>1, InUse DEF Numbering
<1>3. CASE Start
  <2>1. /\ pc' = "switchOn" /\ i' = 0 /\ poll' \in BOOLEAN /\ active' = {}
        /\ online' = Empty /\ rid' = Empty /\ vid' = Empty /\ saved' = Empty
        /\ unread' = {} /\ unopened' = {} /\ stuck' = {}
        /\ asked' = {} /\ runs' \in 0 .. MaxRuns
        /\ UNCHANGED <<hot, governor, polling, boost, bootBoost, spoiled, crashes, switches>>
    BY <1>1, <1>3 DEF Start, TypeOK
  <2> QED
    BY <1>1, <2>1 DEF TypeOK, Empty, Locations, Starting
<1>4. CASE SwitchOn
  <2>1. /\ pc' \in Locations /\ i' \in Cpus /\ hot' = hot \cup {i}
        /\ UNCHANGED <<governor, polling, boost, poll, active, online, rid, vid, files, ghosts>>
    BY <1>1, <1>4 DEF SwitchOn, Turn, Locations, Starting
  <2> QED
    BY <1>1, <2>1 DEF TypeOK
<1>5. CASE Scan
  <2>1. /\ pc' \in Locations /\ i' \in Cpus
        /\ UNCHANGED <<machine, poll, active, online, rid, vid, files, ghosts>>
    BY <1>1, <1>5 DEF Scan, Goes, Locations, Starting, Gone
  <2> QED
    BY <1>1, <2>1 DEF TypeOK
<1>6. CASE SwitchOff
  <2>1. /\ pc' \in Locations /\ i' \in Cpus /\ hot' \subseteq hot
        /\ active' = active \cup {Bit(i)} /\ Bit(i) \in 0 .. Width - 1
        /\ UNCHANGED <<governor, polling, boost, poll, online, rid, vid, files, ghosts>>
    BY <1>1, <1>6, Bits DEF SwitchOff, Turn, Locations, Starting
  <2> QED
    BY <1>1, <2>1 DEF TypeOK
<1>7. CASE ListOnline
  <2>1. /\ pc = "list" /\ pc' \in Locations /\ i' \in Cpus
        /\ online = Empty /\ online' = Listed(Firsts)
        /\ UNCHANGED <<machine, poll, active, rid, vid, files, ghosts>>
    BY <1>1, <1>7 DEF ListOnline, Goes, Locations, Starting, Hotplug, Numbering
  <2>2. DOMAIN rid = {} /\ DOMAIN vid = {} /\ DOMAIN saved = {} /\ unread = {}
    BY <1>1, <2>1 DEF TypeOK, Empty
  <2>3. DOMAIN online' \subseteq Cpus /\ \A k \in DOMAIN online' : online'[k] \in Cpus
    BY <1>1, <2>1, FirstsListed
  <2> QED
    BY <1>1, <2>1, <2>2, <2>3 DEF TypeOK
<1>8. CASE SetUpCpu
  <2>1. /\ pc = "cpus" /\ pc' \in Locations /\ i' \in Cpus /\ online[i] \in Cpus
        /\ online = Listed(Firsts) /\ i \in DOMAIN online /\ online' = online
        /\ governor' = [governor EXCEPT ![online[i]] = "userspace"]
        /\ UNCHANGED <<hot, polling, boost, poll, active, vid, files, ghosts>>
    BY <1>1, <1>2, <1>8 DEF SetUpCpu, Turn, Goes, Locations, Starting, Gone, Owning
  <2>2. DOMAIN rid' \subseteq DOMAIN online'
    <3>1. DOMAIN rid' \subseteq 0 .. i \/ rid' = rid
      BY <1>8 DEF SetUpCpu
    <3>2. 0 .. i \subseteq DOMAIN online
      BY <1>1, <1>2, <2>1
    <3> QED
      BY <1>1, <2>1, <3>1, <3>2 DEF TypeOK
  <2>3. governor' \in [Cpus -> {"initial", "userspace", "ondemand"}]
    BY <1>1, <2>1 DEF TypeOK
  <2> QED
    BY <1>1, <2>1, <2>2, <2>3 DEF TypeOK
<1>9. CASE SortIds
  <2>1. /\ pc' \in Locations /\ i' \in Cpus
        /\ UNCHANGED <<machine, poll, active, rid, files, bootBoost, spoiled, crashes, runs,
                     switches>>
    BY <1>1, <1>9 DEF SortIds, Goes, Locations, Starting
  <2>2. /\ online' = online /\ DOMAIN vid' = DOMAIN online
        /\ \A c \in DOMAIN vid' : vid'[c] \in DOMAIN vid'
        /\ asked' = DOMAIN vid'
    BY <1>1, <1>9, Sorted
  <2> QED
    BY <1>1, <2>1, <2>2 DEF TypeOK
<1>10. CASE SetUpIdle
  <2>1. /\ pc' \in Locations /\ i' \in Cpus /\ online[i] \in Cpus
        /\ polling' \subseteq polling \cup {online[i]}
        /\ unopened' \subseteq unopened \cup {online[i]}
        /\ UNCHANGED <<hot, governor, boost, poll, active, online, rid, vid, saved, unread,
                     stuck, ghosts>>
    BY <1>1, <1>2, <1>10 DEF SetUpIdle, Turn, Locations, Starting, Owning
  <2> QED
    BY <1>1, <2>1 DEF TypeOK
<1>11. CASE StrayReads
  <2>1. /\ pc' \in Locations /\ i' \in Cpus
        /\ UNCHANGED <<machine, poll, active, online, rid, vid, files, ghosts>>
    BY <1>1, <1>11 DEF StrayReads, Goes, Locations, Starting, Gone
  <2> QED
    BY <1>1, <2>1 DEF TypeOK
<1>12. CASE OpenMsr
  <2>1. /\ pc = "msr" /\ pc' \in Locations /\ i' \in Cpus /\ i \in DOMAIN online
        /\ spoiled' \subseteq spoiled \cup {PackageOf[online[i]]}
        /\ unread' \subseteq unread \cup {i}
        /\ UNCHANGED <<machine, poll, active, online, rid, vid, unopened, stuck, bootBoost,
                     asked, crashes, runs, switches>>
    BY <1>1, <1>2, <1>12 DEF OpenMsr, Keeps, Turn, Locations, Starting, Owning
  <2>2. ASSUME NEW content \in BOOLEAN, Keeps(content)
        PROVE  /\ DOMAIN saved' \subseteq DOMAIN saved \cup {i}
               /\ \A k \in DOMAIN saved' : saved'[k] \in BOOLEAN
    BY <1>1, <2>2 DEF Keeps, TypeOK
  <2>3. /\ DOMAIN saved' \subseteq DOMAIN saved \cup {i}
        /\ \A k \in DOMAIN saved' : saved'[k] \in BOOLEAN
    <3>1. CASE Keeps(PackageOf[online[i]] \in boost)
      <4>1. DOMAIN saved' = DOMAIN saved \cup {i}
        BY <3>1 DEF Keeps
      <4>2. \A k \in DOMAIN saved' : k # i => k \in DOMAIN saved /\ saved'[k] = saved[k]
        BY <3>1, <4>1 DEF Keeps
      <4>3. saved'[i] = (PackageOf[online[i]] \in boost)
        BY <3>1 DEF Keeps
      <4>4. (PackageOf[online[i]] \in boost) \in BOOLEAN
        OBVIOUS
      <4>5. saved'[i] \in BOOLEAN
        BY <4>3, <4>4, Zenon
      <4>6. \A k \in DOMAIN saved : saved[k] \in BOOLEAN
        BY <1>1 DEF TypeOK
      <4> QED
        BY <4>1, <4>2, <4>5, <4>6
    <3>2. CASE \E content \in BOOLEAN : Keeps(content)
      BY <2>2, <3>2, Zenon
    <3>3. CASE saved' = saved
      BY <1>1, <3>3 DEF TypeOK
    <3> QED
      BY <1>12, <3>1, <3>2, <3>3, Zenon DEF OpenMsr
  <2> QED
    BY <1>1, <2>1, <2>3 DEF TypeOK
<1>13. CASE DisableBoost
  <2>1. /\ pc' \in Locations /\ i' \in Cpus /\ boost' \subseteq boost
        /\ UNCHANGED <<hot, governor, polling, manager, ghosts>>
    BY <1>1, <1>2, <1>13 DEF DisableBoost, Written, Turn, Locations, Starting, Owning
  <2> QED
    BY <1>1, <2>1 DEF TypeOK
<1>14. ASSUME NEW c \in DOMAIN vid, CoreDisable(c) \/ CoreEnable(c)
       PROVE  TypeOK'
  <2>1. vid[c] \in Cpus
    BY VidType
  <2>2. /\ hot' \subseteq hot \cup {vid[c]} /\ boost' \subseteq boost
        /\ stuck' \subseteq stuck \cup {vid[c]}
        /\ asked' \subseteq asked \cup {c} /\ switches' \in 0 .. MaxSwitches
        /\ UNCHANGED <<pc, i, governor, polling, poll, active, online, rid, vid, saved, unread,
                     unopened, bootBoost, spoiled, crashes, runs>>
    BY <1>1, <1>14 DEF CoreDisable, CoreEnable, DisableOthers, Call, TypeOK
  <2> QED
    BY <1>1, <2>1, <2>2 DEF TypeOK
<1>15. CASE SleepEnable \/ SleepDisable
  <2>1. online[0] \in Cpus
    BY <1>2, <1>15 DEF SleepEnable, SleepDisable, Call, Owning
  <2>2. /\ polling' \subseteq polling \cup {online[0]} /\ switches' \in 0 .. MaxSwitches
        /\ UNCHANGED <<pc, i, hot, governor, boost, manager, asked, bootBoost, spoiled, crashes,
                     runs>>
    BY <1>1, <1>15 DEF SleepEnable, SleepDisable, Call, TypeOK
  <2> QED
    BY <1>1, <2>1, <2>2 DEF TypeOK
<1>16. CASE Destroy
  <2>1. pc' \in Locations /\ i' \in Cpus /\ UNCHANGED <<machine, manager, ghosts>>
    BY <1>1, <1>16 DEF Destroy, Goes, Locations, Closing
  <2> QED
    BY <1>1, <2>1 DEF TypeOK
<1>17. CASE EnableBoost
  <2>1. /\ pc = "boostOn" /\ pc' \in Locations /\ i' \in Cpus /\ online[i] \in Cpus
        /\ boost' \subseteq boost \cup {PackageOf[online[i]]}
        /\ UNCHANGED <<hot, governor, polling, manager, ghosts>>
    BY <1>1, <1>2, <1>17 DEF EnableBoost, Written, Turn, Locations, Closing, Owning
  <2>2. PackageOf[online[i]] \in Packages
    BY <2>1 DEF Packages
  <2> QED
    BY <1>1, <2>1, <2>2 DEF TypeOK
<1>18. CASE SwitchAllOn
  <2>1. /\ pc' \in Locations /\ i' \in Cpus /\ hot' = hot \cup {i}
        /\ UNCHANGED <<governor, polling, boost, manager, ghosts>>
    BY <1>1, <1>18 DEF SwitchAllOn, Turn, Locations, Closing
  <2> QED
    BY <1>1, <2>1 DEF TypeOK
<1>19. CASE Restore
  <2>1. /\ pc = "restore" /\ pc' \in Locations /\ i' \in Cpus /\ online[i] \in Cpus
        /\ polling' \subseteq polling /\ spoiled' \in {spoiled, Packages}
        /\ UNCHANGED <<hot, manager, bootBoost, asked, crashes, runs, switches>>
    BY <1>1, <1>2, <1>19 DEF Restore, Turn, Goes, Locations, Closing, Gone, Owning
  <2>2. boost' \subseteq boost \cup {PackageOf[online[i]]} /\ PackageOf[online[i]] \in Packages
    BY <1>19, <2>1 DEF Restore, Written, Packages
  <2>3. governor' \in [Cpus -> {"initial", "userspace", "ondemand"}]
    BY <1>1, <1>19 DEF Restore, TypeOK
  <2> QED
    BY <1>1, <2>1, <2>2, <2>3 DEF TypeOK
<1>20. CASE DisableNone \/ StrayCall \/ Crash
  <2>1. /\ pc' = "dead" /\ i' = 0 /\ crashes' \in 0 .. MaxCrashes
        /\ spoiled' \in {spoiled, Packages}
        /\ UNCHANGED <<machine, manager, bootBoost, asked, runs, switches>>
    BY <1>1, <1>20 DEF DisableNone, StrayCall, Crash, Dies, TypeOK
  <2> QED
    BY <1>1, <2>1 DEF TypeOK, Locations, Gone
<1>21. CASE Stopped
  BY <1>1, <1>21 DEF Stopped, vars, TypeOK
<1> QED
  BY <1>3, <1>4, <1>5, <1>6, <1>7, <1>8, <1>9, <1>10, <1>11, <1>12, <1>13, <1>14, <1>15,
     <1>16, <1>17, <1>18, <1>19, <1>20, <1>21 DEF Next

-----------------------------------------------------------------------------
(* Theorems.                                                                 *)

THEOREM Invariance == Spec => []IInv
<1>1. IInv /\ [Next]_vars => IInv'
  BY Stutters, TypeStep, HotplugStep, NumberingStep, ReachedStep, SettingsStep, BoostsStep
     DEF IInv
<1> QED
  BY InitHolds, <1>1, PTL DEF Spec

\* Every loop of cpu_manager_init and cpu_manager_destroy stays inside of the
\* tables it walks, on every machine.
THEOREM TypeCorrect == Spec => []TypeOK
<1>1. IInv => TypeOK
  BY DEF IInv
<1> QED
  BY <1>1, Invariance, PTL

\* cpu_manager_destroy leaves every cpu on and the userspace governor on none,
\* and polling only on cpus whose idle states this process could not change,
\* whatever processes died before this one.
THEOREM RestoresMachine == Spec => []Restored
<1>1. IInv => Restored
  BY DEF IInv
<1> QED
  BY <1>1, Invariance, PTL

\* Whatever registers could not be opened or read and whichever processes died,
\* a package that none of this touched has its turbo boost back as it was.
THEOREM RestoresBoost == Spec => []BoostRestored
<1>1. IInv => BoostRestored
  BY DEF IInv, Boosts, BoostRestored, Gone
<1> QED
  BY <1>1, Invariance, PTL

\* The calls that switch a core switch the cpu that its index stands for,
\* and the core that is cpu 0 stays on.  No assumption on the
\* topology is needed: where the numbers of the cpus have gaps the
\* initialisation does not get as far as a call.
THEOREM SwitchesCores == Spec => []CoresSwitched
<1>1. ASSUME IInv, pc = "running", NEW c \in DOMAIN vid
      PROVE  online[vid[c]] \in hot <=> c \in asked \/ online[vid[c]] = 0
  <2>1. vid[c] \in hot <=> c \in asked \/ vid[c] = 0
    BY <1>1 DEF IInv, Reached
  <2>2. /\ vid[c] \in DOMAIN vid /\ vid # Empty
        /\ DOMAIN vid = DOMAIN online /\ DOMAIN online \subseteq Firsts
        /\ online = Listed(Firsts)
    BY <1>1 DEF IInv, TypeOK, Numbering, Empty
  <2>3. online[vid[c]] = vid[c]
    BY <2>2, FirstsNumbered
  <2> QED
    BY <2>1, <2>3
<1>2. IInv => CoresSwitched
  BY <1>1 DEF CoresSwitched
<1> QED
  BY <1>2, Invariance, PTL

\* When every id fits into the int active, of the cpus that share a core the
\* initialisation lists exactly one.
THEOREM KeepsOnePerCore ==
  ASSUME NarrowIds
  PROVE  Spec => []OneCpuPerCore
<1>1. ASSUME IInv, online # Empty, NEW c \in Cpus
      PROVE  \E k \in DOMAIN online :
               /\ SameCore(c, online[k])
               /\ \A j \in DOMAIN online : SameCore(c, online[j]) => j = k
  <2>1. /\ online = Listed(Firsts) /\ Firsts \subseteq Cpus
        /\ \A k \in DOMAIN online : online[k] \in Firsts
        /\ \A d \in Firsts : \E k \in DOMAIN online : online[k] = d
    BY <1>1, FirstsListed DEF IInv, Numbering
  <2>2. \A d \in Cpus : Bit(d) = Id(d)
    BY Bits DEF NarrowIds
  <2>3. \A d \in Cpus : Bit(d) = Bit(c) <=> SameCore(c, d)
    BY <2>2, Ids
  <2>4. PICK d \in Firsts : Bit(d) = Bit(c)
    BY FirstsByBit
  <2>5. PICK k \in DOMAIN online : online[k] = d
    BY <2>1
  <2>6. ASSUME NEW j \in DOMAIN online, SameCore(c, online[j])
        PROVE  j = k
    <3>1. online[j] = online[k]
      BY <2>1, <2>3, <2>4, <2>5, <2>6, FirstsByBit
    <3>2. InOrder(Firsts, online)
      BY <2>1, FirstsListed, CpusFinite, ListedInOrder
    <3>3. j \in Nat /\ k \in Nat /\ online[j] \in Nat /\ online[k] \in Nat
      BY <2>1, FirstsListed, CpusFinite
    <3>4. /\ j < k => online[j] < online[k]
          /\ k < j => online[k] < online[j]
      BY <3>2 DEF InOrder
    <3> QED
      BY <3>1, <3>3, <3>4
  <2> QED
    BY <2>1, <2>3, <2>4, <2>5, <2>6
<1>2. IInv => OneCpuPerCore
  BY <1>1 DEF OneCpuPerCore
<1> QED
  BY <1>2, Invariance, PTL

\* When no cpu that is left on comes after one that is switched off, as on
\* machines that number first threads first, every topology is found.
THEOREM FindsTopology ==
  ASSUME SiblingsLast
  PROVE  Spec => []TopologyFound
<1>1. ASSUME NEW j \in DOMAIN Listed(Firsts)
      PROVE  j \in Firsts
  <2> DEFINE n == Cardinality(Firsts)
  <2>1. /\ n \in Nat /\ IsFiniteSet(Firsts) /\ Firsts \subseteq Cpus /\ Firsts \subseteq Nat
        /\ j \in 0 .. n - 1 /\ j \in Cpus
    BY FirstsListed, CpusFinite
  <2>2. SUFFICES ASSUME j \notin Firsts PROVE FALSE
    OBVIOUS
  <2>3. Firsts \in SUBSET (0 .. j - 1)
    <3>1. ASSUME NEW c \in Firsts
          PROVE  c < j
      <4>1. ~(j < c)
        BY <2>1, <2>2 DEF SiblingsLast
      <4> QED
        BY <2>1, <2>2, <4>1
    <3> QED
      BY <2>1, <3>1
  <2>4. 0 \in Int /\ j - 1 \in Int
    BY <2>1
  <2>5. /\ IsFiniteSet(0 .. j - 1)
        /\ Cardinality(0 .. j - 1) = IF 0 > j - 1 THEN 0 ELSE (j - 1) - 0 + 1
    BY <2>4, FS_Interval
  <2>6. n <= Cardinality(0 .. j - 1)
    BY <2>3, <2>5, FS_Subset
  <2> HIDE DEF n
  <2> QED
    BY <2>1, <2>5, <2>6
<1>2. Init => TopologyFound
  BY DEF Init, TopologyFound
<1>3. ASSUME IInv, TopologyFound, [Next]_vars
      PROVE  TopologyFound'
  <2>1. CASE SetUpCpu
    <3>1. i \in hot
      BY <1>1, <1>3, <2>1 DEF SetUpCpu, Turn, Goes, IInv, Hotplug, Numbering, Owning
    <3> QED
      BY <2>1, <3>1 DEF SetUpCpu, Turn, TopologyFound
  <2>2. CASE Scan
    BY <1>3, <2>2 DEF Scan, Goes, IInv, Hotplug, TopologyFound
  <2>3. CASE UNCHANGED vars
    BY <1>3, <2>3 DEF vars, TopologyFound
  <2>4. CASE Next /\ ~SetUpCpu /\ ~Scan
    <3>1. CASE Start \/ SwitchOn \/ SwitchOff \/ ListOnline \/ SortIds \/ SetUpIdle
      BY <3>1 DEF Start, SwitchOn, SwitchOff, ListOnline, SortIds, SetUpIdle, Turn, Goes,
         TopologyFound
    <3>2. CASE StrayReads \/ OpenMsr \/ DisableBoost \/ Destroy \/ EnableBoost \/ SwitchAllOn
      BY <3>2 DEF StrayReads, OpenMsr, DisableBoost, Destroy, EnableBoost, SwitchAllOn,
         Turn, Goes, TopologyFound
    <3>3. CASE Restore \/ DisableNone \/ StrayCall \/ Crash
      BY <3>3 DEF Restore, DisableNone, StrayCall, Crash, Dies, Turn, Goes, TopologyFound
    <3>4. CASE Stopped
      BY <1>3, <3>4 DEF Stopped, vars, TopologyFound
    <3>5. CASE \/ SleepEnable \/ SleepDisable
               \/ \E c \in DOMAIN vid : CoreDisable(c) \/ CoreEnable(c)
      BY <3>5 DEF SleepEnable, SleepDisable, CoreDisable, CoreEnable, Call, TopologyFound
    <3> QED
      BY <2>4, <3>1, <3>2, <3>3, <3>4, <3>5 DEF Next
  <2> QED
    BY <1>3, <2>1, <2>2, <2>3, <2>4
<1> QED
  BY <1>2, <1>3, Invariance, PTL DEF Spec

\* What a core's index stands for once the cores are numbered.
LEMMA CoresNumbered ==
  ASSUME IInv, vid # Empty
  PROVE  /\ \A c, d \in DOMAIN vid : c < d => Before(online[vid[c]], online[vid[d]])
         /\ \A c \in DOMAIN vid : online[vid[c]] = vid[c] /\ vid[c] \in Cpus
         /\ \A c, d \in DOMAIN vid : c < d => Id(vid[c]) < Id(vid[d])
         /\ 0 \in DOMAIN vid /\ DOMAIN vid \subseteq Nat
         /\ \E c \in DOMAIN vid : vid[c] = 0
<1>1. /\ online = Listed(Firsts) /\ Firsts \subseteq Cpus
      /\ DOMAIN vid = DOMAIN online /\ DOMAIN online \subseteq Firsts
      /\ \A c \in DOMAIN vid : vid[c] \in DOMAIN vid
      /\ \A v \in DOMAIN vid : \E c \in DOMAIN vid : vid[c] = v
      /\ \A c, d \in DOMAIN vid : c < d => Id(vid[c]) < Id(vid[d])
      /\ 0 \in DOMAIN online /\ DOMAIN online \subseteq Nat
  BY FirstsListed, CpusFinite DEF IInv, Numbering, TypeOK
<1>2. \A c \in DOMAIN vid : online[vid[c]] = vid[c] /\ vid[c] \in Cpus
  BY <1>1, FirstsNumbered
<1>3. \A c, d \in DOMAIN vid : c < d => Before(online[vid[c]], online[vid[d]])
  BY <1>1, <1>2, Ids
<1> QED
  BY <1>1, <1>2, <1>3

\* On every machine on which the initialisation comes that far, the cores are
\* numbered package by package.
THEOREM OrdersCores == Spec => []CoresOrdered
<1>1. IInv => CoresOrdered
  <2>1. ASSUME IInv, vid # Empty PROVE CoresOrdered
    BY <2>1, CoresNumbered DEF CoresOrdered
  <2>2. ASSUME vid = Empty PROVE CoresOrdered
    BY <2>2 DEF CoresOrdered, Empty
  <2> QED
    BY <2>1, <2>2
<1> QED
  BY <1>1, Invariance, PTL

\* Core 0, which the calls never switch, is the cpu that cannot be switched off
\* where that has the least id: then no call follows hotplug[0].
THEOREM KeepsBootCore ==
  ASSUME BootCpuLeast
  PROVE  Spec => [](\A c \in DOMAIN vid : vid[c] = 0 <=> c = 0)
<1>1. ASSUME IInv, NEW c \in DOMAIN vid
      PROVE  vid[c] = 0 <=> c = 0
  <2>1. vid # Empty
    BY DEF Empty
  <2>2. PICK d \in DOMAIN vid : vid[d] = 0
    BY <1>1, <2>1, CoresNumbered
  <2>3. /\ 0 \in DOMAIN vid /\ DOMAIN vid \subseteq Nat
        /\ \A e \in DOMAIN vid : vid[e] \in Cpus
        /\ \A e, f \in DOMAIN vid : e < f => Id(vid[e]) < Id(vid[f])
    BY <1>1, <2>1, CoresNumbered
  <2>4. \A e \in Cpus : Id(0) <= Id(e) /\ Id(e) \in Nat /\ Id(0) \in Nat
    BY CpusFinite, Ids DEF BootCpuLeast
  <2>5. ~(0 < d)
    BY <2>2, <2>3, <2>4
  <2>6. d = 0
    BY <2>3, <2>5
  <2>7. c = 0 => vid[c] = 0
    BY <2>2, <2>6
  <2>8. ~(c = 0) => vid[c] # 0
    BY <2>2, <2>3, <2>4, <2>6
  <2> QED
    BY <2>7, <2>8
<1>2. IInv => \A c \in DOMAIN vid : vid[c] = 0 <=> c = 0
  BY <1>1
<1> QED
  BY <1>2, Invariance, PTL
=============================================================================
