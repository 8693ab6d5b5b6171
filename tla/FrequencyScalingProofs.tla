----------------------- MODULE FrequencyScalingProofs -----------------------
(***************************************************************************)
(* FrequencyScaling for every length of a second, every latency of at most *)
(* half of it, any number of cores, any text of the kernel and any length  *)
(* of time that the scheduler keeps a core away: the polling loop does not *)
(* end early, and not much late once its core reads the clock often        *)
(* enough; and levels are ranks if the text lists the highest first.       *)
(***************************************************************************)
EXTENDS FrequencyScaling, DataInduction, FiniteSetTheorems, SequenceTheorems

-----------------------------------------------------------------------------
(* The table of levels.                                                     *)

Size == Len(Available)

LEMMA SizeType == Size \in Nat /\ \A j \in 1 .. Size : Available[j] \in Int
  BY TextAssumption DEF Size

(* What the loop does at a separator or another token, by what it finds     *)
(* behind the next one or two.                                              *)
Cut(j, one, two) ==
  IF ~Separator(Available[j]) THEN one
  ELSE IF Ends(j + 1) THEN <<>> ELSE <<j + 1>> \o two

LEMMA CutType ==
  ASSUME NEW j \in Nat, NEW one \in Seq(Nat), NEW two \in Seq(Nat)
  PROVE  Cut(j, one, two) \in Seq(Nat)
<1>1. <<>> \in Seq(Nat) /\ <<j + 1>> \in Seq(Nat)
  OBVIOUS
<1>2. <<j + 1>> \o two \in Seq(Nat)
  BY <1>1, ConcatProperties
<1> QED BY <1>1, <1>2 DEF Cut

(* The loop over the text is a function: there is one that recurs as        *)
(* LevelsFrom does.                                                         *)
LEMMA LevelsEquation ==
  /\ LevelsFrom[Size + 1] = <<>> /\ LevelsFrom[Size + 2] = <<>>
  /\ \A j \in 1 .. Size : LevelsFrom[j] = Cut(j, LevelsFrom[j + 1], LevelsFrom[j + 2])
<1> DEFINE V == Seq(Nat) \X Seq(Nat)
           base == << <<>>, <<>> >>
           next == [p \in Nat \X V |->
                      IF p[1] < Size THEN <<Cut(Size - p[1], p[2][1], p[2][2]), p[2][1]>>
                      ELSE base]
<1>1. base \in V
  BY EmptySeq
<1>2. ASSUME NEW p \in Nat \X V
      PROVE  next[p] \in V
  <2>1. p[1] \in Nat /\ p[2][1] \in Seq(Nat) /\ p[2][2] \in Seq(Nat)
    OBVIOUS
  <2>2. p[1] < Size => Cut(Size - p[1], p[2][1], p[2][2]) \in Seq(Nat)
    BY <2>1, CutType, SizeType
  <2> QED BY <1>1, <2>1, <2>2
<1>3. next \in [Nat \X V -> V]
  BY <1>2
<1>4. \A d \in 0 .. Size - 1 : \A q \in V :
        next[<<d, q>>] = <<Cut(Size - d, q[1], q[2]), q[1]>>
  BY SizeType
<1> HIDE DEF V, base, next
<1>5. PICK h \in [0 .. Size -> V] :
        h[0] = base /\ \A d \in 0 .. Size - 1 : h[d + 1] = next[<<d, h[d]>>]
  <2>1. Runs(V, base, next, Size) # {}
    BY <1>1, <1>3, SizeType, Recursion
  <2> QED BY <2>1 DEF Runs
<1> DEFINE f == [j \in 1 .. Size + 2 |-> IF j > Size THEN <<>> ELSE h[Size + 1 - j][1]]
<1>6. ASSUME NEW d \in 0 .. Size
      PROVE  h[d][1] = f[Size + 1 - d] /\ h[d][2] = f[Size + 2 - d]
  <2>1. CASE d = 0
    BY <1>5, <2>1, SizeType DEF base
  <2>2. CASE d > 0
    <3>1. d - 1 \in 0 .. Size - 1 /\ (d - 1) + 1 = d /\ h[d - 1] \in V
      BY <1>5, <2>2, SizeType
    <3>2. h[d] = <<Cut(Size - (d - 1), h[d - 1][1], h[d - 1][2]), h[d - 1][1]>>
      BY <1>4, <1>5, <3>1
    <3>3. h[d][2] = h[d - 1][1]
      BY <3>2
    <3>4. CASE d = 1
      <4>1. h[0][1] = <<>>
        BY <1>5 DEF base
      <4> QED BY <3>3, <3>4, <4>1, SizeType
    <3>5. CASE d > 1
      BY <2>2, <3>3, <3>5, SizeType
    <3> QED BY <2>2, <3>4, <3>5
  <2> QED BY <2>1, <2>2
<1>7. ASSUME NEW j \in 1 .. Size
      PROVE  f[j] = Cut(j, f[j + 1], f[j + 2])
  <2>1. Size - j \in 0 .. Size - 1 /\ Size - (Size - j) = j /\ (Size - j) + 1 = Size + 1 - j
        /\ h[Size - j] \in V
    BY <1>5, SizeType
  <2>2. h[Size + 1 - j] = <<Cut(j, h[Size - j][1], h[Size - j][2]), h[Size - j][1]>>
    <3>1. h[(Size - j) + 1] = next[<<Size - j, h[Size - j]>>]
      BY <1>5, <2>1
    <3>2. next[<<Size - j, h[Size - j]>>]
            = <<Cut(Size - (Size - j), h[Size - j][1], h[Size - j][2]), h[Size - j][1]>>
      BY <1>4, <2>1
    <3> QED BY <2>1, <3>1, <3>2
  <2>3. h[Size - j][1] = f[j + 1] /\ h[Size - j][2] = f[j + 2]
    BY <1>6, <2>1, SizeType
  <2>4. f[j] = h[Size + 1 - j][1]
    BY SizeType
  <2> HIDE DEF f
  <2> QED BY <2>2, <2>3, <2>4
<1>8. f = [j \in 1 .. Size + 2 |-> IF j > Size THEN <<>> ELSE Cut(j, f[j + 1], f[j + 2])]
  <2>1. \A j \in 1 .. Size + 2 : f[j] = IF j > Size THEN <<>> ELSE Cut(j, f[j + 1], f[j + 2])
    <3>1. \A j \in 1 .. Size + 2 : j > Size => f[j] = <<>>
      OBVIOUS
    <3>2. \A j \in 1 .. Size + 2 : ~(j > Size) => j \in 1 .. Size
      BY SizeType
    <3> HIDE DEF f
    <3> QED BY <1>7, <3>1, <3>2
  <2>2. DOMAIN f = 1 .. Size + 2 /\ f = [j \in 1 .. Size + 2 |-> f[j]]
    OBVIOUS
  <2> HIDE DEF f
  <2> QED BY <2>1, <2>2
<1> HIDE DEF f
<1>9. \E g : g = [j \in 1 .. Size + 2 |-> IF j > Size THEN <<>> ELSE Cut(j, g[j + 1], g[j + 2])]
  BY <1>8
<1>10. LevelsFrom = [j \in 1 .. Size + 2 |-> IF j > Size THEN <<>>
                       ELSE Cut(j, LevelsFrom[j + 1], LevelsFrom[j + 2])]
  BY <1>9 DEF LevelsFrom, Cut, Size
<1> QED BY <1>10, SizeType

(* Whatever the text, there is a level at its start.                        *)
LEMMA NumberOfLevels == nb_freq \in Nat \ {0} /\ freq \in Seq(Nat)
<1> DEFINE S == {j \in 0 .. Size : LevelsFrom[j + 1] \in Seq(Nat) /\ LevelsFrom[j + 2] \in Seq(Nat)}
<1>1. Size \in S
  <2>1. <<>> \in Seq(Nat) /\ Size \in 0 .. Size
    BY SizeType
  <2> QED BY <2>1, LevelsEquation
<1>2. ASSUME NEW j \in 0 .. Size - 1, j + 1 \in S
      PROVE  j \in S
  <2>1. j + 1 \in 1 .. Size /\ j \in 0 .. Size /\ j + 1 \in Nat
        /\ (j + 1) + 1 = j + 2 /\ (j + 1) + 2 = j + 3
    BY SizeType
  <2>2. LevelsFrom[j + 2] \in Seq(Nat) /\ LevelsFrom[j + 3] \in Seq(Nat)
    BY <1>2, <2>1
  <2>3. LevelsFrom[j + 1] = Cut(j + 1, LevelsFrom[j + 2], LevelsFrom[j + 3])
    BY <2>1, LevelsEquation
  <2>4. LevelsFrom[j + 1] \in Seq(Nat)
    BY <2>1, <2>2, <2>3, CutType
  <2> QED BY <2>1, <2>2, <2>4
<1> HIDE DEF S
<1>3. 0 \in S
  BY <1>1, <1>2, SizeType, DownwardInduction
<1>4. freq \in Seq(Nat) /\ Len(freq) = 1 + Len(LevelsFrom[1]) /\ Len(LevelsFrom[1]) \in Nat
  <2>1. <<1>> \in Seq(Nat) /\ Len(<<1>>) = 1 /\ LevelsFrom[1] \in Seq(Nat)
    BY <1>3 DEF S
  <2> QED BY <2>1, ConcatProperties, LenProperties DEF freq
<1> QED BY <1>4 DEF nb_freq

LEMMA Prefixed ==
  ASSUME NEW x \in Nat, NEW s \in Seq(Nat)
  PROVE  <<x>> \o s = [j \in 1 .. Len(s) + 1 |-> IF j = 1 THEN x ELSE s[j - 1]]
<1>1. /\ <<x>> \in Seq(Nat) /\ Len(<<x>>) = 1 /\ <<x>>[1] = x
      /\ Len(s) \in Nat
  BY LenProperties
<1>2. /\ <<x>> \o s \in Seq(Nat)
      /\ Len(<<x>> \o s) = Len(s) + 1
      /\ \A j \in 1 .. Len(s) + 1 :
           (<<x>> \o s)[j] = IF j = 1 THEN x ELSE s[j - 1]
  BY <1>1, ConcatProperties
<1>3. <<x>> \o s = [j \in 1 .. Len(s) + 1 |-> (<<x>> \o s)[j]]
  BY <1>2, LenProperties
<1> QED BY <1>2, <1>3

(* Where the odd places of the text are, from the one behind place 2 * k.   *)
OddPlaces(n, k) == [j \in 1 .. n - k |-> 2 * (k + j) - 1]

LEMMA OddPlacesType ==
  ASSUME NEW n \in Nat, NEW k \in 0 .. n
  PROVE  OddPlaces(n, k) \in Seq(Nat) /\ Len(OddPlaces(n, k)) = n - k
  BY DEF OddPlaces

LEMMA OddPlacesPrefixed ==
  ASSUME NEW n \in Nat, NEW k \in 0 .. n - 1
  PROVE  <<2 * k + 1>> \o OddPlaces(n, k + 1) = OddPlaces(n, k)
<1>1. 2 * k + 1 \in Nat /\ k + 1 \in 0 .. n
  OBVIOUS
<1>2. <<2 * k + 1>> \o OddPlaces(n, k + 1)
        = [j \in 1 .. n - k |-> IF j = 1 THEN 2 * k + 1 ELSE OddPlaces(n, k + 1)[j - 1]]
  <2>1. Len(OddPlaces(n, k + 1)) + 1 = n - k
    BY <1>1, OddPlacesType
  <2> DEFINE s == OddPlaces(n, k + 1)
  <2>2. s \in Seq(Nat)
    BY <1>1, OddPlacesType
  <2>3. Len(s) + 1 = n - k
    BY <2>1
  <2> HIDE DEF s
  <2>4. <<2 * k + 1>> \o s = [j \in 1 .. n - k |-> IF j = 1 THEN 2 * k + 1 ELSE s[j - 1]]
    BY <1>1, <2>2, <2>3, Prefixed
  <2> QED BY <2>4 DEF s
<1>3. ASSUME NEW j \in 1 .. n - k, j # 1
      PROVE  OddPlaces(n, k + 1)[j - 1] = 2 * (k + j) - 1
  BY <1>3 DEF OddPlaces
<1> QED BY <1>2, <1>3 DEF OddPlaces

(* Of a text as the kernel writes it every frequency becomes a level.       *)
LEMMA LevelsListed ==
  ASSUME NEW n \in Nat \ {0}, Lists(n)
  PROVE  nb_freq = n /\ \A k \in 1 .. n : freq[k] = 2 * k - 1
<1>1. Size = 2 * n + 1
  BY DEF Size, Lists
<1> DEFINE S == {k \in 0 .. n - 1 : LevelsFrom[2 * (k + 1)] = OddPlaces(n, k + 1)}
<1>2. n - 1 \in S
  <2>1. 2 * n \in 1 .. Size /\ 2 * n + 1 <= Len(Available)
    BY <1>1 DEF Size
  <2>2. Separator(Available[2 * n]) /\ Ends(2 * n + 1)
    BY DEF Lists, Separator, Ends
  <2>3. LevelsFrom[2 * n] = <<>>
    BY <2>1, <2>2, LevelsEquation DEF Cut
  <2>4. OddPlaces(n, n) = <<>>
    BY OddPlacesType
  <2> QED BY <2>3, <2>4
<1>3. ASSUME NEW k \in 0 .. (n - 1) - 1, k + 1 \in S
      PROVE  k \in S
  <2>1. /\ 2 * (k + 1) \in 1 .. Size /\ k + 1 \in 1 .. n /\ k + 2 \in 1 .. n
        /\ 2 * (k + 1) + 2 = 2 * (k + 2) /\ 2 * (k + 2) - 1 = 2 * (k + 1) + 1
        /\ k + 1 \in 0 .. n - 1
    BY <1>1
  <2>2. Separator(Available[2 * (k + 1)])
    BY <2>1 DEF Lists, Separator
  <2>3. ~Ends(2 * (k + 1) + 1)
    <3>1. Available[2 * (k + 2) - 1] \in Nat
      BY <2>1 DEF Lists
    <3>2. Available[2 * (k + 1) + 1] \in Nat /\ 2 * (k + 1) + 1 <= Len(Available)
      BY <1>1, <2>1, <3>1 DEF Size
    <3> QED BY <3>2 DEF Ends, Newline
  <2>4. LevelsFrom[2 * (k + 2)] = OddPlaces(n, k + 2)
    BY <1>3
  <2>5. LevelsFrom[2 * (k + 1)] = <<2 * (k + 1) + 1>> \o OddPlaces(n, k + 2)
    BY <2>1, <2>2, <2>3, <2>4, LevelsEquation DEF Cut
  <2>6. <<2 * (k + 1) + 1>> \o OddPlaces(n, (k + 1) + 1) = OddPlaces(n, k + 1)
    BY <2>1, OddPlacesPrefixed
  <2>7. (k + 1) + 1 = k + 2 /\ k \in 0 .. n - 1
    OBVIOUS
  <2> QED BY <2>5, <2>6, <2>7
<1> HIDE DEF S
<1>4. 0 \in S
  <2>1. 0 .. n - 1 \subseteq S
    BY <1>2, <1>3, DownwardInduction
  <2> QED BY <2>1
<1>5. LevelsFrom[1] = OddPlaces(n, 1)
  <2>1. 1 \in 1 .. Size /\ ~Separator(Available[1])
    <3>1. 1 \in 1 .. n /\ 2 * 1 - 1 = 1
      OBVIOUS
    <3>2. Available[1] \in Nat
      BY <3>1 DEF Lists
    <3> QED BY <1>1, <3>2 DEF Separator, Space, Newline
  <2>2. LevelsFrom[1] = LevelsFrom[2]
    <3>1. LevelsFrom[1] = Cut(1, LevelsFrom[1 + 1], LevelsFrom[1 + 2])
      BY <2>1, LevelsEquation
    <3> QED BY <2>1, <3>1 DEF Cut
  <2> QED BY <1>4, <2>2 DEF S
<1>6. freq = OddPlaces(n, 0)
  <2>1. <<2 * 0 + 1>> \o OddPlaces(n, 0 + 1) = OddPlaces(n, 0)
    BY OddPlacesPrefixed
  <2> QED BY <1>5, <2>1 DEF freq
<1> QED BY <1>6, OddPlacesType DEF nb_freq, OddPlaces

(* The frequencies below a level are those of the levels behind it.         *)
LEMMA Ranks ==
  ASSUME HighestFirst, NEW l \in 0 .. nb_freq - 1
  PROVE  Cardinality({f \in Frequencies : f < Frequency(nb_freq - l)}) = l
<1>1. PICK n \in Nat \ {0} : Lists(n)
  BY SizeType DEF HighestFirst, Size
<1> DEFINE F(k) == Available[2 * k - 1]
           low == n - l + 1
           below == {F(k) : k \in low .. n}
<1>2. nb_freq = n /\ \A k \in 1 .. n : Frequency(k) = F(k)
  BY <1>1, LevelsListed DEF Frequency
<1>3. Size = 2 * n + 1 /\ DOMAIN Available = 1 .. Size
  BY <1>1, TextAssumption, LenProperties DEF Lists, Size
<1>4. Frequencies = {F(k) : k \in 1 .. n}
  <2>1. ASSUME NEW k \in 1 .. n
        PROVE  F(k) \in Frequencies
    <3>1. 2 * k - 1 \in DOMAIN Available /\ F(k) \in Nat
      BY <1>1, <1>3 DEF Lists
    <3>2. ~Separator(Available[2 * k - 1])
      BY <3>1 DEF Separator, Space, Newline
    <3> QED BY <3>1, <3>2 DEF Frequencies
  <2>2. ASSUME NEW j \in DOMAIN Available, ~Separator(Available[j])
        PROVE  \E k \in 1 .. n : j = 2 * k - 1
    <3>1. j # 2 * n + 1
      BY <1>1, <2>2 DEF Lists, Separator
    <3>2. \A k \in 1 .. n : j # 2 * k
      BY <1>1, <2>2 DEF Lists, Separator
    <3>3. PICK k \in Nat : j = 2 * k \/ j = 2 * k - 1
      <4>1. (j + 1) \div 2 \in Nat /\ (j = 2 * ((j + 1) \div 2) \/ j = 2 * ((j + 1) \div 2) - 1)
        BY <1>3
      <4> QED BY <4>1
    <3> QED BY <1>3, <3>1, <3>2, <3>3
  <2> QED BY <2>1, <2>2 DEF Frequencies
<1>5. \A j, k \in 1 .. n : F(j) \in Nat /\ (F(k) < F(j) <=> j < k)
  <2>1. \A j, k \in 1 .. n : F(j) \in Nat /\ (j < k => F(k) < F(j))
    BY <1>1 DEF Lists
  <2> HIDE DEF F
  <2> QED BY <2>1
<1>6. low \in 1 .. n + 1 /\ nb_freq - l = low - 1 /\ low - 1 \in 1 .. n
  BY <1>2
<1>7. {f \in Frequencies : f < Frequency(nb_freq - l)} = below
  <2>1. Frequency(nb_freq - l) = F(low - 1)
    BY <1>2, <1>6
  <2>2. \A k \in 1 .. n : F(k) < F(low - 1) <=> k \in low .. n
    BY <1>5, <1>6
  <2>3. low .. n \subseteq 1 .. n
    BY <1>6
  <2> HIDE DEF F, low
  <2> QED BY <1>4, <2>1, <2>2, <2>3
<1>8. ExistsBijection(low .. n, below)
  <2> DEFINE g == [k \in low .. n |-> F(k)]
  <2>1. \A j, k \in low .. n : F(j) = F(k) => j = k
    BY <1>5, <1>6
  <2> HIDE DEF F, low
  <2>2. g \in Bijection(low .. n, below)
    BY <2>1 DEF Bijection, Injection, Surjection, IsInjective
  <2> QED BY <2>2 DEF ExistsBijection
<1>9. IsFiniteSet(low .. n) /\ Cardinality(low .. n) = l
  <2>1. low \in Int /\ n \in Int
    BY <1>6
  <2>2. IsFiniteSet(low .. n) /\ Cardinality(low .. n) = IF low > n THEN 0 ELSE n - low + 1
    BY <2>1, FS_Interval
  <2> QED BY <1>6, <1>2, <2>2
<1> HIDE DEF low, below
<1>10. Cardinality(below) = Cardinality(low .. n)
  BY <1>8, <1>9, FS_Bijection
<1> QED BY <1>7, <1>9, <1>10

-----------------------------------------------------------------------------
(* Seconds and nanoseconds.                                                 *)

LEMMA Split ==
  ASSUME NEW t \in Nat
  PROVE  /\ sec(t) \in Nat /\ nsec(t) \in Nat /\ nsec(t) < Second
         /\ t = (Second * sec(t)) + nsec(t)
<1>1. Second \in Nat /\ Second > 0
  BY LatencyAssumption
<1>2. t \div Second \in Nat /\ t % Second \in 0 .. Second - 1
  BY <1>1
<1>3. t = (Second * (t \div Second)) + (t % Second)
  BY <1>1
<1> QED BY <1>1, <1>2, <1>3 DEF sec, nsec

(* An earlier second is at least one second earlier, two seconds are two.   *)
LEMMA Apart ==
  ASSUME NEW q \in Nat, NEW p \in Nat
  PROVE  /\ Second * q \in Nat
         /\ q < p => (Second * q) + Second <= Second * p
         /\ p = q + 1 => Second * p = (Second * q) + Second
         /\ q + 1 < p => (Second * q) + (2 * Second) <= Second * p
<1>1. Second \in Nat
  BY LatencyAssumption
<1>2. \A a, b \in Nat : a <= b => Second * a <= Second * b
  BY <1>1
<1>3. Second * (q + 1) = (Second * q) + Second /\ Second * (q + 2) = (Second * q) + (2 * Second)
  BY <1>1
<1> QED BY <1>1, <1>2, <1>3

LEMMA WakeupType ==
  ASSUME NEW s \in Nat
  PROVE  /\ Wakeup(s) \in [sec : Nat, nsec : Int]
         /\ -Latency < Wakeup(s).nsec /\ Wakeup(s).nsec < Second
<1>1. sec(s) \in Nat /\ nsec(s) \in Nat /\ nsec(s) < Second
  BY Split
<1>2. CASE nsec(s) + Latency <= Second - Latency
  <2>1. Wakeup(s) = [sec |-> sec(s), nsec |-> nsec(s) + Latency]
    BY <1>2 DEF Wakeup
  <2>2. /\ nsec(s) + Latency \in Int
        /\ -Latency < nsec(s) + Latency /\ nsec(s) + Latency < Second
    BY <1>1, <1>2, LatencyAssumption
  <2> QED BY <2>1, <2>2, <1>1
<1>3. CASE ~(nsec(s) + Latency <= Second - Latency)
  <2>1. Wakeup(s) = [sec |-> sec(s) + 1, nsec |-> nsec(s) + Latency - Second]
    BY <1>3 DEF Wakeup
  <2>2. /\ nsec(s) + Latency - Second \in Int /\ sec(s) + 1 \in Nat
        /\ -Latency < nsec(s) + Latency - Second
        /\ nsec(s) + Latency - Second < Second
    BY <1>1, <1>3, LatencyAssumption
  <2> QED BY <2>1, <2>2
<1> QED BY <1>2, <1>3

(* The loop does not let a core go before its latency is over.              *)
LEMMA NeverEarly ==
  ASSUME NEW s \in Nat, NEW t \in Nat, ~Waiting(t, Wakeup(s))
  PROVE  s + Latency <= t
<1> DEFINE q == sec(s)
           p == sec(t)
<1>1. q \in Nat /\ p \in Nat /\ nsec(s) \in Nat /\ nsec(t) \in Nat
      /\ s = (Second * q) + nsec(s) /\ t = (Second * p) + nsec(t)
  BY Split
<1>2. Second * q \in Nat /\ Second * p \in Nat /\ (q < p => (Second * q) + Second <= Second * p)
  BY <1>1, Apart
<1>3. CASE nsec(s) + Latency <= Second - Latency
  <2>1. Wakeup(s) = [sec |-> q, nsec |-> nsec(s) + Latency]
    BY <1>3 DEF Wakeup
  <2>2. q <= p /\ nsec(s) + Latency <= nsec(t)
    BY <2>1, <1>1, LatencyAssumption DEF Waiting
  <2> HIDE DEF q, p
  <2> QED BY <2>2, <1>1, <1>2, LatencyAssumption
<1>4. CASE ~(nsec(s) + Latency <= Second - Latency)
  <2>1. Wakeup(s) = [sec |-> q + 1, nsec |-> nsec(s) + Latency - Second]
    BY <1>4 DEF Wakeup
  <2>2. q + 1 <= p /\ nsec(s) + Latency - Second <= nsec(t)
    BY <2>1, <1>1, LatencyAssumption DEF Waiting
  <2> HIDE DEF q, p
  <2> QED BY <2>2, <1>1, <1>2, LatencyAssumption
<1> QED BY <1>3, <1>4

(* The reading that a deadline is computed from does not satisfy it.        *)
LEMMA StampWaits ==
  ASSUME NEW s \in Nat
  PROVE  Waiting(s, Wakeup(s))
  BY Split, LatencyAssumption DEF Wakeup, Waiting

(* A core that was waiting at t and reads the clock again within a latency  *)
(* is let go before twice the latency has passed: the stretch in which it   *)
(* may go is at least a latency long.                                       *)
LEMMA WindowMet ==
  ASSUME NEW s \in Nat, NEW t \in Nat, NEW u \in Nat,
         s <= t, t <= u, u <= t + Latency, t < s + (2 * Latency),
         Waiting(t, Wakeup(s)), Waiting(u, Wakeup(s))
  PROVE  u < s + (2 * Latency)
<1> DEFINE q == sec(s)
           p == sec(t)
           o == sec(u)
<1>1. /\ q \in Nat /\ p \in Nat /\ o \in Nat
      /\ nsec(s) \in Nat /\ nsec(t) \in Nat /\ nsec(u) \in Nat
      /\ nsec(s) < Second /\ nsec(t) < Second /\ nsec(u) < Second
      /\ s = (Second * q) + nsec(s) /\ t = (Second * p) + nsec(t)
      /\ u = (Second * o) + nsec(u)
  BY Split
<1>2. /\ Second * q \in Nat /\ Second * p \in Nat /\ Second * o \in Nat
      /\ p < q => (Second * p) + Second <= Second * q
      /\ o < q => (Second * o) + Second <= Second * q
      /\ q < p => (Second * q) + Second <= Second * p
      /\ q < o => (Second * q) + Second <= Second * o
      /\ q + 1 < p => (Second * q) + (2 * Second) <= Second * p
      /\ q + 1 < o => (Second * q) + (2 * Second) <= Second * o
      /\ p = q + 1 => Second * p = (Second * q) + Second
      /\ o = q + 1 => Second * o = (Second * q) + Second
  BY <1>1, Apart
<1>3. CASE nsec(s) + Latency <= Second - Latency
  <2>1. Wakeup(s) = [sec |-> q, nsec |-> nsec(s) + Latency]
    BY <1>3 DEF Wakeup
  <2>2. p < q \/ nsec(t) < nsec(s) + Latency
    BY <2>1 DEF Waiting
  <2> HIDE DEF q, p, o
  <2>3. p = q
    BY <1>1, <1>2, <1>3, LatencyAssumption
  <2> QED BY <2>2, <2>3, <1>1, <1>3, LatencyAssumption
<1>4. CASE ~(nsec(s) + Latency <= Second - Latency)
  <2>1. Wakeup(s) = [sec |-> q + 1, nsec |-> nsec(s) + Latency - Second]
    BY <1>4 DEF Wakeup
  <2>2. p < q + 1 \/ nsec(t) < nsec(s) + Latency - Second
    BY <2>1 DEF Waiting
  <2>3. o < q + 1 \/ nsec(u) < nsec(s) + Latency - Second
    BY <2>1 DEF Waiting
  <2> HIDE DEF q, p, o
  <2>4. u < s + (2 * Latency) + Second
    BY LatencyAssumption
  <2>5. q <= p /\ q <= o
    BY <1>1, <1>2, LatencyAssumption
  <2>6. CASE o = q
    BY <2>6, <1>1, <1>4, LatencyAssumption
  <2>7. CASE o = q + 1
    BY <2>3, <2>7, <1>1, <1>2, LatencyAssumption
  <2>8. CASE q + 1 < o
    <3>1. t < s + Latency \/ p = q
      BY <2>2, <2>5, <1>1, <1>2, LatencyAssumption
    <3> QED BY <3>1, <2>8, <1>1, <1>2, LatencyAssumption
  <2> QED BY <2>5, <2>6, <2>7, <2>8, <1>1
<1> QED BY <1>3, <1>4

(* A core that missed the stretch and reads the clock at least once per     *)
(* latency is let go before the second is over, or at its end: the next     *)
(* stretch is the rest of this second, or begins the next.                  *)
LEMMA NextWindowMet ==
  ASSUME NEW s \in Nat, NEW t \in Nat, NEW u \in Nat,
         s + Latency < t, t <= u, u <= t + Latency,
         Waiting(t, Wakeup(s)), Waiting(u, Wakeup(s))
  PROVE  sec(u) = sec(t)
<1> DEFINE q == sec(s)
           p == sec(t)
           o == sec(u)
<1>1. /\ q \in Nat /\ p \in Nat /\ o \in Nat
      /\ nsec(s) \in Nat /\ nsec(t) \in Nat /\ nsec(u) \in Nat
      /\ nsec(s) < Second /\ nsec(t) < Second /\ nsec(u) < Second
      /\ s = (Second * q) + nsec(s) /\ t = (Second * p) + nsec(t)
      /\ u = (Second * o) + nsec(u)
  BY Split
<1>2. /\ Second * q \in Nat /\ Second * p \in Nat /\ Second * o \in Nat
      /\ p < q => (Second * p) + Second <= Second * q
      /\ o < p => (Second * o) + Second <= Second * p
      /\ p < o => (Second * p) + Second <= Second * o
      /\ p = q + 1 => Second * p = (Second * q) + Second
      /\ o = q + 1 => Second * o = (Second * q) + Second
      /\ q + 1 < o => (Second * q) + (2 * Second) <= Second * o
  BY <1>1, Apart
<1>3. CASE nsec(s) + Latency <= Second - Latency
  <2>1. Wakeup(s) = [sec |-> q, nsec |-> nsec(s) + Latency]
    BY <1>3 DEF Wakeup
  <2>2. p < q \/ nsec(t) < nsec(s) + Latency
    BY <2>1 DEF Waiting
  <2> HIDE DEF q, p, o
  <2>3. o = p
    BY <2>2, <1>1, <1>2, <1>3, LatencyAssumption
  <2> QED BY <2>3 DEF o, p
<1>4. CASE ~(nsec(s) + Latency <= Second - Latency)
  <2>1. Wakeup(s) = [sec |-> q + 1, nsec |-> nsec(s) + Latency - Second]
    BY <1>4 DEF Wakeup
  <2>2. p < q + 1 \/ nsec(t) < nsec(s) + Latency - Second
    BY <2>1 DEF Waiting
  <2>3. o < q + 1 \/ nsec(u) < nsec(s) + Latency - Second
    BY <2>1 DEF Waiting
  <2> HIDE DEF q, p, o
  <2>4. CASE p < q + 1
    <3>1. p = q /\ o # q + 1
      BY <2>3, <2>4, <1>1, <1>2, LatencyAssumption
    <3>2. o = p
      BY <3>1, <1>1, <1>2, LatencyAssumption
    <3> QED BY <3>2 DEF o, p
  <2>5. CASE nsec(t) < nsec(s) + Latency - Second
    <3>1. o = p
      BY <2>5, <1>1, <1>2, LatencyAssumption
    <3> QED BY <3>1 DEF o, p
  <2> QED BY <2>2, <2>4, <2>5
<1> QED BY <1>3, <1>4

(* What the seconds of a core that missed the stretch say of the time.      *)
LEMMA WithinSecond ==
  ASSUME NEW s \in Nat, NEW p \in Nat, NEW t \in Nat, NEW u \in Nat,
         s + Latency < p, p <= t, t <= u, u <= t + Latency, sec(t) = sec(p),
         Waiting(t, Wakeup(s))
  PROVE  u < p + Second
<1> DEFINE q == sec(s)
           o == sec(p)
<1>1. /\ q \in Nat /\ o \in Nat
      /\ nsec(s) \in Nat /\ nsec(p) \in Nat /\ nsec(t) \in Nat
      /\ nsec(s) < Second /\ nsec(p) < Second /\ nsec(t) < Second
      /\ s = (Second * q) + nsec(s) /\ p = (Second * o) + nsec(p)
      /\ t = (Second * o) + nsec(t)
  BY Split
<1>2. /\ Second * q \in Nat /\ Second * o \in Nat
      /\ o < q => (Second * o) + Second <= Second * q
  BY <1>1, Apart
<1>3. CASE nsec(s) + Latency <= Second - Latency
  <2>1. Wakeup(s) = [sec |-> q, nsec |-> nsec(s) + Latency]
    BY <1>3 DEF Wakeup
  <2>2. o < q \/ nsec(t) < nsec(s) + Latency
    BY <2>1 DEF Waiting
  <2> HIDE DEF q, o
  <2> QED BY <2>2, <1>1, <1>2, <1>3, LatencyAssumption
<1>4. CASE ~(nsec(s) + Latency <= Second - Latency)
  <2>1. Wakeup(s) = [sec |-> q + 1, nsec |-> nsec(s) + Latency - Second]
    BY <1>4 DEF Wakeup
  <2>2. o < q + 1 \/ nsec(t) < nsec(s) + Latency - Second
    BY <2>1 DEF Waiting
  <2> HIDE DEF q, o
  <2>3. o < q + 1 => o = q
    BY <1>1, <1>2, LatencyAssumption
  <2> QED BY <2>2, <2>3, <1>1, <1>2, <1>4, LatencyAssumption
<1> QED BY <1>3, <1>4

-----------------------------------------------------------------------------
(* Types.                                                                   *)

LEMMA TypeInit == Init => TypeOK
<1> SUFFICES ASSUME Init PROVE TypeOK
  OBVIOUS
<1>1. 1 \in Levels /\ 0 \in 0 .. nb_freq
  BY NumberOfLevels DEF Levels
<1>2. wakeup \in [Cores -> [sec : Nat, nsec : Int]]
      /\ \A c \in Cores : -Latency < wakeup[c].nsec /\ wakeup[c].nsec < Second
  BY LatencyAssumption DEF Init, NoTime
<1> QED BY <1>1, <1>2, BoundsAssumption DEF Init, TypeOK, ReadAtInit, None

LEMMA NextIndex ==
  ASSUME NEW n \in Nat, NEW k \in 0 .. n, k # n
  PROVE  k + 1 \in 0 .. n
  OBVIOUS

LEMMA TypeStep ==
  ASSUME TypeOK, Next
  PROVE  TypeOK'
<1> USE BoundsAssumption DEF TypeOK
<1>1. ASSUME NEW c \in Cores, NEW l \in 0 .. nb_freq - 1, SetFrequency(c, l)
      PROVE  TypeOK'
  <2>1. nb_freq - l \in Levels
    BY NumberOfLevels DEF Levels
  <2> QED BY <1>1, <2>1 DEF SetFrequency, Call, Goes, getting, None
<1>2. ASSUME NEW c \in Cores, ReadCurrent(c)
      PROVE  TypeOK'
  <2>1. FileBytes(current[c]) \in Bytes
    BY DEF FileBytes, Bytes
  <2> QED BY <1>2, <2>1 DEF ReadCurrent, Call, Goes, setting
<1>3. ASSUME NEW c \in Cores, Stamp(c)
      PROVE  TypeOK'
  BY <1>3, WakeupType DEF Stamp, Continues, Goes, getting
<1>4. ASSUME NEW c \in Cores, Poll(c)
      PROVE  TypeOK'
  <2>1. NoTime \in [sec : Nat, nsec : Int] /\ -Latency < NoTime.nsec /\ NoTime.nsec < Second
    BY LatencyAssumption DEF NoTime
  <2>2. wakeup' \in [Cores -> [sec : Nat, nsec : Int]]
        /\ \A d \in Cores : -Latency < wakeup'[d].nsec /\ wakeup'[d].nsec < Second
    BY <1>4, <2>1 DEF Poll
  <2> QED BY <1>4, <2>2 DEF Poll, Continues, Goes, getting
<1>5. ASSUME NEW c \in Cores, Compare(c)
      PROVE  TypeOK'
  <2>1. i[c] # nb_freq => i[c] + 1 \in 0 .. nb_freq
    BY NextIndex, NumberOfLevels
  <2>2. i' \in [Cores -> 0 .. nb_freq]
    BY <1>5, <2>1, NumberOfLevels DEF Compare
  <2> QED BY <1>5, <2>2 DEF Compare, Continues, Goes, setting
<1>6. ASSUME NEW c \in Cores, Switch(c)
      PROVE  TypeOK'
  BY <1>6 DEF Switch, getting
<1>7. CASE Tick
  BY <1>7 DEF Tick, setting, getting
<1>8. CASE Stopped
  BY <1>8 DEF Stopped, vars, setting, getting
<1> QED BY <1>1, <1>2, <1>3, <1>4, <1>5, <1>6, <1>7, <1>8 DEF Next, Step

-----------------------------------------------------------------------------
(* Times.                                                                   *)

IInv == TypeOK /\ SwitchPending /\ Times /\ Mirrored /\ ScaledOnReturn

LEMMA InvInit == Init => IInv
<1> SUFFICES ASSUME Init PROVE IInv
  OBVIOUS
<1> QED BY TypeInit DEF Init, IInv, SwitchPending, Times, Mirrored, ScaledOnReturn

LEMMA PendingStep ==
  ASSUME IInv, Next
  PROVE  SwitchPending'
<1> USE LatencyAssumption DEF IInv, TypeOK, SwitchPending
<1>1. ASSUME NEW c \in Cores, NEW l \in 0 .. nb_freq - 1, SetFrequency(c, l)
      PROVE  SwitchPending'
  BY <1>1 DEF SetFrequency
<1>2. ASSUME NEW c \in Cores, ReadCurrent(c)
      PROVE  SwitchPending'
  BY <1>2 DEF ReadCurrent, setting
<1>3. ASSUME NEW c \in Cores, Stamp(c)
      PROVE  SwitchPending'
  BY <1>3 DEF Stamp
<1>4. ASSUME NEW c \in Cores, Poll(c)
      PROVE  SwitchPending'
  BY <1>4 DEF Poll
<1>5. ASSUME NEW c \in Cores, Compare(c)
      PROVE  SwitchPending'
  BY <1>5 DEF Compare, setting
<1>6. ASSUME NEW c \in Cores, Switch(c)
      PROVE  SwitchPending'
  BY <1>6 DEF Switch
<1>7. CASE Tick
  BY <1>7 DEF Tick, setting
<1>8. CASE Stopped
  BY <1>8 DEF Stopped, vars, setting
<1> QED BY <1>1, <1>2, <1>3, <1>4, <1>5, <1>6, <1>7, <1>8 DEF Next, Step

LEMMA TimesStep ==
  ASSUME IInv, Next
  PROVE  Times'
<1> USE LatencyAssumption DEF IInv, TypeOK, Times, Polling
<1>1. ASSUME NEW c \in Cores, NEW l \in 0 .. nb_freq - 1, SetFrequency(c, l)
      PROVE  Times'
  BY <1>1 DEF SetFrequency, Call, Goes
<1>2. ASSUME NEW c \in Cores, ReadCurrent(c)
      PROVE  Times'
  BY <1>2 DEF ReadCurrent, Call, Goes, setting
<1>3. ASSUME NEW c \in Cores, Stamp(c)
      PROVE  Times'
  BY <1>3, StampWaits DEF Stamp, Continues, Goes
<1>4. ASSUME NEW c \in Cores, Poll(c)
      PROVE  Times'
  <2> DEFINE s == stamp[c]
  <2>1. /\ pc[c] = "poll" /\ Polling(c) /\ last[c] <= now
        /\ \A d \in Cores : d # c => UNCHANGED <<pc[d], last[d], wakeup[d], stamp[d], prompt[d]>>
        /\ UNCHANGED <<now, wrote>>
    BY <1>4 DEF Poll, Continues, Goes
  <2>2. CASE ~Waiting(now, wakeup[c])
    BY <1>4, <2>1, <2>2 DEF Poll, Continues, Goes
  <2>3. CASE Waiting(now, wakeup[c]) /\ ~Kept(c)
    <3>1. prompt[c] = s => now < s + (2 * Latency)
      BY <2>1, <2>3, WindowMet DEF Kept
    <3>2. prompt[c] # s => sec(now) = sec(last[c])
      BY <2>1, <2>3, NextWindowMet DEF Kept
    <3>3. /\ pc'[c] = "poll" /\ last'[c] = now
          /\ UNCHANGED <<wakeup[c], stamp[c], prompt[c]>>
      BY <1>4, <2>3 DEF Poll, Continues, Goes
    <3>4. Polling(c)'
      BY <2>1, <2>3, <3>1, <3>2, <3>3 DEF sec
    <3> QED BY <2>1, <3>3, <3>4
  <2>4. CASE Waiting(now, wakeup[c]) /\ Kept(c)
    <3>1. /\ pc'[c] = "poll" /\ last'[c] = now /\ prompt'[c] = now
          /\ UNCHANGED <<wakeup[c], stamp[c]>>
      BY <1>4, <2>4 DEF Poll, Continues, Goes
    <3>2. s + Latency < now
      BY <2>1, <2>4 DEF Kept
    <3>3. Polling(c)'
      BY <2>1, <2>4, <3>1, <3>2
    <3> QED BY <2>1, <3>1, <3>3
  <2> QED BY <2>2, <2>3, <2>4
<1>5. ASSUME NEW c \in Cores, Compare(c)
      PROVE  Times'
  BY <1>5 DEF Compare, Continues, Goes, setting
<1>6. ASSUME NEW c \in Cores, Switch(c)
      PROVE  Times'
  BY <1>6 DEF Switch
<1>7. CASE Tick
  BY <1>7 DEF Tick, setting
<1>8. CASE Stopped
  BY <1>8 DEF Stopped, vars, setting
<1> QED BY <1>1, <1>2, <1>3, <1>4, <1>5, <1>6, <1>7, <1>8 DEF Next, Step

(* The level asked for tells the place of the table that was written.       *)
LEMMA MirroredStep ==
  ASSUME TypeOK, Mirrored, Next
  PROVE  Mirrored'
<1> USE DEF TypeOK, Mirrored
<1>1. ASSUME NEW c \in Cores, NEW l \in 0 .. nb_freq - 1, SetFrequency(c, l)
      PROVE  Mirrored'
  BY <1>1 DEF SetFrequency, None
<1>2. ASSUME NEW c \in Cores, ReadCurrent(c)
      PROVE  Mirrored'
  BY <1>2 DEF ReadCurrent, setting
<1>3. ASSUME NEW c \in Cores, Stamp(c)
      PROVE  Mirrored'
  BY <1>3 DEF Stamp
<1>4. ASSUME NEW c \in Cores, Poll(c)
      PROVE  Mirrored'
  BY <1>4 DEF Poll
<1>5. ASSUME NEW c \in Cores, Compare(c)
      PROVE  Mirrored'
  BY <1>5 DEF Compare, setting
<1>6. ASSUME NEW c \in Cores, Switch(c)
      PROVE  Mirrored'
  BY <1>6 DEF Switch
<1>7. CASE Tick
  BY <1>7 DEF Tick, setting
<1>8. CASE Stopped
  BY <1>8 DEF Stopped, vars, setting
<1> QED BY <1>1, <1>2, <1>3, <1>4, <1>5, <1>6, <1>7, <1>8 DEF Next, Step

LEMMA ScaledStep ==
  ASSUME IInv, Next
  PROVE  ScaledOnReturn'
<1> USE LatencyAssumption DEF IInv, TypeOK, Mirrored, ScaledOnReturn
<1>1. ASSUME NEW c \in Cores, NEW l \in 0 .. nb_freq - 1, SetFrequency(c, l)
      PROVE  ScaledOnReturn'
  BY <1>1 DEF SetFrequency, Call, Goes
<1>2. ASSUME NEW c \in Cores, ReadCurrent(c)
      PROVE  ScaledOnReturn'
  BY <1>2 DEF ReadCurrent, Call, Goes, setting
<1>3. ASSUME NEW c \in Cores, Stamp(c)
      PROVE  ScaledOnReturn'
  BY <1>3 DEF Stamp, Continues, Goes
<1>4. ASSUME NEW c \in Cores, Poll(c)
      PROVE  ScaledOnReturn'
  <2>1. ~Waiting(now, wakeup[c]) => stamp[c] + Latency <= now
    BY <1>4, NeverEarly DEF Poll, Continues, Goes, Times, Polling
  <2>2. ~Waiting(now, wakeup[c]) => current[c] = target[c]
    BY <1>4, <2>1 DEF Poll, Continues, Goes, Times, Polling, SwitchPending
  <2> QED BY <1>4, <2>2 DEF Poll, Continues, Goes
<1>5. ASSUME NEW c \in Cores, Compare(c)
      PROVE  ScaledOnReturn'
  BY <1>5 DEF Compare, Continues, Goes, setting
<1>6. ASSUME NEW c \in Cores, Switch(c)
      PROVE  ScaledOnReturn'
  BY <1>6 DEF Switch
<1>7. CASE Tick
  BY <1>7 DEF Tick, setting
<1>8. CASE Stopped
  BY <1>8 DEF Stopped, vars, setting
<1> QED BY <1>1, <1>2, <1>3, <1>4, <1>5, <1>6, <1>7, <1>8 DEF Next, Step

LEMMA Invariance == Spec => []IInv
<1>1. IInv /\ [Next]_vars => IInv'
  <2>1. CASE UNCHANGED vars
    BY <2>1 DEF vars, setting, getting, IInv, TypeOK, SwitchPending, Times, Polling,
                Mirrored, ScaledOnReturn
  <2> QED BY <2>1, TypeStep, PendingStep, TimesStep, MirroredStep, ScaledStep DEF IInv
<1> QED BY <1>1, InvInit, PTL DEF Spec

(* Every variable keeps its type: the index of the table stays within it    *)
(* (lines 946 and 993), the deadline within a second of its seconds (958).  *)
THEOREM TypeCorrect == Spec => []TypeOK
  BY Invariance, PTL DEF IInv

(* When drake_platform_set_voltage_frequency returns, the cpu runs at the   *)
(* level asked for, unless the write failed (the deadline of 958-966, the   *)
(* loop of 968-972).                                                        *)
THEOREM Scaled == Spec => []ScaledOnReturn
  BY Invariance, PTL DEF IInv

(* However long the scheduler keeps a core from the clock, the loop of      *)
(* 968-972 lets it go in less than a second once it reads the clock at      *)
(* least once per latency, and in less than thrice the latency if it always *)
(* has.                                                                     *)
THEOREM InTime == Spec => []NotMuchLate
<1>1. ASSUME IInv, NEW c \in Cores, pc[c] = "poll", ~Kept(c)
      PROVE  now < IF prompt[c] = stamp[c] THEN stamp[c] + (3 * Latency)
                   ELSE prompt[c] + Second
  <2>1. /\ Polling(c) /\ last[c] <= now /\ now <= last[c] + Latency
        /\ now \in Nat /\ last[c] \in Nat /\ prompt[c] \in Nat /\ stamp[c] \in Nat
    BY <1>1, LatencyAssumption DEF IInv, TypeOK, Times, Kept
  <2>2. CASE prompt[c] = stamp[c]
    BY <2>1, <2>2, LatencyAssumption DEF Polling
  <2>3. CASE prompt[c] # stamp[c]
    BY <2>1, <2>3, WithinSecond DEF Polling
  <2> QED BY <2>2, <2>3
<1>2. IInv => NotMuchLate
  BY <1>1 DEF NotMuchLate
<1> QED BY <1>2, Invariance, PTL

-----------------------------------------------------------------------------
(* Levels.                                                                  *)

(* Of a table as the kernel writes it, the level asked for is the number of *)
(* lower frequencies (lines 179-205 of cpu_manager.c, 946 of intel-ia.c).   *)
THEOREM RanksLevels ==
  ASSUME HighestFirst
  PROVE  Spec => []LevelsByRank
<1>1. IInv => LevelsByRank
  BY HighestFirst, Ranks DEF IInv, Mirrored, LevelsByRank
<1> QED BY <1>1, Invariance, PTL
=============================================================================
