----------------------- MODULE SimpleSetParserProofs -----------------------
(* What the parser refuses and what it reads, for texts of any length.       *)
EXTENDS SimpleSetParser, DataInduction, FiniteSetTheorems, SequenceTheorems

LEMMA Kinds ==
  /\ Digits \subseteq Nat /\ Separators \cap Digits = {}
  /\ Dash \notin Digits \cup Separators /\ Other \notin Digits \cup Separators
  /\ Dash # Other /\ Unset \notin Nat
  /\ Characters = Digits \cup Separators \cup {Dash, Other}
  BY DEF Digits, Separators, Dash, Other, Comma, End, Unset, Characters

-----------------------------------------------------------------------------
(* What the kernel lists.                                                    *)

Words == Seq(Characters)

LEMMA WordFacts ==
  /\ <<>> \in Words
  /\ \A c \in Characters : <<c>> \in Words
  /\ \A s, t \in Words : s \o t \in Words
  /\ \A s \in Words : <<>> \o s = s
  /\ \A s, t, u \in Words : (s \o t) \o u = s \o (t \o u)
<1>1. <<>> \in Words /\ \A c \in Characters : <<c>> \in Words
  BY DEF Words
<1>2. ASSUME NEW s \in Words, NEW t \in Words
      PROVE  s \o t \in Words
  BY <1>2, ConcatProperties DEF Words
<1>3. ASSUME NEW s \in Words
      PROVE  <<>> \o s = s
  BY <1>3, ConcatEmptySeq DEF Words
<1>4. ASSUME NEW s \in Words, NEW t \in Words, NEW u \in Words
      PROVE  (s \o t) \o u = s \o (t \o u)
  BY <1>4, ConcatAssociative DEF Words
<1> QED BY <1>1, <1>2, <1>3, <1>4

LEMMA DecimalType ==
  ASSUME NEW n \in 0 .. Largest
  PROVE  Decimal(n) \in Words
<1>1. n < 10 => n \in Characters
  BY DEF Characters, Digits
<1>2. ~(n < 10) => n \div 10 \in Characters /\ n % 10 \in Characters
  BY DEF Largest, Characters, Digits
<1>3. \A a, b \in Characters : <<a, b>> \in Words
  BY DEF Words
<1> QED BY <1>1, <1>2, <1>3, WordFacts DEF Decimal

LEMMA ClosingType ==
  ASSUME NEW S, NEW n
  PROVE  Closing(S, n) \in Words
<1>1. <<>> \in Words /\ <<Comma>> \in Words /\ <<End>> \in Words
  BY WordFacts DEF Characters
<1> QED BY <1>1 DEF Closing

LEMMA PieceType ==
  ASSUME NEW S, NEW n \in 0 .. Largest
  PROVE  Piece(S, n) \in Words
<1>1. /\ Decimal(n) \in Words /\ Closing(S, n) \in Words
      /\ <<Dash>> \in Words /\ <<>> \in Words
  BY DecimalType, ClosingType, WordFacts DEF Characters
<1>2. <<Dash>> \o Decimal(n) \in Words
  BY <1>1, WordFacts
<1>3. /\ Decimal(n) \o Closing(S, n) \in Words
      /\ (<<Dash>> \o Decimal(n)) \o Closing(S, n) \in Words
  BY <1>1, <1>2, WordFacts
<1> QED BY <1>1, <1>3 DEF Piece

\* There is a function that recurs as the one in TextFrom does.
LEMMA TextEquation ==
  ASSUME NEW S
  PROVE  /\ TextFrom(S)[Largest + 1] = <<>>
         /\ \A n \in 0 .. Largest : TextFrom(S)[n] = Piece(S, n) \o TextFrom(S)[n + 1]
         /\ \A n \in 0 .. Largest + 1 : TextFrom(S)[n] \in Words
<1> DEFINE V == Words
           N == Largest + 1
           next == [p \in Nat \X V |->
                      IF p[1] <= Largest THEN Piece(S, Largest - p[1]) \o p[2] ELSE <<>>]
<1>1. <<>> \in V /\ N \in Nat /\ Largest \in Nat /\ N - 1 = Largest
  BY WordFacts DEF Largest
<1>2. ASSUME NEW p \in Nat \X V
      PROVE  next[p] \in V
  <2>1. p[1] \in Nat /\ p[2] \in V
    OBVIOUS
  <2>2. p[1] <= Largest => Piece(S, Largest - p[1]) \in V
    <3>1. p[1] <= Largest => Largest - p[1] \in 0 .. Largest
      BY <1>1, <2>1
    <3> QED BY <3>1, PieceType
  <2>3. p[1] <= Largest => Piece(S, Largest - p[1]) \o p[2] \in V
    BY <2>1, <2>2, WordFacts
  <2> QED BY <1>1, <2>3
<1>3. next \in [Nat \X V -> V]
  BY <1>2
<1>4. ASSUME NEW d \in 0 .. N - 1, NEW q \in V
      PROVE  next[<<d, q>>] = Piece(S, Largest - d) \o q
  <2>1. d \in Nat /\ d <= Largest
    BY <1>1
  <2> HIDE DEF V
  <2> QED BY <2>1
<1> HIDE DEF V, next
<1>5. PICK h \in [0 .. N -> V] :
        h[0] = <<>> /\ \A d \in 0 .. N - 1 : h[d + 1] = next[<<d, h[d]>>]
  <2>1. Runs(V, <<>>, next, N) # {}
    BY <1>1, <1>3, Recursion
  <2> QED BY <2>1 DEF Runs
<1> DEFINE f == [n \in 0 .. Largest + 1 |-> h[N - n]]
<1>6. \A n \in 0 .. Largest + 1 : N - n \in 0 .. N /\ f[n] \in V /\ f[n] = h[N - n]
  BY <1>1, <1>5
<1>7. ASSUME NEW n \in 0 .. Largest
      PROVE  f[n] = Piece(S, n) \o f[n + 1]
  <2>1. /\ Largest - n \in 0 .. N - 1 /\ (Largest - n) + 1 = N - n /\ N - (n + 1) = Largest - n
        /\ Largest - (Largest - n) = n /\ n \in 0 .. Largest + 1 /\ n + 1 \in 0 .. Largest + 1
    BY <1>1
  <2>2. h[N - n] = next[<<Largest - n, h[Largest - n]>>] /\ h[Largest - n] = f[n + 1]
        /\ f[n + 1] \in V /\ f[n] = h[N - n]
    BY <1>5, <1>6, <2>1
  <2> HIDE DEF f
  <2>3. next[<<Largest - n, f[n + 1]>>] = Piece(S, Largest - (Largest - n)) \o f[n + 1]
    BY <1>4, <2>1, <2>2
  <2> QED BY <2>1, <2>2, <2>3
<1>8. f[Largest + 1] = <<>>
  BY <1>1, <1>5
<1>9. f = [n \in 0 .. Largest + 1 |-> IF n > Largest THEN <<>> ELSE Piece(S, n) \o f[n + 1]]
  <2>1. \A n \in 0 .. Largest + 1 :
          f[n] = IF n > Largest THEN <<>> ELSE Piece(S, n) \o f[n + 1]
    <3>1. \A n \in 0 .. Largest + 1 : n = Largest + 1 \/ (n \in 0 .. Largest /\ ~(n > Largest))
      BY <1>1
    <3>2. Largest + 1 > Largest
      BY <1>1
    <3> HIDE DEF f
    <3> QED BY <1>7, <1>8, <3>1, <3>2
  <2>2. f = [n \in 0 .. Largest + 1 |-> f[n]]
    OBVIOUS
  <2> HIDE DEF f
  <2> QED BY <2>1, <2>2
<1> HIDE DEF f
<1> DEFINE G(g) == [n \in 0 .. Largest + 1 |->
                      IF n > Largest THEN <<>> ELSE Piece(S, n) \o g[n + 1]]
<1>10. TextFrom(S) = CHOOSE g : g = G(g)
  BY DEF TextFrom
<1>11. TextFrom(S) = G(TextFrom(S))
  <2>1. f = G(f)
    BY <1>9
  <2> HIDE DEF G
  <2> QED BY <1>10, <2>1
<1> DEFINE T == TextFrom(S)
<1>12. /\ \A n \in 0 .. Largest : T[n] = Piece(S, n) \o T[n + 1]
       /\ T[Largest + 1] = <<>>
  <2>1. T = G(T)
    BY <1>11
  <2> HIDE DEF T
  <2>2. \A n \in 0 .. Largest + 1 : T[n] = IF n > Largest THEN <<>> ELSE Piece(S, n) \o T[n + 1]
    BY <2>1
  <2>3. T[Largest + 1] = <<>>
    BY <1>1, <2>2
  <2>4. ASSUME NEW n \in 0 .. Largest
        PROVE  T[n] = Piece(S, n) \o T[n + 1]
    <3>1. n \in 0 .. Largest + 1 /\ ~(n > Largest)
      BY <1>1
    <3> QED BY <2>2, <3>1
  <2> QED BY <2>3, <2>4
<1>13. /\ \A n \in 0 .. Largest : TextFrom(S)[n] = Piece(S, n) \o TextFrom(S)[n + 1]
       /\ TextFrom(S)[Largest + 1] = <<>>
  BY <1>12
<1> HIDE DEF T
<1> DEFINE D == {n \in 0 .. N : TextFrom(S)[n] \in V}
<1>14. N \in D
  BY <1>1, <1>13
<1>15. ASSUME NEW n \in 0 .. N - 1, n + 1 \in D
       PROVE  n \in D
  <2>1. n \in 0 .. Largest /\ n \in 0 .. N
    BY <1>1
  <2>2. Piece(S, n) \in V /\ TextFrom(S)[n + 1] \in V
    BY <1>15, <2>1, PieceType DEF V
  <2>3. Piece(S, n) \o TextFrom(S)[n + 1] \in V
    BY <2>2, WordFacts DEF V
  <2> QED BY <1>13, <2>1, <2>3
<1>16. 0 .. N \subseteq D
  <2> HIDE DEF D
  <2> QED BY <1>1, <1>14, <1>15, DownwardInduction
<1> QED BY <1>13, <1>16 DEF V

\* What stands behind a number.
After(S, n) == Closing(S, n) \o TextFrom(S)[n + 1]

Starts(S, m) == m \in S /\ m - 1 \notin S

LEMMA AfterType ==
  ASSUME NEW S, NEW n \in 0 .. Largest
  PROVE  After(S, n) \in Words
<1>1. n + 1 \in 0 .. Largest + 1
  BY DEF Largest
<1> QED BY <1>1, ClosingType, TextEquation, WordFacts DEF After

LEMMA DigitPair ==
  ASSUME NEW a, NEW b
  PROVE  <<a, b>> = <<a>> \o <<b>>
<1>1. /\ <<a>> \in Seq({a, b}) /\ <<b>> \in Seq({a, b}) /\ <<a, b>> \in Seq({a, b})
      /\ Len(<<a>>) = 1 /\ Len(<<b>>) = 1 /\ Len(<<a, b>>) = 2
      /\ <<a>>[1] = a /\ <<b>>[1] = b /\ <<a, b>>[1] = a /\ <<a, b>>[2] = b
  OBVIOUS
<1>2. <<a>> \o <<b>> \in Seq({a, b}) /\ Len(<<a>> \o <<b>>) = 2
      /\ (<<a>> \o <<b>>)[1] = a /\ (<<a>> \o <<b>>)[2] = b
  BY <1>1, ConcatProperties
<1> DEFINE s == <<a, b>>
           t == <<a>> \o <<b>>
<1>3. s \in Seq({a, b}) /\ t \in Seq({a, b}) /\ Len(s) = Len(t)
      /\ \A k \in 1 .. Len(s) : s[k] = t[k]
  BY <1>1, <1>2
<1> HIDE DEF s, t
<1>4. s = t
  BY <1>3, SeqEqual
<1> QED BY <1>4 DEF s, t

LEMMA DecimalRead ==
  ASSUME NEW n \in 0 .. Largest, NEW t \in Words
  PROVE  /\ n < 10 => n \in Digits /\ Decimal(n) \o t = <<n>> \o t
         /\ n >= 10 => /\ n \div 10 \in Digits /\ n % 10 \in Digits
                       /\ (n \div 10) * 10 + (n % 10) = n
                       /\ Decimal(n) \o t = <<n \div 10>> \o (<<n % 10>> \o t)
<1>1. n < 10 => n \in Digits
  BY DEF Digits
<1>2. n >= 10 => /\ n \div 10 \in Digits /\ n % 10 \in Digits
                 /\ (n \div 10) * 10 + (n % 10) = n
  BY DEF Digits, Largest
<1>3. ASSUME n >= 10
      PROVE  Decimal(n) \o t = <<n \div 10>> \o (<<n % 10>> \o t)
  <2> DEFINE a == n \div 10
             b == n % 10
  <2>1. a \in Characters /\ b \in Characters
    BY <1>2, <1>3 DEF Characters
  <2>2. Decimal(n) = <<a, b>>
    BY <1>3 DEF Decimal
  <2> HIDE DEF a, b
  <2>3. <<a>> \in Words /\ <<b>> \in Words
    BY <2>1, WordFacts
  <2>4. <<a, b>> = <<a>> \o <<b>>
    BY <2>1, DigitPair
  <2>5. Decimal(n) \o t = <<a>> \o (<<b>> \o t)
    BY <2>2, <2>3, <2>4, WordFacts
  <2> QED BY <2>5 DEF a, b
<1> QED BY <1>1, <1>2, <1>3 DEF Decimal

LEMMA TextAtStart ==
  ASSUME NEW S, NEW m \in 0 .. Largest, Starts(S, m)
  PROVE  TextFrom(S)[m] = Decimal(m) \o After(S, m)
<1>1. TextFrom(S)[m] = Piece(S, m) \o TextFrom(S)[m + 1]
      /\ TextFrom(S)[m + 1] \in Words
  <2>1. m + 1 \in 0 .. Largest + 1
    BY DEF Largest
  <2> QED BY <2>1, TextEquation
<1>2. Piece(S, m) = Decimal(m) \o Closing(S, m)
  BY DEF Starts, Piece
<1>3. Decimal(m) \in Words /\ Closing(S, m) \in Words
  BY DecimalType, ClosingType
<1>4. (Decimal(m) \o Closing(S, m)) \o TextFrom(S)[m + 1]
        = Decimal(m) \o (Closing(S, m) \o TextFrom(S)[m + 1])
  BY <1>1, <1>3, WordFacts
<1> QED BY <1>1, <1>2, <1>4 DEF After

LEMMA TextAtLast ==
  ASSUME NEW S, NEW m \in 0 .. Largest, m \in S, m - 1 \in S, m + 1 \notin S
  PROVE  TextFrom(S)[m] = <<Dash>> \o (Decimal(m) \o After(S, m))
<1>1. TextFrom(S)[m] = Piece(S, m) \o TextFrom(S)[m + 1]
      /\ TextFrom(S)[m + 1] \in Words
  <2>1. m + 1 \in 0 .. Largest + 1
    BY DEF Largest
  <2> QED BY <2>1, TextEquation
<1>2. Piece(S, m) = (<<Dash>> \o Decimal(m)) \o Closing(S, m)
  BY DEF Piece
<1> DEFINE V == Words
           dash == <<Dash>>
           number == Decimal(m)
           close == Closing(S, m)
           from == TextFrom(S)[m + 1]
<1>3. dash \in V /\ number \in V /\ close \in V /\ from \in V
  BY <1>1, DecimalType, ClosingType, WordFacts DEF Characters
<1> HIDE DEF dash, number, close, from
<1>4. ((dash \o number) \o close) \o from = dash \o (number \o (close \o from))
  <2>1. dash \o number \in Words /\ close \o from \in Words
    BY <1>3, WordFacts
  <2>2. ((dash \o number) \o close) \o from = (dash \o number) \o (close \o from)
    BY <1>3, <2>1, WordFacts
  <2>3. (dash \o number) \o (close \o from) = dash \o (number \o (close \o from))
    BY <1>3, <2>1, WordFacts
  <2> QED BY <2>2, <2>3
<1> QED BY <1>1, <1>2, <1>4 DEF After, dash, number, close, from

\* Numbers of which nothing is listed may be passed over.
LEMMA Skips ==
  ASSUME NEW S, NEW a \in 0 .. Largest + 1, NEW b \in a .. Largest + 1,
         \A n \in a .. b - 1 : Piece(S, n) = <<>>
  PROVE  TextFrom(S)[a] = TextFrom(S)[b]
<1> DEFINE D == {d \in 0 .. b - a : TextFrom(S)[a + d] = TextFrom(S)[b]}
<1>1. b - a \in Nat /\ b - a \in D
  <2>1. a + (b - a) = b /\ b - a \in Nat
    OBVIOUS
  <2> QED BY <2>1
<1>2. ASSUME NEW d \in 0 .. (b - a) - 1, d + 1 \in D
      PROVE  d \in D
  <2>1. /\ a + d \in 0 .. Largest /\ a + d \in a .. b - 1 /\ (a + d) + 1 = a + (d + 1)
        /\ (a + d) + 1 \in 0 .. Largest + 1 /\ d \in 0 .. b - a
    BY DEF Largest
  <2>2. TextFrom(S)[a + d] = <<>> \o TextFrom(S)[(a + d) + 1]
        /\ TextFrom(S)[(a + d) + 1] \in Words
    BY <2>1, TextEquation
  <2>3. TextFrom(S)[a + d] = TextFrom(S)[(a + d) + 1]
    BY <2>2, WordFacts
  <2>4. TextFrom(S)[a + (d + 1)] = TextFrom(S)[b]
    BY <1>2
  <2> QED BY <2>1, <2>3, <2>4
<1>3. 0 \in D
  <2> HIDE DEF D
  <2>1. 0 .. b - a \subseteq D
    BY <1>1, <1>2, DownwardInduction
  <2> QED BY <1>1, <2>1
<1> QED BY <1>3

\* From a number on that does not go on with a range, the listing has the next
\* range, or ends.
LEMMA NextStart ==
  ASSUME NEW S \in SUBSET (0 .. Largest), NEW a \in 0 .. Largest + 1,
         a \notin S \/ a - 1 \notin S
  PROVE  \/ /\ \A x \in S : x < a
            /\ TextFrom(S)[a] = <<>>
         \/ \E m \in S : /\ a <= m /\ Starts(S, m)
                         /\ \A x \in S : x < m <=> x < a
                         /\ TextFrom(S)[a] = TextFrom(S)[m]
<1>1. Largest \in Nat
  BY DEF Largest
<1>2. CASE \A x \in S : x < a
  <2>1. \A n \in a .. (Largest + 1) - 1 : Piece(S, n) = <<>>
    BY <1>1, <1>2 DEF Piece
  <2>2. TextFrom(S)[a] = TextFrom(S)[Largest + 1]
    BY <1>1, <2>1, Skips
  <2> QED BY <1>2, <2>2, TextEquation
<1>3. CASE ~ \A x \in S : x < a
  <2> DEFINE above == {x \in S : a <= x}
  <2>1. above \subseteq Nat /\ above # {}
    <3>1. PICK x \in S : ~(x < a)
      BY <1>3
    <3>2. x \in Nat /\ a <= x /\ S \subseteq Nat
      BY <1>1, <3>1
    <3> QED BY <3>2
  <2>2. PICK m \in above : \A x \in above : m <= x
    BY <2>1, LeastNumber
  <2>3. m \in S /\ m \in a .. Largest + 1 /\ \A x \in S : x < m <=> x < a
    BY <1>1, <2>2
  <2>4. Starts(S, m)
    <3>1. m - 1 < a => m = a
      BY <1>1, <2>3
    <3> QED BY <1>1, <2>3, <3>1 DEF Starts
  <2>5. \A n \in a .. m - 1 : Piece(S, n) = <<>>
    BY <1>1, <2>3 DEF Piece
  <2>6. TextFrom(S)[a] = TextFrom(S)[m]
    BY <1>1, <2>3, <2>5, Skips
  <2> QED BY <2>3, <2>4, <2>6
<1> QED BY <1>2, <1>3

\* Behind the last number of a range are a separator and the next range.
LEMMA BehindRange ==
  ASSUME NEW S \in SUBSET (0 .. Largest), NEW n \in S, n + 1 \notin S
  PROVE  \E c \in Separators :
           /\ After(S, n) = <<c>> \o TextFrom(S)[n + 1]
           /\ \/ /\ \A x \in S : x < n + 1
                 /\ TextFrom(S)[n + 1] = <<>>
              \/ \E m \in S : /\ Starts(S, m)
                              /\ \A x \in S : x < m <=> x < n + 1
                              /\ TextFrom(S)[n + 1] = TextFrom(S)[m]
<1>1. PICK c \in Separators : Closing(S, n) = <<c>>
  BY DEF Closing, Separators
<1>2. n + 1 \in 0 .. Largest + 1
  BY DEF Largest
<1>3. \/ /\ \A x \in S : x < n + 1
         /\ TextFrom(S)[n + 1] = <<>>
      \/ \E m \in S : /\ n + 1 <= m /\ Starts(S, m)
                      /\ \A x \in S : x < m <=> x < n + 1
                      /\ TextFrom(S)[n + 1] = TextFrom(S)[m]
  BY <1>2, NextStart
<1> QED BY <1>1, <1>3 DEF After

\* Behind the first number of a range of several are a dash, its last number,
\* and what is behind that.
LEMMA WithinRange ==
  ASSUME NEW S \in SUBSET (0 .. Largest), NEW m \in S, m + 1 \in S
  PROVE  \E n \in S : /\ m < n /\ n + 1 \notin S
                      /\ \A x \in m .. n : x \in S
                      /\ After(S, m) = <<Dash>> \o (Decimal(n) \o After(S, n))
<1>1. Largest \in Nat /\ Largest + 1 \in 0 .. Largest + 1
  BY DEF Largest
<1> DEFINE ends == {n \in Nat : m < n /\ n + 1 \notin S}
<1>2. ends # {}
  <2>1. Largest \in ends
    BY <1>1
  <2> QED BY <2>1
<1>3. PICK n \in ends : \A x \in ends : n <= x
  BY <1>2, LeastNumber
<1>4. n \in Nat /\ m < n /\ n + 1 \notin S
  BY <1>3
<1>5. ASSUME NEW x \in m .. n
      PROVE  x \in S
  <2>1. CASE x = m \/ x = m + 1
    BY <2>1
  <2>2. CASE x > m + 1
    <3>1. x - 1 \in Nat /\ m < x - 1 /\ ~(n <= x - 1) /\ (x - 1) + 1 = x
      BY <1>1, <1>4, <2>2
    <3> QED BY <1>3, <3>1
  <2> QED BY <1>1, <2>1, <2>2
<1>6. n \in S /\ n - 1 \in S /\ n \in m + 1 .. Largest /\ m + 1 \in 0 .. Largest + 1
  BY <1>1, <1>4, <1>5
<1>7. \A x \in m + 1 .. n - 1 : Piece(S, x) = <<>>
  <2> TAKE x \in m + 1 .. n - 1
  <2>1. x \in S /\ x - 1 \in S /\ x + 1 \in S
    BY <1>1, <1>4, <1>5
  <2> QED BY <2>1 DEF Piece
<1>8. TextFrom(S)[m + 1] = TextFrom(S)[n]
  BY <1>1, <1>6, <1>7, Skips
<1>9. TextFrom(S)[n] = <<Dash>> \o (Decimal(n) \o After(S, n)) /\ TextFrom(S)[m + 1] \in Words
  BY <1>1, <1>4, <1>6, TextAtLast, TextEquation
<1>10. After(S, m) = TextFrom(S)[m + 1]
  BY <1>9, WordFacts DEF After, Closing
<1> QED BY <1>4, <1>5, <1>6, <1>8, <1>9, <1>10

-----------------------------------------------------------------------------
(* Types.                                                                    *)

\* TypeOK but for the text.
Numbers ==
  /\ pos \in Nat
  /\ state \in {"BEGIN_NUMBER", "NUMBER", "BEGIN_INTERVAL", "INTERVAL"}
  /\ value \in Nat \cup {Unset}
  /\ min \in Nat \cup {Unset}
  /\ state # "BEGIN_NUMBER" => value # Unset
  /\ state \in {"BEGIN_INTERVAL", "INTERVAL"} => min # Unset
  /\ member \in Seq(Nat)
  /\ held \in BOOLEAN
  /\ member # <<>> => held
  /\ result \in {"reading", "read", "aborted"}

\* A whole interval keeps the set a sequence, also one that ends below its
\* start and makes the set shorter.
LEMMA AddIntervalType ==
  ASSUME Numbers, min \in Nat, value \in Nat, AddInterval(value)
  PROVE  /\ member' \in Seq(Nat) /\ (member' # <<>> => held') /\ held' \in BOOLEAN
         /\ state' \in {state, "BEGIN_NUMBER"} /\ value' = value /\ min' = min
         /\ result' \in {result, "aborted"}
         /\ result' = "aborted" => result = "aborted" \/ value < min
<1> DEFINE size == Len(member) + value - min + 1
<1>1. Len(member) \in Nat /\ member \in Seq(Nat) /\ size \in Int
  BY DEF Numbers
<1>2. CASE size < 0 \/ (size = 0 /\ held)
  <2>1. /\ result' = "aborted" /\ UNCHANGED <<state, value, min, member, held>>
    BY <1>2 DEF AddInterval, ParsingError
  <2>2. value < min
    BY <1>1, <1>2
  <2> QED
    BY <2>1, <2>2 DEF Numbers
<1>3. CASE ~(size < 0 \/ (size = 0 /\ held))
  <2>1. /\ member' = IF min <= value
                     THEN member \o [k \in 1 .. value - min + 1 |-> min + k - 1]
                     ELSE SubSeq(member, 1, size)
        /\ held' = TRUE /\ state' = "BEGIN_NUMBER" /\ UNCHANGED <<value, min, result>>
    BY <1>3 DEF AddInterval
  <2>2. CASE min <= value
    <3> DEFINE more == [k \in 1 .. value - min + 1 |-> min + k - 1]
    <3>1. value - min + 1 \in Nat /\ \A k \in 1 .. value - min + 1 : min + k - 1 \in Nat
      BY <2>2
    <3>2. more \in Seq(Nat)
      BY <3>1
    <3>3. member \o more \in Seq(Nat)
      BY <1>1, <3>2, ConcatProperties
    <3> QED
      BY <2>1, <2>2, <3>3
  <2>3. CASE ~(min <= value)
    <3>1. size \in 0 .. Len(member)
      BY <1>1, <1>3, <2>3
    <3>2. SubSeq(member, 1, size) \in Seq(Nat)
      BY <1>1, <3>1, SubSeqProperties
    <3> QED
      BY <2>1, <2>3, <3>2
  <2> QED
    BY <2>2, <2>3
<1> QED
  BY <1>2, <1>3

LEMMA NumbersInit == Init => Numbers
<1> SUFFICES ASSUME Init PROVE Numbers
  OBVIOUS
<1>1. /\ member = <<>> /\ held \in BOOLEAN /\ pos \in Nat /\ state = "BEGIN_NUMBER"
      /\ value = Unset /\ min = Unset /\ result = "reading"
  BY DEF Init
<1>2. member \in Seq(Nat)
  BY <1>1, EmptySeq
<1> QED
  BY <1>1, <1>2 DEF Numbers

LEMMA NumbersStep == Numbers /\ [Next]_vars => Numbers'
<1> SUFFICES ASSUME Numbers, [Next]_vars PROVE Numbers'
  OBVIOUS
<1>1. ASSUME NEW next \in {"NUMBER", "INTERVAL"}, FirstDigit(next), pos' \in Nat,
             next = "INTERVAL" => min # Unset
      PROVE  Numbers'
  BY <1>1, Kinds DEF FirstDigit, Numbers
<1>2. ASSUME NextDigit, pos' \in Nat, value # Unset
      PROVE  Numbers'
  <2>1. car \in Nat /\ value \in Nat /\ value' \in Nat
    BY <1>2, Kinds DEF NextDigit, Numbers
  <2> QED
    BY <1>2, <2>1, Kinds DEF NextDigit, Numbers
<1>3. ASSUME ParsingError, pos' \in Nat
      PROVE  Numbers'
  BY <1>3 DEF ParsingError, Numbers
<1>4. ASSUME NEW here, Turn(here)
      PROVE  pos' \in Nat /\ state = here
  BY <1>4 DEF Turn, Numbers
<1>5. CASE BeginNumber
  BY <1>1, <1>3, <1>4, <1>5 DEF BeginNumber
<1>6. CASE Number
  <2>1. pos' \in Nat /\ value \in Nat /\ value # Unset
    BY <1>4, <1>6 DEF Number, Numbers
  <2>2. CASE NextDigit \/ ParsingError
    BY <1>2, <1>3, <2>1, <2>2
  <2>3. CASE member' = Append(member, value) /\ held' = TRUE /\ state' = "BEGIN_NUMBER"
             /\ UNCHANGED <<value, min, result>>
    BY <2>1, <2>3 DEF Numbers
  <2>4. CASE min' = value /\ state' = "BEGIN_INTERVAL"
             /\ UNCHANGED <<value, member, held, result>>
    BY <2>1, <2>4 DEF Numbers
  <2> QED
    BY <1>6, <2>2, <2>3, <2>4 DEF Number
<1>7. CASE BeginInterval
  <2>1. pos' \in Nat /\ min # Unset
    BY <1>4, <1>7 DEF BeginInterval, Numbers
  <2> QED
    BY <1>1, <1>3, <1>7, <2>1 DEF BeginInterval
<1>8. CASE Interval
  <2>1. pos' \in Nat /\ state = "INTERVAL" /\ value # Unset /\ min \in Nat /\ value \in Nat
    BY <1>4, <1>8 DEF Interval, Numbers
  <2>2. CASE NextDigit \/ ParsingError
    BY <1>2, <1>3, <2>1, <2>2
  <2>3. CASE AddInterval(value)
    <3>1. /\ member' \in Seq(Nat) /\ (member' # <<>> => held') /\ held' \in BOOLEAN
          /\ state' \in {state, "BEGIN_NUMBER"} /\ value' = value /\ min' = min
          /\ result' \in {result, "aborted"}
      BY <2>1, <2>3, AddIntervalType
    <3> QED
      BY <2>1, <3>1 DEF Numbers
  <2> QED
    BY <1>8, <2>2, <2>3 DEF Interval
<1>9. CASE EndOfFile
  BY <1>9 DEF EndOfFile, Numbers
<1>10. CASE Stopped \/ UNCHANGED vars
  BY <1>10 DEF Stopped, vars, Numbers
<1> QED
  BY <1>5, <1>6, <1>7, <1>8, <1>9, <1>10 DEF Next

\* The text is one of characters, and the parser keeps within it.
Inside == text \in Seq(Characters) /\ pos \in 0 .. Len(text)

LEMMA InsideInit == Init => Inside
<1>1. \A S \in Sets : Listing[S] \in Seq(Characters)
  <2>1. 0 \in 0 .. Largest + 1
    BY DEF Largest
  <2> QED BY <2>1, TextEquation DEF Listing, Words
<1>2. Init => text \in Seq(Characters) /\ pos = 0
  BY <1>1, TextsAssumption DEF Init
<1> QED BY <1>2, LenProperties DEF Inside

LEMMA InsideStep == Inside /\ [Next]_vars => Inside'
<1> SUFFICES ASSUME Inside, [Next]_vars PROVE Inside'
  OBVIOUS
<1>1. ASSUME NEW here, Turn(here)
      PROVE  Inside'
  BY <1>1 DEF Turn, Inside
<1>2. CASE BeginNumber \/ Number \/ BeginInterval \/ Interval
  BY <1>1, <1>2 DEF BeginNumber, Number, BeginInterval, Interval
<1>3. CASE EndOfFile \/ Stopped \/ UNCHANGED vars
  BY <1>3 DEF EndOfFile, Stopped, vars, Inside
<1> QED
  BY <1>2, <1>3 DEF Next

\* The parser's variables keep their types and no number is used before it was
\* read, whatever characters a file holds.
THEOREM TypeCorrect == Spec => []TypeOK
<1>3. Inside /\ Numbers => TypeOK
  BY DEF Inside, Numbers, TypeOK
<1> QED
  BY <1>3, InsideInit, InsideStep, NumbersInit, NumbersStep, PTL DEF Spec

-----------------------------------------------------------------------------
(* What is refused.                                                          *)

\* No dash was read since the last separator.
NoDash == \A j \in 1 .. pos : text[j] = Dash => \E m \in j .. pos : text[m] \in Separators

OneDash == \E j \in 1 .. pos : text[j] = Dash /\ \A m \in j .. pos : text[m] \notin Separators

\* What the state of the parser says about the text behind it.
Behind ==
  result = "reading" =>
    /\ \A k \in 1 .. pos : Fits(k)
    /\ state = "BEGIN_NUMBER" => pos = 0 \/ (pos > 0 /\ text[pos] \in Separators)
    /\ state = "NUMBER" => pos > 0 /\ text[pos] \in Digits /\ NoDash
    /\ state = "BEGIN_INTERVAL" => pos > 0 /\ text[pos] = Dash
    /\ state = "INTERVAL" => pos > 0 /\ text[pos] \in Digits /\ OneDash

LEMMA DashAtEnd ==
  ASSUME Numbers, Behind, result = "reading"
  PROVE  /\ state = "BEGIN_NUMBER" => NoDash
         /\ state = "BEGIN_INTERVAL" => OneDash
<1>1. pos \in Nat
  BY DEF Numbers
<1>2. state = "BEGIN_NUMBER" => NoDash
  BY <1>1 DEF Behind, NoDash
<1>3. state = "BEGIN_INTERVAL" => OneDash
  <2>1. ASSUME pos > 0, text[pos] = Dash
        PROVE  OneDash
    <3>1. pos \in 1 .. pos /\ \A m \in pos .. pos : text[m] \notin Separators
      BY <1>1, <2>1, Kinds
    <3> QED
      BY <2>1, <3>1 DEF OneDash
  <2> QED
    BY <2>1 DEF Behind
<1> QED
  BY <1>2, <1>3

\* RefusedAtFault, with an end of the input where a number would begin refused
\* like any other fault.
FaultRefused ==
  /\ result = "read" => \A k \in 1 .. Len(text) : Fits(k)
  /\ result = "aborted" => ~Fits(pos) \/ value < min

LEMMA BehindStep ==
  ASSUME Numbers, Behind, FaultRefused, [Next]_vars
  PROVE  Behind' /\ FaultRefused'
<1>1. pos \in Nat /\ state \in {"BEGIN_NUMBER", "NUMBER", "BEGIN_INTERVAL", "INTERVAL"}
  BY DEF Numbers
<1>2. ASSUME NEW here, Turn(here)
      PROVE  /\ result = "reading" /\ state = here /\ pos' = pos + 1 /\ text' = text
             /\ car = text[pos + 1] /\ pos + 1 > 0 /\ pos + 1 - 1 = pos
             /\ \A k \in 1 .. pos + 1 : k = pos + 1 \/ k \in 1 .. pos
             /\ \A k \in 1 .. pos : Fits(k)
             /\ \A k : Fits(k)' <=> Fits(k)
  BY <1>1, <1>2 DEF Turn, car, Behind, Fits
\* A digit always fits.
<1>3. ASSUME NEW here, Turn(here), car \in Digits, UNCHANGED result
      PROVE  /\ \A k \in 1 .. pos' : Fits(k)'
             /\ result' = "reading" /\ pos' > 0 /\ text'[pos'] \in Digits
             /\ NoDash => NoDash'
             /\ OneDash => OneDash'
  <2>1. Fits(pos + 1)
    BY <1>2, <1>3, Kinds DEF Fits
  <2>2. NoDash => NoDash'
    BY <1>1, <1>2, <1>3, Kinds DEF NoDash
  <2>3. OneDash => OneDash'
    BY <1>1, <1>2, <1>3, Kinds DEF OneDash
  <2> QED
    BY <1>2, <1>3, <2>1, <2>2, <2>3
\* A separator after a digit fits.
<1>4. ASSUME NEW here, Turn(here), car \in Separators, pos > 0, text[pos] \in Digits
      PROVE  /\ \A k \in 1 .. pos' : Fits(k)'
             /\ pos' > 0 /\ text'[pos'] \in Separators
  <2>1. Fits(pos + 1)
    BY <1>1, <1>2, <1>4, Kinds DEF Fits
  <2> QED
    BY <1>2, <1>4, <2>1
<1>5. ASSUME NEW here, Turn(here), ~Fits(pos + 1), ParsingError
      PROVE  Behind' /\ FaultRefused'
  <2>1. result' = "aborted" /\ ~Fits(pos)'
    BY <1>2, <1>5 DEF ParsingError, Fits
  <2> QED
    BY <2>1 DEF Behind, FaultRefused
<1>6. result' = "reading" => FaultRefused'
  BY DEF FaultRefused
<1>7. CASE BeginNumber
  <2>1. Turn("BEGIN_NUMBER") /\ NoDash /\ (pos = 0 \/ text[pos] \in Separators)
    BY <1>2, <1>7, DashAtEnd DEF BeginNumber, Behind
  <2>2. CASE FirstDigit("NUMBER")
    BY <1>3, <1>6, <2>1, <2>2 DEF FirstDigit, Behind
  <2>3. CASE car \notin Digits /\ ParsingError
    <3>1. ~Fits(pos + 1)
      BY <1>1, <1>2, <2>1, <2>3, Kinds DEF Fits
    <3> QED
      BY <1>5, <2>1, <2>3, <3>1
  <2> QED
    BY <1>7, <2>2, <2>3 DEF BeginNumber
<1>8. CASE Number
  <2>1. Turn("NUMBER") /\ NoDash /\ pos > 0 /\ text[pos] \in Digits /\ result = "reading"
    BY <1>2, <1>8 DEF Number, Behind
  <2>2. CASE NextDigit
    BY <1>2, <1>3, <1>6, <2>1, <2>2 DEF NextDigit, Behind
  <2>3. CASE car \in Separators /\ state' = "BEGIN_NUMBER" /\ UNCHANGED result
    BY <1>4, <1>6, <2>1, <2>3 DEF Behind
  <2>4. CASE car = Dash /\ state' = "BEGIN_INTERVAL" /\ UNCHANGED result
    <3>1. Fits(pos + 1)
      <4>1. \A j \in 1 .. (pos + 1) - 1 : text[j] = Dash =>
              \E m \in j .. pos + 1 : text[m] \in Separators
        BY <1>1, <2>1 DEF NoDash
      <4> QED
        BY <1>2, <2>1, <2>4, <4>1, <1>1, Kinds DEF Fits
    <3> QED
      BY <1>2, <1>6, <2>1, <2>4, <3>1 DEF Behind
  <2>5. CASE car = Other /\ ParsingError
    <3>1. ~Fits(pos + 1)
      BY <1>2, <2>1, <2>5 DEF Fits
    <3> QED
      BY <1>5, <2>1, <2>5, <3>1
  <2> QED
    BY <1>8, <2>2, <2>3, <2>4, <2>5 DEF Number
<1>9. CASE BeginInterval
  <2>1. Turn("BEGIN_INTERVAL") /\ OneDash /\ pos > 0 /\ text[pos] = Dash
    BY <1>2, <1>9, DashAtEnd DEF BeginInterval, Behind
  <2>2. CASE FirstDigit("INTERVAL")
    BY <1>3, <1>6, <2>1, <2>2 DEF FirstDigit, Behind
  <2>3. CASE car \notin Digits /\ ParsingError
    <3>1. ~Fits(pos + 1)
      BY <1>1, <1>2, <2>1, <2>3, Kinds DEF Fits
    <3> QED
      BY <1>5, <2>1, <2>3, <3>1
  <2> QED
    BY <1>9, <2>2, <2>3 DEF BeginInterval
<1>10. CASE Interval
  <2>1. /\ Turn("INTERVAL") /\ OneDash /\ pos > 0 /\ text[pos] \in Digits
        /\ result = "reading" /\ state = "INTERVAL" /\ min \in Nat /\ value \in Nat
    BY <1>2, <1>10 DEF Interval, Behind, Numbers
  <2>2. CASE NextDigit
    BY <1>2, <1>3, <1>6, <2>1, <2>2 DEF NextDigit, Behind
  <2>3. CASE car \in Separators /\ AddInterval(value)
    <3>1. /\ value' = value /\ min' = min /\ result' \in {"reading", "aborted"}
          /\ result' = "aborted" => value' < min'
          /\ result' = "reading" => state' = "BEGIN_NUMBER"
      <4>1. /\ value' = value /\ min' = min /\ result' \in {result, "aborted"}
            /\ result' = "aborted" => result = "aborted" \/ value < min
        BY <2>1, <2>3, AddIntervalType
      <4>2. result' = "reading" => state' = "BEGIN_NUMBER"
        BY <2>3 DEF AddInterval, ParsingError
      <4> QED
        BY <2>1, <4>1, <4>2
    <3>2. CASE result' = "reading"
      BY <1>4, <1>6, <2>1, <2>3, <3>1, <3>2 DEF Behind
    <3>3. CASE result' = "aborted"
      BY <3>1, <3>3 DEF Behind, FaultRefused
    <3> QED
      BY <3>1, <3>2, <3>3
  <2>4. CASE car \in {Dash, Other} /\ ParsingError
    <3>1. ~Fits(pos + 1)
      <4>1. CASE car = Other
        BY <1>2, <2>1, <4>1 DEF Fits
      <4>2. CASE car = Dash
        <5>1. PICK j \in 1 .. pos : text[j] = Dash /\ \A m \in j .. pos : text[m] \notin Separators
          BY <2>1 DEF OneDash
        <5>2. j \in 1 .. (pos + 1) - 1 /\ \A m \in j .. pos + 1 : text[m] \notin Separators
          BY <1>1, <1>2, <2>1, <4>2, <5>1, Kinds
        <5> QED
          BY <1>2, <2>1, <4>2, <5>1, <5>2 DEF Fits
      <4> QED
        BY <2>4, <4>1, <4>2
    <3> QED
      BY <1>5, <2>1, <2>4, <3>1
  <2> QED
    BY <1>10, <2>2, <2>3, <2>4 DEF Interval
<1>11. CASE EndOfFile
  <2>1. result' = "read" /\ text' = text /\ \A k \in 1 .. Len(text) : Fits(k)
    BY <1>11 DEF EndOfFile, Behind
  <2>2. \A k : Fits(k)' <=> Fits(k)
    BY <2>1 DEF Fits
  <2> QED
    BY <2>1, <2>2 DEF Behind, FaultRefused
<1>12. CASE Stopped \/ UNCHANGED vars
  <2>1. UNCHANGED vars
    BY <1>12 DEF Stopped
  <2>2. \A k : Fits(k)' <=> Fits(k)
    BY <2>1 DEF Fits, vars
  <2> QED
    BY <2>1, <2>2 DEF vars, Behind, FaultRefused, NoDash, OneDash
<1> QED
  BY <1>7, <1>8, <1>9, <1>10, <1>11, <1>12 DEF Next

\* Of the texts of any length the parser reads to their end only those in which
\* every character fits, and it refuses no other, except for an interval
\* that ends below its start.
THEOREM RefusesAtFault == Spec => []RefusedAtFault
<1>1. Init => Behind /\ FaultRefused
  BY DEF Init, Behind, FaultRefused
<1>2. FaultRefused => RefusedAtFault
  BY DEF FaultRefused, RefusedAtFault
<1> QED
  BY <1>1, <1>2, NumbersInit, NumbersStep, BehindStep, PTL DEF Spec

-----------------------------------------------------------------------------
(* The set that is read.                                                     *)

Ascends(s) == \A j, k \in 1 .. Len(s) : j < k => s[j] < s[k]

\* The numbers of S below m, in their order.
Took(S, m, s) ==
  /\ s \in Seq(Nat) /\ Ascends(s)
  /\ \A x \in Nat : (\E k \in 1 .. Len(s) : s[k] = x) <=> x \in S /\ x < m

Span(S, m, n) == m <= n /\ \A x \in m .. n : x \in S

\* A range more.
LEMMA TookSpan ==
  ASSUME NEW S \in SUBSET Nat, NEW m \in S, NEW n \in S, NEW s, NEW k \in Nat,
         Took(S, m, s), Span(S, m, n), \A x \in S : x < k <=> x < n + 1
  PROVE  Took(S, k, s \o [j \in 1 .. n - m + 1 |-> m + j - 1])
<1> DEFINE new == [j \in 1 .. n - m + 1 |-> m + j - 1]
           t == s \o new
           N == Len(s)
           M == n - m + 1
<1>1. m \in Nat /\ n \in Nat /\ M \in Nat /\ m <= n
  BY DEF Span
<1>2. new \in Seq(Nat) /\ Len(new) = M /\ \A j \in 1 .. M : new[j] = m + j - 1
  BY <1>1
<1>3. s \in Seq(Nat) /\ N \in Nat /\ \A j \in 1 .. N : s[j] \in Nat
  BY LenProperties DEF Took
<1> HIDE DEF new
<1>4. /\ t \in Seq(Nat) /\ Len(t) = N + M
      /\ \A j \in 1 .. N + M : t[j] = IF j <= N THEN s[j] ELSE new[j - N]
  <2>1. /\ s \o new \in Seq(Nat) /\ Len(s \o new) = Len(s) + Len(new)
        /\ \A j \in 1 .. Len(s) + Len(new) :
             (s \o new)[j] = IF j <= Len(s) THEN s[j] ELSE new[j - Len(s)]
    <3>1. new \in Seq(Nat) /\ s \in Seq(Nat)
      BY <1>2, <1>3
    <3> QED BY <3>1, ConcatProperties
  <2> QED BY <1>2, <2>1
<1>5. \A j \in 1 .. N + M : t[j] = IF j <= N THEN s[j] ELSE m + (j - N) - 1
  BY <1>1, <1>2, <1>3, <1>4
<1> HIDE DEF t, N, M
<1>6. \A j \in 1 .. N : s[j] \in S /\ s[j] < m
  BY <1>3 DEF Took, N
<1>7. Ascends(t)
  <2> SUFFICES ASSUME NEW i1 \in 1 .. N + M, NEW j \in 1 .. N + M, i1 < j
               PROVE  t[i1] < t[j]
    BY <1>4 DEF Ascends
  <2>1. CASE j <= N
    BY <1>1, <1>3, <1>5, <2>1 DEF Took, Ascends, N
  <2>2. CASE ~(j <= N)
    BY <1>1, <1>3, <1>5, <1>6, <2>2
  <2> QED BY <2>1, <2>2
<1>8. ASSUME NEW x \in Nat
      PROVE  (\E j \in 1 .. N + M : t[j] = x) <=> x \in S /\ x < k
  <2>1. ASSUME NEW j \in 1 .. N + M
        PROVE  t[j] \in S /\ t[j] < n + 1
    <3>1. CASE j <= N
      BY <1>1, <1>3, <1>5, <1>6, <3>1
    <3>2. CASE ~(j <= N)
      <4>1. t[j] \in m .. n
        BY <1>1, <1>3, <1>5, <3>2 DEF M
      <4> QED BY <1>1, <4>1 DEF Span
    <3> QED BY <3>1, <3>2
  <2>2. ASSUME x \in S, x < m
        PROVE  \E j \in 1 .. N + M : t[j] = x
    <3>1. PICK j \in 1 .. N : s[j] = x
      BY <2>2 DEF Took, N
    <3> QED BY <1>1, <1>3, <1>5, <3>1
  <2>3. ASSUME x \in S, ~(x < m), x < n + 1
        PROVE  \E j \in 1 .. N + M : t[j] = x
    <3>1. /\ N + (x - m) + 1 \in 1 .. N + M /\ ~(N + (x - m) + 1 <= N)
          /\ m + ((N + (x - m) + 1) - N) - 1 = x
      BY <1>1, <1>3, <2>3 DEF M
    <3> QED BY <1>5, <3>1
  <2>4. x \in S => (x < k <=> x < n + 1)
    OBVIOUS
  <2> QED BY <2>1, <2>2, <2>3, <2>4
<1>9. t \in Seq(Nat) /\ Len(t) = N + M
  BY <1>4
<1>10. Took(S, k, t)
  BY <1>7, <1>8, <1>9 DEF Took
<1> QED BY <1>10 DEF t, new

LEMMA TookOne ==
  ASSUME NEW S \in SUBSET Nat, NEW m \in S, NEW s, NEW k \in Nat,
         Took(S, m, s), \A x \in S : x < k <=> x < m + 1
  PROVE  Took(S, k, Append(s, m))
<1>1. s \in Seq(Nat) /\ m \in Nat
  BY DEF Took
<1>2. Append(s, m) = s \o <<m>>
  BY <1>1, AppendIsConcat
<1>3. <<m>> = [j \in 1 .. m - m + 1 |-> m + j - 1]
  BY <1>1
<1>4. Span(S, m, m)
  BY <1>1 DEF Span
<1> QED BY <1>2, <1>3, <1>4, TookSpan

\* There is one sequence of the members of a set in their order.
LEMMA InOrder ==
  ASSUME NEW S \in SUBSET (0 .. Largest), NEW s, Took(S, Largest + 1, s)
  PROVE  s = Ascending(S)
<1> DEFINE N == Len(s)
           upTo(n) == {m \in S : m <= n}
<1>1. s \in Seq(Nat) /\ N \in Nat /\ s = [k \in 1 .. N |-> s[k]]
  BY LenProperties DEF Took
<1>2. Largest \in Nat
  BY DEF Largest
<1>3. \A x \in Nat : (\E k \in 1 .. N : s[k] = x) <=> x \in S
  BY <1>2 DEF Took
<1>4. \A k \in 1 .. N : s[k] \in S /\ s[k] \in Nat
  BY <1>1, <1>3, ElementOfSeq
<1>5. \A x \in S : \E k \in 1 .. N : s[k] = x
  BY <1>2, <1>3
<1>6. \A j, k \in 1 .. N : s[j] <= s[k] <=> j <= k
  BY <1>1, <1>4 DEF Took, Ascends
<1>7. ASSUME NEW K \in 0 .. N, NEW T, T = {s[k] : k \in 1 .. K}
      PROVE  Cardinality(T) = K
  <2> DEFINE f == [k \in 1 .. K |-> s[k]]
  <2>1. \A j, k \in 1 .. K : s[j] = s[k] => j = k
    BY <1>4, <1>6
  <2>2. f \in Bijection(1 .. K, T)
    BY <1>7, <2>1 DEF Bijection, Injection, Surjection, IsInjective
  <2>3. ExistsBijection(1 .. K, T)
    BY <2>2 DEF ExistsBijection
  <2>4. IsFiniteSet(1 .. K) /\ Cardinality(1 .. K) = K
    <3>1. Cardinality(1 .. K) = IF 1 > K THEN 0 ELSE K - 1 + 1
      BY FS_Interval
    <3>2. IsFiniteSet(1 .. K)
      BY FS_Interval
    <3> QED BY <3>1, <3>2
  <2> QED BY <2>3, <2>4, FS_Bijection
<1>8. ASSUME NEW k \in 1 .. N
      PROVE  Cardinality(upTo(s[k])) = k
  <2>1. \A j \in 1 .. k : j \in 1 .. N /\ s[j] \in S /\ s[j] <= s[k]
    BY <1>1, <1>4, <1>6
  <2>2. \A m \in S : m <= s[k] => \E j \in 1 .. k : s[j] = m
    BY <1>1, <1>5, <1>6
  <2>3. upTo(s[k]) = {s[j] : j \in 1 .. k}
    BY <2>1, <2>2
  <2> HIDE DEF upTo
  <2> QED BY <1>7, <2>3
<1>9. Cardinality(S) = N
  <2>1. S = {s[k] : k \in 1 .. N}
    BY <1>4, <1>5
  <2> QED BY <1>1, <1>7, <2>1
<1>10. ASSUME NEW k \in 1 .. N
       PROVE  s[k] = CHOOSE n \in S : Cardinality(upTo(n)) = k
  <2>1. \A n \in S : Cardinality(upTo(n)) = k => n = s[k]
    BY <1>5, <1>8
  <2>2. s[k] \in S /\ Cardinality(upTo(s[k])) = k
    BY <1>4, <1>8
  <2> HIDE DEF upTo
  <2> QED BY <2>1, <2>2
<1> QED BY <1>1, <1>9, <1>10 DEF Ascending

\* What is still to be read.
Rest == SubSeq(text, pos + 1, Len(text))

LEMMA RestRead ==
  ASSUME Inside, NEW c \in Characters, NEW r \in Words, Rest = <<c>> \o r
  PROVE  /\ pos < Len(text) /\ car = c
         /\ SubSeq(text, (pos + 1) + 1, Len(text)) = r
<1>1. pos \in Nat /\ pos <= Len(text) /\ Len(text) \in Nat /\ text \in Seq(Characters)
  BY LenProperties DEF Inside
<1>2. <<c>> \in Seq(Characters) /\ Len(<<c>>) = 1 /\ <<c>>[1] = c /\ r \in Seq(Characters)
  BY DEF Words
<1>3. Len(Rest) = 1 + Len(r) /\ Rest[1] = c /\ Len(r) \in Nat
  <2>1. /\ Len(<<c>> \o r) = Len(<<c>>) + Len(r)
        /\ \A k \in 1 .. Len(<<c>>) + Len(r) :
             (<<c>> \o r)[k] = IF k <= Len(<<c>>) THEN <<c>>[k] ELSE r[k - Len(<<c>>)]
    BY <1>2, ConcatProperties
  <2>2. Len(r) \in Nat
    BY <1>2, LenProperties
  <2> QED BY <1>2, <2>1, <2>2
<1>4. pos < Len(text)
  <2>1. ASSUME ~(pos < Len(text))
        PROVE  Rest = <<>>
    BY <1>1, <2>1, SubSeqEmpty DEF Rest
  <2> QED BY <1>3, <2>1, EmptySeq
<1>5. /\ Rest = <<text[pos + 1]>> \o SubSeq(text, (pos + 1) + 1, Len(text))
  BY <1>1, <1>4, SubSeqRecursiveFirst DEF Rest
<1> DEFINE q == SubSeq(text, (pos + 1) + 1, Len(text))
<1>6. q \in Seq(Characters)
  <2>1. \A k \in (pos + 1) + 1 .. Len(text) : text[k] \in Characters
    BY <1>1, ElementOfSeq
  <2> QED BY <1>1, <2>1, SubSeqProperties
<1>7. text[pos + 1] \in Characters
  BY <1>1, <1>4, ElementOfSeq
<1> HIDE DEF q
<1>8. text[pos + 1] = c
  <2> DEFINE d == text[pos + 1]
  <2>1. Rest = <<d>> \o q
    BY <1>5 DEF q
  <2>2. <<d>> \in Seq(Characters) /\ Len(<<d>>) = 1 /\ <<d>>[1] = d /\ Len(q) \in Nat
    BY <1>6, <1>7, LenProperties
  <2> HIDE DEF d
  <2>3. (<<d>> \o q)[1] = d
    BY <1>6, <2>2, ConcatProperties
  <2> QED BY <1>3, <2>1, <2>3 DEF d
<1>9. <<c>> \o q = <<c>> \o r
  BY <1>5, <1>8 DEF q
<1>10. q = r
  BY <1>2, <1>6, <1>9, ConcatSimplifications
<1> QED BY <1>4, <1>8, <1>10 DEF q, car

LEMMA RestEnd ==
  ASSUME Inside
  PROVE  /\ Rest = <<>> <=> pos = Len(text)
         /\ \A c \in Characters, r \in Words : Rest = <<c>> \o r => pos < Len(text)
<1>1. pos \in Nat /\ pos <= Len(text) /\ Len(text) \in Nat /\ text \in Seq(Characters)
  BY LenProperties DEF Inside
<1>2. pos = Len(text) => Rest = <<>>
  BY <1>1, SubSeqEmpty DEF Rest
<1>3. pos < Len(text) => Rest # <<>>
  <2>1. \A k \in pos + 1 .. Len(text) : text[k] \in Characters
    BY <1>1, ElementOfSeq
  <2>2. pos < Len(text) => Len(Rest) = Len(text) - (pos + 1) + 1
    BY <1>1, <2>1, SubSeqProperties DEF Rest
  <2> QED BY <1>1, <2>2, EmptySeq
<1> QED BY <1>1, <1>2, <1>3, RestRead

\* value is n, or n but for its last digit, and the rest goes on behind n.
AtNumber(n, behind) ==
  \/ value = n /\ Rest = behind
  \/ n >= 10 /\ value = n \div 10 /\ Rest = <<n % 10>> \o behind

\* What the parser has read, and what is left, of the list of S.
AtRange(S) ==
  \/ Took(S, Largest + 1, member) /\ Rest = <<>>
  \/ \E m \in S : Starts(S, m) /\ Took(S, m, member) /\ Rest = TextFrom(S)[m]

InNumber(S) == \E m \in S : Took(S, m, member) /\ AtNumber(m, After(S, m))

LastRange(S, m, n) == Span(S, m, n) /\ n + 1 \notin S /\ min = m

AtLast(S) ==
  \E m, n \in S : /\ LastRange(S, m, n) /\ Took(S, m, member)
                  /\ Rest = Decimal(n) \o After(S, n)

InLast(S) ==
  \E m, n \in S : /\ LastRange(S, m, n) /\ Took(S, m, member)
                  /\ AtNumber(n, After(S, n))

Follows(S) ==
  /\ result = "reading" =>
       /\ state = "BEGIN_NUMBER" => AtRange(S)
       /\ state = "NUMBER" => InNumber(S)
       /\ state = "BEGIN_INTERVAL" => AtLast(S)
       /\ state = "INTERVAL" => InLast(S)
  /\ result = "read" => Took(S, Largest + 1, member)
  /\ result # "aborted"

\* Of a number that is begun the first digit leads into it.
LEMMA Begun ==
  ASSUME Inside, NEW n \in 0 .. Largest, NEW r \in Words,
         Rest = Decimal(n) \o r, NEW here, Turn(here)
  PROVE  /\ car \in Digits
         /\ value' = car => AtNumber(n, r)'
<1>1. Rest' = SubSeq(text, (pos + 1) + 1, Len(text))
  BY DEF Turn, Rest
<1>2. Digits \subseteq Characters
  BY DEF Characters
<1>3. CASE n < 10
  <2>1. n \in Digits /\ Rest = <<n>> \o r
    BY <1>3, DecimalRead
  <2>2. car = n /\ Rest' = r
    BY <1>1, <1>2, <2>1, RestRead
  <2> QED BY <2>1, <2>2 DEF AtNumber
<1>4. CASE ~(n < 10)
  <2>1. n >= 10
    BY <1>4 DEF Largest
  <2>2. /\ n \div 10 \in Digits /\ n % 10 \in Digits
        /\ Rest = <<n \div 10>> \o (<<n % 10>> \o r)
    BY <2>1, DecimalRead
  <2>3. <<n % 10>> \o r \in Words
    BY <1>2, <2>2, WordFacts
  <2>4. car = n \div 10 /\ Rest' = <<n % 10>> \o r
    BY <1>1, <1>2, <2>2, <2>3, RestRead
  <2> QED BY <2>1, <2>2, <2>4 DEF AtNumber
<1> QED BY <1>3, <1>4

\* In a number the next character is its last digit, or it is read.
LEMMA Going ==
  ASSUME Inside, NEW n \in 0 .. Largest, NEW r \in Words,
         AtNumber(n, r), NEW here, Turn(here)
  PROVE  \/ value = n /\ Rest = r
         \/ /\ car \in Digits
            /\ value' = value * 10 + car => AtNumber(n, r)'
<1>1. Rest' = SubSeq(text, (pos + 1) + 1, Len(text))
  BY DEF Turn, Rest
<1>2. Digits \subseteq Characters
  BY DEF Characters
<1>3. ASSUME n >= 10, value = n \div 10, Rest = <<n % 10>> \o r
      PROVE  car \in Digits /\ (value' = value * 10 + car => AtNumber(n, r)')
  <2>1. n % 10 \in Digits /\ (n \div 10) * 10 + (n % 10) = n
    BY <1>3, DecimalRead
  <2>2. car = n % 10 /\ Rest' = r
    BY <1>1, <1>2, <1>3, <2>1, RestRead
  <2> QED BY <1>3, <2>1, <2>2 DEF AtNumber
<1> QED BY <1>3 DEF AtNumber

\* Behind the last number of a range the range is taken and the next one begins.
LEMMA Ended ==
  ASSUME NEW S \in SUBSET (0 .. Largest), Inside, NEW here, Turn(here),
         NEW m \in S, NEW n \in S, Span(S, m, n), n + 1 \notin S,
         Took(S, m, member), Rest = After(S, n)
  PROVE  /\ car \in Separators
         /\ member' = member \o [j \in 1 .. n - m + 1 |-> m + j - 1] => AtRange(S)'
<1>1. PICK c \in Separators :
        /\ After(S, n) = <<c>> \o TextFrom(S)[n + 1]
        /\ \/ /\ \A x \in S : x < n + 1
              /\ TextFrom(S)[n + 1] = <<>>
           \/ \E k \in S : /\ Starts(S, k)
                           /\ \A x \in S : x < k <=> x < n + 1
                           /\ TextFrom(S)[n + 1] = TextFrom(S)[k]
  BY BehindRange
<1>2. n + 1 \in 0 .. Largest + 1 /\ S \subseteq Nat /\ Largest + 1 \in Nat
      /\ \A x \in S : x < Largest + 1
  BY DEF Largest
<1>3. TextFrom(S)[n + 1] \in Words /\ c \in Characters
  BY <1>1, <1>2, TextEquation DEF Characters, Separators
<1>4. car = c /\ Rest' = TextFrom(S)[n + 1]
  BY <1>1, <1>3, RestRead DEF Turn, Rest
<1>5. ASSUME member' = member \o [j \in 1 .. n - m + 1 |-> m + j - 1]
      PROVE  AtRange(S)'
  <2>1. CASE (\A x \in S : x < n + 1) /\ TextFrom(S)[n + 1] = <<>>
    <3>1. \A x \in S : x < Largest + 1 <=> x < n + 1
      BY <1>2, <2>1
    <3>2. Took(S, Largest + 1, member')
      BY <1>2, <1>5, <3>1, TookSpan
    <3> QED BY <1>4, <2>1, <3>2 DEF AtRange
  <2>2. ASSUME NEW k \in S, Starts(S, k), \A x \in S : x < k <=> x < n + 1,
               TextFrom(S)[n + 1] = TextFrom(S)[k]
        PROVE  AtRange(S)'
    <3>1. Took(S, k, member')
      BY <1>2, <1>5, <2>2, TookSpan
    <3> QED BY <1>4, <2>2, <3>1 DEF AtRange
  <2> QED BY <1>1, <2>1, <2>2
<1> QED BY <1>1, <1>4, <1>5

LEMMA FollowsInit ==
  ASSUME NEW S \in Sets, Init, text = Listing[S]
  PROVE  Follows(S)
<1>1. S \in SUBSET (0 .. Largest) /\ S # {} /\ 0 \in 0 .. Largest + 1 /\ 0 - 1 \notin S
  BY SetsAssumption DEF Largest
<1>2. Rest = TextFrom(S)[0]
  <2>1. TextFrom(S)[0] \in Seq(Characters)
    BY <1>1, TextEquation DEF Words
  <2>2. text = TextFrom(S)[0] /\ pos = 0
    BY DEF Listing, Init
  <2> QED BY <2>1, <2>2, SubSeqFull DEF Rest
<1>3. \A x \in S : x \in Nat /\ ~(x < 0)
  BY <1>1
<1>4. PICK m \in S : /\ Starts(S, m) /\ TextFrom(S)[0] = TextFrom(S)[m]
                     /\ \A x \in S : x < m <=> x < 0
  BY <1>1, <1>3, NextStart
<1>5. Took(S, m, <<>>)
  BY <1>3, <1>4 DEF Took, Ascends
<1> QED BY <1>2, <1>4, <1>5 DEF Init, Follows, AtRange

LEMMA FollowsStep ==
  ASSUME NEW S \in Sets, Inside, Numbers, Follows(S), [Next]_vars
  PROVE  Follows(S)'
<1>1. S \in SUBSET (0 .. Largest) /\ S \subseteq Nat /\ Largest \in Nat
  BY SetsAssumption DEF Largest
<1>2. \A n \in S : n \in 0 .. Largest /\ n \in Nat /\ After(S, n) \in Words
  BY <1>1, AfterType
<1>3. Digits \cap Separators = {} /\ Dash \notin Digits \cup Separators /\ Dash \in Characters
      /\ Other \notin Digits \cup Separators /\ Dash # Other
  BY Kinds
<1>4. CASE BeginNumber
  <2>1. Turn("BEGIN_NUMBER") /\ AtRange(S) /\ pos < Len(text) /\ result = "reading"
    BY <1>4 DEF BeginNumber, Turn, Follows
  <2>2. Rest # <<>>
    BY <2>1, RestEnd DEF Inside
  <2>3. PICK m \in S : Starts(S, m) /\ Took(S, m, member) /\ Rest = TextFrom(S)[m]
    BY <2>1, <2>2 DEF AtRange
  <2>4. Rest = Decimal(m) \o After(S, m)
    BY <1>2, <2>3, TextAtStart
  <2>5. car \in Digits /\ (value' = car => AtNumber(m, After(S, m))')
    BY <1>2, <2>1, <2>4, Begun
  <2>6. FirstDigit("NUMBER")
    BY <1>4, <2>5 DEF BeginNumber
  <2>7. InNumber(S)'
    BY <2>3, <2>5, <2>6 DEF FirstDigit, InNumber
  <2> QED BY <2>1, <2>6, <2>7 DEF FirstDigit, Follows
<1>5. CASE Number
  <2>1. Turn("NUMBER") /\ InNumber(S) /\ result = "reading"
    BY <1>5 DEF Number, Turn, Follows
  <2>2. PICK m \in S : Took(S, m, member) /\ AtNumber(m, After(S, m))
    BY <2>1 DEF InNumber
  <2>3. CASE car \in Digits /\ (value' = value * 10 + car => AtNumber(m, After(S, m))')
    <3>1. NextDigit
      BY <1>3, <1>5, <2>3 DEF Number
    <3>2. InNumber(S)'
      BY <2>2, <2>3, <3>1 DEF NextDigit, InNumber
    <3> QED BY <2>1, <3>1, <3>2 DEF NextDigit, Follows, Turn
  <2>4. CASE value = m /\ Rest = After(S, m)
    <3>1. CASE m + 1 \in S
      <4>1. PICK n \in S : /\ m < n /\ n + 1 \notin S
                           /\ \A x \in m .. n : x \in S
                           /\ After(S, m) = <<Dash>> \o (Decimal(n) \o After(S, n))
        BY <1>1, <3>1, WithinRange
      <4>2. Decimal(n) \o After(S, n) \in Words
        BY <1>2, DecimalType, WordFacts
      <4>3. car = Dash /\ Rest' = Decimal(n) \o After(S, n)
        BY <1>3, <2>1, <2>4, <4>1, <4>2, RestRead DEF Turn, Rest
      <4>4. min' = m /\ state' = "BEGIN_INTERVAL" /\ UNCHANGED <<value, member, held, result>>
        BY <1>3, <1>5, <2>4, <4>3 DEF Number, NextDigit
      <4>5. LastRange(S, m, n)'
        BY <1>2, <4>1, <4>4 DEF LastRange, Span
      <4>6. AtLast(S)'
        BY <2>2, <4>3, <4>4, <4>5 DEF AtLast
      <4> QED BY <2>1, <4>4, <4>6 DEF Follows
    <3>2. CASE m + 1 \notin S
      <4>1. Span(S, m, m)
        BY <1>2 DEF Span
      <4>2. /\ car \in Separators
            /\ member' = member \o [j \in 1 .. m - m + 1 |-> m + j - 1] => AtRange(S)'
        BY <1>1, <2>1, <2>2, <2>4, <3>2, <4>1, Ended
      <4>3. member' = Append(member, m) /\ state' = "BEGIN_NUMBER" /\ result' = result
        BY <1>3, <1>5, <2>4, <4>2 DEF Number, NextDigit
      <4>4. Append(member, m) = member \o [j \in 1 .. m - m + 1 |-> m + j - 1]
        <5>1. Append(member, m) = member \o <<m>>
          BY <1>2, AppendIsConcat DEF Numbers
        <5>2. <<m>> = [j \in 1 .. m - m + 1 |-> m + j - 1]
          BY <1>2
        <5> QED BY <5>1, <5>2
      <4> QED BY <2>1, <4>2, <4>3, <4>4 DEF Follows
    <3> QED BY <3>1, <3>2
  <2> QED BY <1>2, <2>1, <2>2, <2>3, <2>4, Going
<1>6. CASE BeginInterval
  <2>1. Turn("BEGIN_INTERVAL") /\ AtLast(S) /\ result = "reading"
    BY <1>6 DEF BeginInterval, Turn, Follows
  <2>2. PICK m, n \in S : /\ LastRange(S, m, n) /\ Took(S, m, member)
                          /\ Rest = Decimal(n) \o After(S, n)
    BY <2>1 DEF AtLast
  <2>3. car \in Digits /\ (value' = car => AtNumber(n, After(S, n))')
    BY <1>2, <2>1, <2>2, Begun
  <2>4. FirstDigit("INTERVAL")
    BY <1>6, <2>3 DEF BeginInterval
  <2>5. InLast(S)'
    BY <2>2, <2>3, <2>4 DEF FirstDigit, InLast, LastRange
  <2> QED BY <2>1, <2>4, <2>5 DEF FirstDigit, Follows
<1>7. CASE Interval
  <2>1. Turn("INTERVAL") /\ InLast(S) /\ result = "reading"
    BY <1>7 DEF Interval, Turn, Follows
  <2>2. PICK m, n \in S : /\ LastRange(S, m, n) /\ Took(S, m, member)
                          /\ AtNumber(n, After(S, n))
    BY <2>1 DEF InLast
  <2>3. CASE car \in Digits /\ (value' = value * 10 + car => AtNumber(n, After(S, n))')
    <3>1. NextDigit
      BY <1>3, <1>7, <2>3 DEF Interval
    <3>2. InLast(S)'
      BY <2>2, <2>3, <3>1 DEF NextDigit, InLast, LastRange
    <3> QED BY <2>1, <3>1, <3>2 DEF NextDigit, Follows, Turn
  <2>4. CASE value = n /\ Rest = After(S, n)
    <3>1. /\ car \in Separators
          /\ member' = member \o [j \in 1 .. n - m + 1 |-> m + j - 1] => AtRange(S)'
      BY <1>1, <2>1, <2>2, <2>4, Ended DEF LastRange
    <3>2. AddInterval(n)
      BY <1>3, <1>7, <2>4, <3>1 DEF Interval, NextDigit
    <3>3. min = m /\ m <= n /\ m \in Nat /\ n \in Nat /\ Len(member) \in Nat
      BY <1>2, <2>2, LenProperties DEF LastRange, Span, Numbers
    <3>4. ~(Len(member) + n - min + 1 < 0 \/ (Len(member) + n - min + 1 = 0 /\ held))
      BY <3>3
    <3>5. member' = member \o [k \in 1 .. n - m + 1 |-> m + k - 1]
          /\ state' = "BEGIN_NUMBER" /\ result' = result
      BY <3>2, <3>3, <3>4 DEF AddInterval
    <3> QED BY <2>1, <3>1, <3>5 DEF Follows
  <2> QED BY <1>2, <2>1, <2>2, <2>3, <2>4, Going
<1>8. CASE EndOfFile
  <2>1. result = "reading" /\ result' = "read" /\ UNCHANGED member /\ Rest = <<>>
    BY <1>8, RestEnd DEF EndOfFile
  <2>2. \A n \in 0 .. Largest, r \in Words : Decimal(n) \o r # <<>>
    <3> TAKE n \in 0 .. Largest, r \in Words
    <3>1. Decimal(n) \in Seq(Characters) /\ r \in Seq(Characters) /\ Len(Decimal(n)) > 0
      BY DecimalType DEF Words, Decimal
    <3> QED BY <3>1, ConcatEqualIffEmpty
  <2>3. \A c \in Characters, r \in Words : <<c>> \o r # <<>>
    BY <2>1, <1>8, RestEnd DEF EndOfFile, Inside
  <2>4. \A n \in S : After(S, n) # <<>>
    <3> TAKE n \in S
    <3>1. CASE n + 1 \in S
      <4>1. PICK l \in S : After(S, n) = <<Dash>> \o (Decimal(l) \o After(S, l))
        BY <1>1, <3>1, WithinRange
      <4> QED BY <1>2, <1>3, <2>3, <4>1, DecimalType, WordFacts
    <3>2. CASE n + 1 \notin S
      <4>1. PICK c \in Separators : After(S, n) = <<c>> \o TextFrom(S)[n + 1]
        BY <1>1, <3>2, BehindRange
      <4>2. TextFrom(S)[n + 1] \in Words /\ c \in Characters
        <5>1. n + 1 \in 0 .. Largest + 1
          BY <1>1, <1>2
        <5> QED BY <5>1, TextEquation DEF Characters, Separators
      <4> QED BY <2>3, <4>1, <4>2
    <3> QED BY <3>1, <3>2
  <2>5. \A n \in S : ~AtNumber(n, After(S, n))
    <3> TAKE n \in S
    <3>1. n >= 10 => n % 10 \in Characters
      BY <1>2, <2>3, DecimalRead DEF Characters
    <3> QED BY <1>2, <2>1, <2>3, <2>4, <3>1 DEF AtNumber
  <2>6. state = "BEGIN_NUMBER"
    BY <1>2, <2>1, <2>2, <2>5 DEF Follows, InNumber, AtLast, InLast, Numbers
  <2>7. \A m \in S : Starts(S, m) => TextFrom(S)[m] # <<>>
    BY <1>2, <2>2, TextAtStart
  <2> QED BY <2>1, <2>6, <2>7 DEF Follows, AtRange
<1>9. CASE Stopped \/ UNCHANGED vars
  BY <1>9 DEF Stopped, vars, Follows, AtRange, InNumber, AtLast, InLast, LastRange, AtNumber, Rest
<1> QED
  BY <1>4, <1>5, <1>6, <1>7, <1>8, <1>9 DEF Next

\* What the kernel lists is read to its end and as what it means, in ascending
\* order (parse_simple_set, lines 47-173), for every set of numbers of at most
\* two digits.
THEOREM ReadsList == Spec => []ListRead
<1> DEFINE All == \A S \in Sets : text = Listing[S] => Follows(S)
<1>1. Init => All
  BY FollowsInit
<1>2. All /\ Inside /\ Numbers /\ [Next]_vars => All'
  <2>1. [Next]_vars => text' = text
    BY DEF Next, BeginNumber, Number, BeginInterval, Interval, Turn, EndOfFile, Stopped, vars
  <2> QED BY <2>1, FollowsStep
<1>3. All /\ Numbers => ListRead
  <2> SUFFICES ASSUME All, Numbers, result # "reading", NEW S \in Sets, text = Listing[S]
               PROVE  result = "read" /\ member = Ascending(S)
    BY DEF ListRead
  <2>1. result = "read" /\ Took(S, Largest + 1, member)
    BY DEF Follows, Numbers
  <2> QED BY <2>1, SetsAssumption, InOrder
<1> QED
  BY <1>1, <1>2, <1>3, InsideInit, InsideStep, NumbersInit, NumbersStep, PTL DEF Spec

-----------------------------------------------------------------------------
(* The numbers of any text.                                                  *)

LEMMA NumberEquation ==
  ASSUME Inside
  PROVE  /\ NumberAt[0] = 0
         /\ \A k \in 1 .. Len(text) :
              NumberAt[k] = IF text[k] \in Digits THEN 10 * NumberAt[k - 1] + text[k] ELSE 0
         /\ \A k \in 0 .. Len(text) : NumberAt[k] \in Nat
<1> DEFINE N == Len(text)
           next == [p \in Nat \X Nat |->
                      IF p[1] < N /\ text[p[1] + 1] \in Digits
                      THEN 10 * p[2] + text[p[1] + 1] ELSE 0]
<1>1. N \in Nat /\ Digits \subseteq Nat
  BY LenProperties DEF Inside, Digits
<1>2. next \in [Nat \X Nat -> Nat]
  <2>1. ASSUME NEW p \in Nat \X Nat
        PROVE  next[p] \in Nat
    <3>1. p[2] \in Nat
      OBVIOUS
    <3>2. \A d \in Digits : 10 * p[2] + d \in Nat
      BY <1>1, <3>1
    <3> QED BY <3>2
  <2> QED BY <2>1
<1>3. \A k \in 0 .. N - 1 : \A n \in Nat :
        next[<<k, n>>] = IF text[k + 1] \in Digits THEN 10 * n + text[k + 1] ELSE 0
  BY <1>1
<1> HIDE DEF next
<1>4. PICK f \in [0 .. N -> Nat] :
        f[0] = 0 /\ \A k \in 0 .. N - 1 : f[k + 1] = next[<<k, f[k]>>]
  <2>1. Runs(Nat, 0, next, N) # {}
    BY <1>1, <1>2, Recursion
  <2> QED BY <2>1 DEF Runs
<1>5. ASSUME NEW k \in 1 .. N
      PROVE  f[k] = IF text[k] \in Digits THEN 10 * f[k - 1] + text[k] ELSE 0
  <2>1. k - 1 \in 0 .. N - 1 /\ (k - 1) + 1 = k /\ f[k - 1] \in Nat
    BY <1>1, <1>4
  <2>2. f[(k - 1) + 1] = next[<<k - 1, f[k - 1]>>]
    BY <1>4, <2>1
  <2>3. next[<<k - 1, f[k - 1]>>]
          = IF text[(k - 1) + 1] \in Digits THEN 10 * f[k - 1] + text[(k - 1) + 1] ELSE 0
    BY <1>3, <2>1
  <2> QED BY <2>1, <2>2, <2>3
<1> DEFINE G(g) == [k \in 0 .. N |->
                      IF k = 0 \/ text[k] \notin Digits THEN 0 ELSE 10 * g[k - 1] + text[k]]
<1>6. f = G(f)
  <2>1. ASSUME NEW k \in 0 .. N
        PROVE  f[k] = IF k = 0 \/ text[k] \notin Digits THEN 0 ELSE 10 * f[k - 1] + text[k]
    <3>1. CASE k = 0
      BY <1>4, <3>1
    <3>2. CASE k # 0
      <4>1. k \in 1 .. N
        BY <1>1, <3>2
      <4> QED BY <1>5, <3>2, <4>1
    <3> QED BY <3>1, <3>2
  <2>2. f = [k \in 0 .. N |-> f[k]]
    BY <1>4
  <2> QED BY <2>1, <2>2
<1>7. NumberAt = CHOOSE g : g = G(g)
  BY DEF NumberAt
<1>8. NumberAt = G(NumberAt)
  <2> HIDE DEF G
  <2> QED BY <1>6, <1>7
<1>9. ASSUME NEW k \in 0 .. N
      PROVE  NumberAt[k] = IF k = 0 \/ text[k] \notin Digits THEN 0
                           ELSE 10 * NumberAt[k - 1] + text[k]
  <2> DEFINE g == NumberAt
  <2>1. g = G(g)
    BY <1>8
  <2> HIDE DEF g
  <2>2. g[k] = IF k = 0 \/ text[k] \notin Digits THEN 0 ELSE 10 * g[k - 1] + text[k]
    BY <2>1
  <2> QED BY <2>2 DEF g
<1>10. 0 \in 0 .. N /\ \A k \in 1 .. N : k \in 0 .. N /\ k # 0
  BY <1>1
<1> DEFINE D == {k \in Nat : k <= N => NumberAt[k] \in Nat}
<1>11. 0 \in D
  BY <1>9, <1>10
<1>12. ASSUME NEW k \in Nat, k \in D
       PROVE  k + 1 \in D
  <2>1. CASE k + 1 <= N
    <3>1. k + 1 \in 0 .. N /\ k + 1 # 0 /\ (k + 1) - 1 = k /\ NumberAt[k] \in Nat
      BY <1>1, <1>12, <2>1
    <3> DEFINE n == NumberAt[k]
               m == NumberAt[k + 1]
    <3>2. n \in Nat /\ m = IF text[k + 1] \notin Digits THEN 0 ELSE 10 * n + text[k + 1]
      BY <1>9, <3>1
    <3> HIDE DEF n, m
    <3>3. m \in Nat
      BY <1>1, <3>2
    <3> QED BY <3>3 DEF m
  <2> QED BY <2>1
<1>13. \A k \in 0 .. N : NumberAt[k] \in Nat
  <2> HIDE DEF D
  <2>1. Nat \subseteq D
    BY <1>11, <1>12, SetInduction
  <2> QED BY <1>1, <2>1 DEF D
<1> QED BY <1>9, <1>10, <1>13

LEMMA SameText ==
  ASSUME text' = text
  PROVE  /\ NumberAt' = NumberAt /\ Parts' = Parts
         /\ \A p : Low(p)' = Low(p) /\ High(p)' = High(p)
<1>1. NumberAt' = NumberAt
  BY DEF NumberAt
<1>2. Parts' = Parts
  BY DEF Parts
<1>3. \A p : Dashes(p)' = Dashes(p)
  BY DEF Dashes
<1> QED BY <1>1, <1>2, <1>3 DEF Low, High

\* Where the part begins that is being read.
Begins(a) ==
  /\ a = 1 \/ text[a - 1] \in Separators
  /\ \A k \in a .. pos : text[k] \notin Separators

Done == {p \in Parts : p[2] < pos}

\* The set is that of the parts that were read.
Gathered ==
  (\A p \in Done : Low(p) <= High(p)) =>
    \A x \in Nat : (\E k \in 1 .. Len(member) : member[k] = x)
                     <=> \E p \in Done : x \in Low(p) .. High(p)

\* A dash stands behind the lower end of the interval being read.
Dashed ==
  \E d \in 1 .. pos : /\ text[d] = Dash /\ min = NumberAt[d - 1]
                      /\ \A m \in d .. pos : text[m] \notin Separators

SoFar ==
  /\ result = "reading" =>
       /\ Gathered
       /\ \E a \in 1 .. pos + 1 : Begins(a)
       /\ state \in {"NUMBER", "INTERVAL"} => value = NumberAt[pos]
       /\ state \in {"BEGIN_INTERVAL", "INTERVAL"} => Dashed
  /\ result = "read" => NumbersRead

\* Within a part nothing more is done.
LEMMA Within ==
  ASSUME Inside, SoFar, NEW here, Turn(here), car \notin Separators, UNCHANGED member
  PROVE  Gathered' /\ \E a \in 1 .. pos' + 1 : Begins(a)'
<1>1. text' = text /\ pos' = pos + 1 /\ pos \in Nat /\ text[pos + 1] \notin Separators
      /\ result = "reading"
  BY DEF Inside, Turn, car
<1>2. Done' = Done
  <2>1. \A p \in Parts : p[2] \in Nat /\ (p[2] = pos => text[pos + 1] \in Separators)
    BY <1>1, LenProperties DEF Parts, Inside
  <2>2. \A p \in Parts : p[2] < pos + 1 <=> p[2] < pos
    BY <1>1, <2>1
  <2> QED BY <1>1, <2>2, SameText DEF Done
<1>3. Gathered'
  <2>1. Gathered
    BY <1>1 DEF SoFar
  <2> QED BY <1>1, <1>2, <2>1, SameText DEF Gathered
<1>4. PICK a \in 1 .. pos + 1 : Begins(a)
  BY <1>1 DEF SoFar
<1>5. a \in 1 .. pos' + 1 /\ Begins(a)'
  BY <1>1, <1>4 DEF Begins
<1> QED BY <1>3, <1>5

\* A digit goes on with the number it stands in.
LEMMA Digit ==
  ASSUME Inside, SoFar, NEW here, Turn(here), car \in Digits,
         UNCHANGED <<min, member>>
  PROVE  /\ NumberAt'[pos'] = 10 * NumberAt[pos] + car
         /\ Gathered' /\ \E a \in 1 .. pos' + 1 : Begins(a)'
         /\ Dashed => Dashed'
<1>1. text' = text /\ pos' = pos + 1 /\ pos \in Nat /\ text[pos + 1] = car
      /\ pos + 1 \in 1 .. Len(text) /\ (pos + 1) - 1 = pos
  BY LenProperties DEF Inside, Turn, car
<1>2. NumberAt'[pos'] = 10 * NumberAt[pos] + car
  BY <1>1, SameText, NumberEquation
<1>3. car \notin Separators
  BY Kinds
<1>4. Dashed => Dashed'
  BY <1>1, <1>3, SameText DEF Dashed
<1> QED BY <1>2, <1>3, <1>4, Within

\* A part ends: its ends are the number that was read, or the one before the
\* dash and the one behind it.
LEMMA PartEnds ==
  ASSUME Inside, Behind, SoFar, NEW here, Turn(here), car \in Separators,
         here \in {"NUMBER", "INTERVAL"}
  PROVE  \E p \in Parts :
           /\ Done' = Done \cup {p}
           /\ here = "NUMBER" => Low(p) = value /\ High(p) = value
           /\ here = "INTERVAL" => Low(p) = min /\ High(p) = value
<1>1. /\ text' = text /\ pos' = pos + 1 /\ pos \in Nat /\ text[pos + 1] \in Separators
      /\ pos < Len(text) /\ Len(text) \in Nat /\ result = "reading" /\ state = here
  BY LenProperties DEF Inside, Turn, car
<1>2. pos > 0 /\ text[pos] \in Digits /\ text[pos] \notin Separators /\ value = NumberAt[pos]
  BY <1>1, Kinds DEF Behind, SoFar
<1>3. PICK a \in 1 .. pos + 1 : Begins(a)
  BY <1>1 DEF SoFar
<1>4. a \in 1 .. pos
  BY <1>1, <1>2, <1>3 DEF Begins
<1> DEFINE p == <<a, pos>>
<1>5. p \in Parts
  BY <1>1, <1>2, <1>3, <1>4 DEF Parts, Begins
<1>6. \A q \in Parts : q[2] \in Nat /\ (q[2] = pos => q = p)
  <2> TAKE q \in Parts
  <2>1. /\ q = <<q[1], q[2]>> /\ q[1] \in 1 .. Len(text) /\ q[2] \in 1 .. Len(text)
        /\ q[1] <= q[2]
        /\ q[1] = 1 \/ text[q[1] - 1] \in Separators
        /\ \A k \in q[1] .. q[2] : text[k] \notin Separators
    BY DEF Parts
  <2>2. ASSUME q[2] = pos
        PROVE  q[1] = a
    <3>1. ~(q[1] < a)
      <4> SUFFICES ASSUME q[1] < a PROVE FALSE
        OBVIOUS
      <4>1. a - 1 \in q[1] .. q[2] /\ text[a - 1] \in Separators
        BY <1>3, <1>4, <2>1, <2>2 DEF Begins
      <4> QED BY <2>1, <4>1
    <3>2. ~(a < q[1])
      <4> SUFFICES ASSUME a < q[1] PROVE FALSE
        OBVIOUS
      <4>1. q[1] - 1 \in a .. pos /\ text[q[1] - 1] \in Separators
        BY <1>4, <2>1, <2>2
      <4> QED BY <1>3, <4>1 DEF Begins
    <3> QED BY <1>4, <2>1, <3>1, <3>2
  <2> QED BY <1>1, <2>1, <2>2
<1>7. Done' = Done \cup {p}
  <2>1. \A q \in Parts : q[2] < pos + 1 <=> q[2] < pos \/ q = p
    BY <1>1, <1>6
  <2> QED BY <1>1, <1>5, <2>1, SameText DEF Done
<1>8. High(p) = value
  BY <1>2 DEF High
<1>9. Low(p) = NumberAt[Min(Dashes(p) \cup {pos + 1}) - 1]
  BY DEF Low
<1>10. ASSUME here = "NUMBER"
       PROVE  Low(p) = value
  <2>1. Dashes(p) = {}
    BY <1>1, <1>3, <1>4, <1>10 DEF Dashes, Behind, NoDash, Begins
  <2>2. Min({pos + 1}) = pos + 1
    BY <1>1 DEF Min
  <2>3. Dashes(p) \cup {pos + 1} = {pos + 1} /\ (pos + 1) - 1 = pos
    BY <1>1, <2>1
  <2> QED BY <1>2, <1>9, <2>2, <2>3
<1>11. ASSUME here = "INTERVAL"
       PROVE  Low(p) = min
  <2>1. PICK d \in 1 .. pos : /\ text[d] = Dash /\ min = NumberAt[d - 1]
                              /\ \A m \in d .. pos : text[m] \notin Separators
    BY <1>1, <1>11 DEF SoFar, Dashed
  <2>2. d \in a .. pos
    <3> SUFFICES ASSUME d < a PROVE FALSE
      BY <1>4, <2>1
    <3>1. a - 1 \in d .. pos /\ text[a - 1] \in Separators
      BY <1>1, <1>3, <1>4 DEF Begins
    <3> QED BY <2>1, <3>1
  <2>3. \A k \in a .. pos : text[k] = Dash => k = d
    <3>1. ASSUME NEW j \in a .. pos, NEW k \in a .. pos, j < k, text[j] = Dash, text[k] = Dash
          PROVE  FALSE
      <4>1. Fits(k)
        BY <1>1, <1>4 DEF Behind
      <4>2. j \in 1 .. k - 1
        BY <1>4, <3>1
      <4>3. PICK m \in j .. k : text[m] \in Separators
        BY <3>1, <4>1, <4>2 DEF Fits
      <4> QED BY <1>1, <1>3, <1>4, <4>3 DEF Begins
    <3> QED BY <1>4, <2>1, <2>2, <3>1
  <2>4. Dashes(p) = {d}
    BY <2>1, <2>2, <2>3 DEF Dashes
  <2>5. Min({d, pos + 1}) = d
    <3>1. \A x \in {d, pos + 1} : (\A y \in {d, pos + 1} : x <= y) <=> x = d
      BY <1>1, <2>1
    <3> QED BY <3>1 DEF Min
  <2>6. Dashes(p) \cup {pos + 1} = {d, pos + 1}
    BY <2>4
  <2> QED BY <1>9, <2>1, <2>5, <2>6
<1> HIDE DEF p
<1> QED BY <1>5, <1>7, <1>8, <1>10, <1>11

\* What an interval adds to the set.
Row(low, high) == [k \in 1 .. high - low + 1 |-> low + k - 1]

Has(s, x) == \E k \in 1 .. Len(s) : s[k] = x

\* The set then has what it had, and the interval.
LEMMA Joined ==
  ASSUME NEW s \in Seq(Nat), NEW low \in Nat, NEW high \in Nat, low <= high,
         NEW t, t = s \o Row(low, high)
  PROVE  \A x \in Nat : Has(t, x) <=> Has(s, x) \/ x \in low .. high
<1> DEFINE new == Row(low, high)
           M == high - low + 1
           N == Len(s)
<1>1. new \in Seq(Nat) /\ Len(new) = M /\ M \in Nat /\ \A k \in 1 .. M : new[k] = low + k - 1
  BY DEF Row
<1>2. N \in Nat
  BY LenProperties
<1> HIDE DEF new
<1>3. Len(s \o new) = N + Len(new) /\ \A k \in 1 .. N + Len(new) :
                                         (s \o new)[k] = IF k <= N THEN s[k] ELSE new[k - N]
  BY <1>1, ConcatProperties
<1>4. Len(t) = N + M /\ \A k \in 1 .. N + M :
                           t[k] = IF k <= N THEN s[k] ELSE low + (k - N) - 1
  <2>1. Len(t) = N + Len(new) /\ \A k \in 1 .. N + Len(new) :
                                      t[k] = IF k <= N THEN s[k] ELSE new[k - N]
    BY <1>3 DEF new
  <2> HIDE DEF N
  <2> QED BY <1>1, <1>2, <2>1
<1> HIDE DEF N
<1>5. ASSUME NEW x \in Nat
      PROVE  (\E k \in 1 .. N + M : t[k] = x) <=> (\E k \in 1 .. N : s[k] = x) \/ x \in low .. high
  <2>1. ASSUME NEW k \in 1 .. N, s[k] = x
        PROVE  \E j \in 1 .. N + M : t[j] = x
    <3>1. k \in 1 .. N + M /\ k <= N
      BY <1>1, <1>2
    <3> QED BY <1>4, <2>1, <3>1
  <2>2. ASSUME x \in low .. high
        PROVE  \E k \in 1 .. N + M : t[k] = x
    <3>1. /\ N + (x - low) + 1 \in 1 .. N + M /\ ~(N + (x - low) + 1 <= N)
          /\ low + ((N + (x - low) + 1) - N) - 1 = x
      BY <1>1, <1>2, <2>2
    <3> QED BY <1>4, <3>1
  <2>3. ASSUME NEW k \in 1 .. N + M, t[k] = x
        PROVE  (\E j \in 1 .. N : s[j] = x) \/ x \in low .. high
    <3> DEFINE y == t[k]
    <3>1. y = x /\ y = IF k <= N THEN s[k] ELSE low + (k - N) - 1
      BY <1>4, <2>3
    <3> HIDE DEF y
    <3>2. CASE k <= N
      <4>1. k \in 1 .. N /\ s[k] = x
        BY <1>2, <3>1, <3>2
      <4> QED BY <4>1
    <3>3. CASE ~(k <= N)
      <4>1. x = low + (k - N) - 1 /\ k - N \in 1 .. M /\ k - N \in Nat
        BY <1>1, <1>2, <3>1, <3>3
      <4> QED BY <4>1
    <3> QED BY <3>2, <3>3
  <2> QED BY <2>1, <2>2, <2>3
<1> QED BY <1>4, <1>5 DEF N, Has

LEMMA GatheredStep ==
  ASSUME Inside, Gathered, text' = text, NEW p \in Parts, Done' = Done \cup {p},
         \/ ~(Low(p) <= High(p))
         \/ \A x \in Nat : (\E k \in 1 .. Len(member') : member'[k] = x)
              <=> (\E k \in 1 .. Len(member) : member[k] = x) \/ x \in Low(p) .. High(p)
  PROVE  Gathered'
<1> SUFFICES ASSUME \A q \in Done' : Low(q)' <= High(q)', NEW x \in Nat
             PROVE  (\E k \in 1 .. Len(member') : member'[k] = x)
                      <=> \E q \in Done' : x \in Low(q)' .. High(q)'
  BY DEF Gathered
<1>1. /\ \A q \in Done : Low(q) <= High(q)
      /\ Low(p) <= High(p)
  BY SameText
<1>2. (\E k \in 1 .. Len(member') : member'[k] = x)
        <=> (\E k \in 1 .. Len(member) : member[k] = x) \/ x \in Low(p) .. High(p)
  BY <1>1
<1>3. (\E k \in 1 .. Len(member) : member[k] = x)
        <=> \E q \in Done : x \in Low(q) .. High(q)
  BY <1>1 DEF Gathered
<1>4. (\E q \in Done' : x \in Low(q)' .. High(q)')
        <=> (\E q \in Done : x \in Low(q) .. High(q)) \/ x \in Low(p) .. High(p)
  BY SameText
<1> QED BY <1>2, <1>3, <1>4

LEMMA SoFarInit == Init /\ Inside => SoFar
<1> SUFFICES ASSUME Init, Inside PROVE SoFar
  OBVIOUS
<1>1. result = "reading" /\ state = "BEGIN_NUMBER" /\ pos = 0 /\ member = <<>>
  BY DEF Init
<1>2. Done = {}
  <2>1. \A p \in Parts : ~(p[2] < 0)
    BY DEF Parts
  <2> QED BY <1>1, <2>1 DEF Done
<1>3. Gathered
  <2>1. \A x \in Nat : ~(\E k \in 1 .. Len(member) : member[k] = x)
    BY <1>1
  <2> QED BY <1>2, <2>1 DEF Gathered
<1>4. 1 \in 1 .. pos + 1 /\ Begins(1)
  BY <1>1 DEF Begins
<1> QED BY <1>1, <1>3, <1>4 DEF SoFar

LEMMA SoFarStep ==
  ASSUME Inside, Numbers, Behind, SoFar, [Next]_vars
  PROVE  SoFar'
<1>1. Digits \cap Separators = {} /\ Dash \notin Digits \cup Separators
      /\ Other \notin Digits \cup Separators /\ Dash # Other
  BY Kinds
<1>2. ASSUME NEW here, Turn(here)
      PROVE  /\ result = "reading" /\ state = here /\ pos' = pos + 1 /\ pos \in Nat
             /\ text' = text /\ pos + 1 \in 1 .. Len(text) /\ text[pos + 1] = car
             /\ pos \in 0 .. Len(text) /\ NumberAt[pos] \in Nat
  BY <1>2, LenProperties, NumberEquation DEF Inside, Turn, car
<1>3. ASSUME ParsingError
      PROVE  SoFar'
  BY <1>3 DEF ParsingError, SoFar
<1>4. ASSUME NEW here, Turn(here), NextDigit, here \in {"NUMBER", "INTERVAL"}
      PROVE  SoFar'
  <2>1. value = NumberAt[pos] /\ (here = "INTERVAL" => Dashed) /\ state' = here
        /\ result' = "reading" /\ value' = value * 10 + car /\ UNCHANGED <<min, member>>
        /\ car \in Digits
    BY <1>2, <1>4 DEF SoFar, NextDigit
  <2>2. value' = NumberAt'[pos']
    <3>1. car \in Nat /\ value \in Nat
      BY <1>2, <1>4, <2>1 DEF Digits
    <3>2. NumberAt'[pos'] = 10 * value + car
      BY <1>4, <2>1, Digit
    <3> QED BY <2>1, <3>1, <3>2
  <2> QED BY <1>4, <2>1, <2>2, Digit DEF SoFar
<1>5. ASSUME NEW here, Turn(here), NEW next, FirstDigit(next),
             \/ here = "BEGIN_NUMBER" /\ next = "NUMBER"
             \/ here = "BEGIN_INTERVAL" /\ next = "INTERVAL"
      PROVE  SoFar'
  <2>1. (next = "INTERVAL" => Dashed) /\ state' = next /\ result' = "reading"
        /\ value' = car /\ UNCHANGED <<min, member>> /\ car \in Digits
    BY <1>2, <1>5 DEF SoFar, FirstDigit
  <2>2. NumberAt[pos] = 0
    <3>1. pos = 0 \/ (pos \in 1 .. Len(text) /\ text[pos] \notin Digits)
      BY <1>1, <1>2, <1>5 DEF Behind
    <3> QED BY <3>1, NumberEquation
  <2>3. value' = NumberAt'[pos']
    <3>1. NumberAt'[pos'] = 10 * 0 + car /\ car \in Nat
      BY <1>5, <2>1, <2>2, Digit DEF Digits
    <3> QED BY <2>1, <3>1
  <2> QED BY <1>5, <2>1, <2>3, Digit DEF SoFar
\* After a separator a part begins.
<1>6. ASSUME NEW here, Turn(here), car \in Separators, state' = "BEGIN_NUMBER",
             result' = "reading", Gathered'
      PROVE  SoFar'
  <2>1. pos' \in Nat /\ pos' = pos + 1 /\ text'[pos'] \in Separators
    BY <1>2, <1>6 DEF car
  <2>2. \E a \in 1 .. pos' + 1 : Begins(a)'
    <3>1. pos' + 1 \in 1 .. pos' + 1 /\ (pos' + 1) - 1 = pos'
          /\ \A m \in pos' + 1 .. pos' : text'[m] \notin Separators
      BY <2>1
    <3> QED BY <2>1, <3>1 DEF Begins
  <2> QED BY <1>6, <2>2 DEF SoFar
<1>7. CASE BeginNumber
  BY <1>3, <1>5, <1>7 DEF BeginNumber
<1>8. CASE Number
  <2>1. Turn("NUMBER") /\ value = NumberAt[pos] /\ value \in Nat /\ Gathered
    BY <1>2, <1>8 DEF Number, SoFar
  <2>2. CASE car \in Separators /\ member' = Append(member, value) /\ state' = "BEGIN_NUMBER"
             /\ UNCHANGED result
    <3>1. PICK p \in Parts : Done' = Done \cup {p} /\ Low(p) = value /\ High(p) = value
      BY <2>1, <2>2, PartEnds
    <3>2. member' = member \o Row(value, value)
      <4>1. member' = member \o <<value>>
        BY <2>1, <2>2, AppendIsConcat DEF Numbers
      <4>2. <<value>> = Row(value, value)
        BY <2>1 DEF Row
      <4> QED BY <4>1, <4>2
    <3>3. \A x \in Nat : (\E k \in 1 .. Len(member') : member'[k] = x)
            <=> (\E k \in 1 .. Len(member) : member[k] = x) \/ x \in value .. value
      <4> DEFINE t == member'
      <4>1. value <= value /\ member \in Seq(Nat) /\ t = member \o Row(value, value)
        BY <2>1, <3>2 DEF Numbers
      <4> HIDE DEF t
      <4>2. \A x \in Nat : Has(t, x) <=> Has(member, x) \/ x \in value .. value
        BY <2>1, <4>1, Joined
      <4> QED BY <4>2 DEF t, Has
    <3>4. Gathered'
      BY <1>2, <2>1, <3>1, <3>3, GatheredStep
    <3> QED BY <1>2, <1>6, <2>1, <2>2, <3>4
  <2>3. CASE car = Dash /\ min' = value /\ state' = "BEGIN_INTERVAL"
             /\ UNCHANGED <<value, member, held, result>>
    <3>1. Gathered' /\ \E a \in 1 .. pos' + 1 : Begins(a)'
      BY <1>1, <2>1, <2>3, Within
    <3>2. Dashed'
      <4>1. /\ pos + 1 \in 1 .. pos' /\ text'[pos + 1] = Dash
            /\ min' = NumberAt'[(pos + 1) - 1]
            /\ \A m \in pos + 1 .. pos' : text'[m] \notin Separators
        BY <1>1, <1>2, <2>1, <2>3, SameText
      <4> QED BY <4>1 DEF Dashed
    <3> QED BY <1>2, <2>1, <2>3, <3>1, <3>2 DEF SoFar
  <2> QED BY <1>3, <1>4, <1>8, <2>1, <2>2, <2>3 DEF Number
<1>9. CASE BeginInterval
  BY <1>3, <1>5, <1>9 DEF BeginInterval
<1>10. CASE Interval
  <2>1. /\ Turn("INTERVAL") /\ value = NumberAt[pos] /\ value \in Nat /\ Gathered
        /\ min \in Nat /\ member \in Seq(Nat)
    BY <1>2, <1>10 DEF Interval, SoFar, Numbers
  <2>2. CASE car \in Separators /\ AddInterval(value)
    <3>1. PICK p \in Parts : Done' = Done \cup {p} /\ Low(p) = min /\ High(p) = value
      BY <2>1, <2>2, PartEnds
    <3>2. CASE min <= value
      <4>1. Len(member) \in Nat
        BY <2>1, LenProperties
      <4>2. ~(Len(member) + value - min + 1 < 0 \/ (Len(member) + value - min + 1 = 0 /\ held))
        BY <2>1, <3>2, <4>1
      <4>3. /\ member' = member \o Row(min, value)
            /\ state' = "BEGIN_NUMBER" /\ UNCHANGED result
        BY <2>2, <3>2, <4>2 DEF AddInterval, Row
      <4>4. \A x \in Nat : (\E k \in 1 .. Len(member') : member'[k] = x)
              <=> (\E k \in 1 .. Len(member) : member[k] = x) \/ x \in min .. value
        <5> DEFINE t == member'
        <5>1. t = member \o Row(min, value)
          BY <4>3
        <5> HIDE DEF t
        <5>2. \A x \in Nat : Has(t, x) <=> Has(member, x) \/ x \in min .. value
          BY <2>1, <3>2, <5>1, Joined
        <5> QED BY <5>2 DEF t, Has
      <4>5. Gathered'
        BY <1>2, <2>1, <3>1, <4>4, GatheredStep
      <4> QED BY <1>2, <1>6, <2>1, <2>2, <4>3, <4>5
    <3>3. CASE ~(min <= value)
      <4>1. Gathered'
        BY <1>2, <2>1, <3>1, <3>3, GatheredStep
      <4>2. ParsingError \/ (state' = "BEGIN_NUMBER" /\ UNCHANGED result)
        BY <2>2 DEF AddInterval
      <4> QED BY <1>2, <1>3, <1>6, <2>1, <2>2, <4>1, <4>2
    <3> QED BY <3>2, <3>3
  <2> QED BY <1>3, <1>4, <1>10, <2>1, <2>2 DEF Interval
<1>11. CASE EndOfFile
  <2>1. /\ result = "reading" /\ result' = "read" /\ pos = Len(text)
        /\ UNCHANGED <<text, member>>
    BY <1>11 DEF EndOfFile
  <2>2. Done = Parts /\ \A p \in Parts : p[2] \in 0 .. Len(text)
    BY <2>1 DEF Done, Parts
  <2>3. Gathered
    BY <2>1 DEF SoFar
  <2>4. NumbersRead'
    <3> SUFFICES ASSUME \A p \in Parts : Low(p) <= High(p)
                 PROVE  Range(member) = UNION {Low(p) .. High(p) : p \in Parts}
      BY <2>1, SameText DEF NumbersRead
    <3>1. Range(member) \subseteq Nat /\ Range(member) = {member[k] : k \in 1 .. Len(member)}
      <4>1. DOMAIN member = 1 .. Len(member) /\ \A k \in 1 .. Len(member) : member[k] \in Nat
        BY LenProperties, ElementOfSeq DEF Numbers
      <4> QED BY <4>1 DEF Range
    <3>2. \A p \in Parts : Low(p) .. High(p) \subseteq Nat
      <4> SUFFICES ASSUME NEW p \in Parts PROVE Low(p) .. High(p) \subseteq Nat
        OBVIOUS
      <4> DEFINE S == Dashes(p) \cup {p[2] + 1}
      <4>1. S \subseteq 1 .. Len(text) /\ S # {} /\ S \subseteq Nat
        BY LenProperties DEF Inside, Parts, Dashes
      <4> HIDE DEF S
      <4>2. \E m \in S : \A n \in S : m <= n
        BY <4>1, LeastNumber
      <4>3. Min(S) \in S
        BY <4>2 DEF Min
      <4>4. Min(S) - 1 \in 0 .. Len(text)
        <5>1. \A n \in 1 .. Len(text) : n - 1 \in 0 .. Len(text)
          BY LenProperties DEF Inside
        <5> QED BY <4>1, <4>3, <5>1
      <4>5. Low(p) \in Nat
        BY <4>4, NumberEquation DEF Low, S
      <4> QED BY <4>5
    <3>3. \A x \in Nat : (\E k \in 1 .. Len(member) : member[k] = x)
                            <=> \E p \in Parts : x \in Low(p) .. High(p)
      BY <2>2, <2>3 DEF Gathered
    <3> QED BY <3>1, <3>2, <3>3
  <2> QED BY <2>1, <2>4 DEF SoFar
<1>12. CASE Stopped \/ UNCHANGED vars
  <2>1. UNCHANGED <<text, pos, state, value, min, member, result>>
    BY <1>12 DEF Stopped, vars
  <2>2. Done' = Done
    BY <2>1, SameText DEF Done
  <2>3. Gathered => Gathered'
    BY <2>1, <2>2, SameText DEF Gathered
  <2>4. Dashed => Dashed'
    BY <2>1, SameText DEF Dashed
  <2>5. \A a : Begins(a)' <=> Begins(a)
    BY <2>1 DEF Begins
  <2>6. NumbersRead => NumbersRead'
    BY <2>1, SameText DEF NumbersRead
  <2> QED BY <2>1, <2>3, <2>4, <2>5, <2>6, SameText DEF SoFar
<1> QED
  BY <1>7, <1>8, <1>9, <1>10, <1>11, <1>12 DEF Next

\* The numbers and ascending intervals that separators end are those of the
\* set, whatever else the text holds (lines 67-167).
THEOREM ReadsNumbers == Spec => []NumbersRead
<1>1. Init => Behind /\ FaultRefused
  BY DEF Init, Behind, FaultRefused
<1>2. SoFar /\ Numbers /\ Behind => NumbersRead
  BY DEF SoFar, NumbersRead
<1> QED
  BY <1>1, <1>2, InsideInit, InsideStep, NumbersInit, NumbersStep, BehindStep, SoFarInit,
     SoFarStep, PTL DEF Spec
=============================================================================
