--------------------------- MODULE DataInduction ---------------------------
(***************************************************************************)
(* Induction over the natural numbers, stated of sets and functions: what  *)
(* the proofs about functions that recur over a text need.                 *)
(***************************************************************************)
EXTENDS Integers, WellFoundedInduction, TLAPS

\* A set of natural numbers that is not empty has a least one.
LEMMA LeastNumber ==
  ASSUME NEW S, S \subseteq Nat, S # {}
  PROVE  \E m \in S : \A n \in S : m <= n
<1> DEFINE R == {p \in Nat \X Nat : p[1] < p[2]}
<1>1. IsWellFoundedOn(R, Nat)
  BY NatLessThanWellFounded DEF OpToRel
<1>2. \A m, n \in Nat : <<n, m>> \notin R => m <= n
  OBVIOUS
<1> HIDE DEF R
<1>3. \E m \in S : \A n \in S : <<n, m>> \notin R
  BY <1>1, WFMin
<1> QED BY <1>2, <1>3

\* What holds of 0, and of n + 1 if it holds of n, holds of every number.
LEMMA SetInduction ==
  ASSUME NEW S, 0 \in S, \A n \in Nat : n \in S => n + 1 \in S
  PROVE  Nat \subseteq S
<1> SUFFICES ASSUME Nat \ S # {} PROVE FALSE
  OBVIOUS
<1>1. PICK m \in Nat \ S : \A n \in Nat \ S : m <= n
  BY LeastNumber
<1>2. m - 1 \in Nat /\ ~(m <= m - 1)
  BY <1>1
<1> QED BY <1>1, <1>2

\* What holds of N, and of n if it holds of n + 1, holds of all up to N.
LEMMA DownwardInduction ==
  ASSUME NEW N \in Nat, NEW S, N \in S, \A n \in 0 .. N - 1 : n + 1 \in S => n \in S
  PROVE  0 .. N \subseteq S
<1> DEFINE T == {n \in Nat : n <= N => N - n \in S}
<1>1. 0 \in T
  OBVIOUS
<1>2. ASSUME NEW n \in Nat, n \in T
      PROVE  n + 1 \in T
  <2>1. CASE n + 1 <= N
    <3>1. N - (n + 1) \in 0 .. N - 1 /\ N - (n + 1) + 1 = N - n /\ n <= N
      BY <2>1
    <3> QED BY <1>2, <3>1
  <2> QED BY <2>1
<1> HIDE DEF T
<1>3. Nat \subseteq T
  BY <1>1, <1>2, SetInduction
<1>4. ASSUME NEW n \in 0 .. N
      PROVE  n \in S
  <2>1. N - n \in Nat /\ N - n <= N /\ N - (N - n) = n
    OBVIOUS
  <2>2. N - n \in T
    BY <1>3, <2>1
  <2> QED BY <2>1, <2>2 DEF T
<1> QED BY <1>4

\* The functions that begin with base and go on by next up to n.
Runs(V, base, next, n) ==
  {f \in [0 .. n -> V] :
     f[0] = base /\ \A k \in 0 .. n - 1 : f[k + 1] = next[<<k, f[k]>>]}

\* A function may be defined by what it is at 0 and how it goes on.
LEMMA Recursion ==
  ASSUME NEW V, NEW base \in V, NEW next \in [Nat \X V -> V], NEW N \in Nat
  PROVE  Runs(V, base, next, N) # {}
<1> DEFINE S == {n \in Nat : Runs(V, base, next, n) # {}}
<1>1. 0 \in S
  <2> DEFINE f == [k \in 0 .. 0 |-> base]
  <2>1. f \in Runs(V, base, next, 0)
    BY DEF Runs
  <2> QED BY <2>1
<1>2. ASSUME NEW n \in Nat, n \in S
      PROVE  n + 1 \in S
  <2>1. PICK f \in [0 .. n -> V] :
          f[0] = base /\ \A k \in 0 .. n - 1 : f[k + 1] = next[<<k, f[k]>>]
    BY <1>2 DEF Runs
  <2> DEFINE last == next[<<n, f[n]>>]
             g == [k \in 0 .. n + 1 |-> IF k = n + 1 THEN last ELSE f[k]]
  <2>2. n \in 0 .. n /\ f[n] \in V /\ last \in V
    BY <2>1
  <2> HIDE DEF last
  <2>3. g \in [0 .. n + 1 -> V]
    BY <2>2
  <2>4. /\ \A k \in 0 .. n : g[k] = f[k]
        /\ g[n + 1] = last /\ g[0] = base
    BY <2>1
  <2> HIDE DEF g
  <2>5. ASSUME NEW k \in 0 .. (n + 1) - 1
        PROVE  g[k + 1] = next[<<k, g[k]>>]
    <3>1. CASE k = n
      BY <2>2, <2>4, <3>1 DEF last
    <3>2. CASE k \in 0 .. n - 1
      BY <2>1, <2>4, <3>2
    <3> QED BY <3>1, <3>2
  <2>6. g \in Runs(V, base, next, n + 1)
    BY <2>3, <2>4, <2>5 DEF Runs
  <2> QED BY <2>6
<1> HIDE DEF S
<1>3. N \in S
  BY <1>1, <1>2, SetInduction
<1> QED BY <1>3 DEF S
=============================================================================
