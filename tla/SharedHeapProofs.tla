-------------------------- MODULE SharedHeapProofs --------------------------
(* Proofs of the properties of SharedHeap, for every number of cores, every  *)
(* size of the arenas and every program the cores may share.                 *)
EXTENDS SharedHeap, TLAPS

-----------------------------------------------------------------------------
(* Places in an arena.                                                       *)

\* Rounding up to a multiple never gets below the number.
LEMMA RoundedUp ==
  ASSUME NEW n \in Nat, NEW a \in Nat \ {0}
  PROVE  AlignUp(n, a) \in Nat /\ n <= AlignUp(n, a)
<1> DEFINE t == n + (a - 1)
<1>1. t \in Nat /\ t = a * (t \div a) + (t % a)
  OBVIOUS
<1>2. (t % a) \in 0 .. a - 1 /\ t \div a \in Nat
  OBVIOUS
<1>3. (t \div a) * a = a * (t \div a)
  BY <1>2
<1>4. (t \div a) * a \in Nat
  BY <1>2
<1> HIDE DEF t
<1>5. n <= (t \div a) * a
  BY <1>1, <1>2, <1>3, <1>4 DEF t
<1> QED
  BY <1>4, <1>5 DEF AlignUp, t

\* What an allocation gives and what it leaves of the queues.
LEMMA Allocation ==
  ASSUME NEW q \in [Arenas -> Nat], NEW op \in Operations
  PROVE  /\ op.arena \in Arenas /\ op.size \in Nat \ {0}
         /\ Address(q, op) \in Nat /\ q[op.arena] <= Address(q, op)
         /\ After(q, op) \in [Arenas -> Nat]
         /\ \A a \in Arenas : q[a] <= After(q, op)[a]
         /\ Allocates(op) => After(q, op)[op.arena] = Address(q, op) + op.size
<1>1. op.arena \in Arenas /\ op.size \in Nat \ {0} /\ op.align \in Nat \ {0}
  BY DEF Operations
<1>2. Address(q, op) \in Nat /\ q[op.arena] <= Address(q, op)
  BY <1>1, RoundedUp DEF Address
<1> QED
  BY <1>1, <1>2 DEF After

\* An allocation that fits stays within its arena.
LEMMA Fitting ==
  ASSUME NEW q \in [Arenas -> Nat], NEW op \in Operations, Fits(q, op),
         \A a \in Arenas : q[a] <= Size[a[2]]
  PROVE  \A a \in Arenas : After(q, op)[a] <= Size[a[2]]
  BY Allocation DEF Fits, After

-----------------------------------------------------------------------------
(* Type correctness and the layouts.                                         *)

TypeInv == TypeOK /\ InBarriers /\ Layouts

\* The call that a core makes is one of its program.
LEMMA CallType ==
  ASSUME TypeOK, NEW c \in Cores, step[c] < Len(prog)
  PROVE  /\ step[c] \in Nat /\ step[c] + 1 \in DOMAIN prog
         /\ step[c] + 1 \in 1 .. Len(prog) /\ Op(c) \in Operations
  BY DEF TypeOK, Op

\* Calls that are done count up and leave their address.
LEMMA FinishType ==
  ASSUME TypeOK, prog' = prog, NEW c \in Cores, step[c] < Len(prog),
         NEW addr \in Int, NEW q \in [Arenas -> Nat],
         \A a \in Arenas : q[a] <= Size[a[2]], Finishes(c, addr, q)
  PROVE  /\ step' \in [Cores -> 0 .. Len(prog)]
         /\ got' \in [Cores -> Seq(Int)] /\ \A d \in Cores : Len(got'[d]) = step'[d]
         /\ queue' \in [Cores -> [Arenas -> Nat]]
         /\ \A d \in Cores, a \in Arenas : queue'[d][a] <= Size[a[2]]
         /\ step'[c] = step[c] + 1 /\ got'[c][step[c] + 1] = addr
         /\ \A d \in Cores \ {c} : step'[d] = step[d]
         /\ \A d \in Cores : \A k \in 1 .. step[d] : got'[d][k] = got[d][k]
<1> USE DEF TypeOK, Finishes
<1>1. step[c] \in Nat /\ step[c] + 1 \in 0 .. Len(prog) /\ Len(got[c]) = step[c]
  BY CallType
<1>2. step' \in [Cores -> 0 .. Len(prog)] /\ step'[c] = step[c] + 1
  BY <1>1
<1>3. got'[c] = Append(got[c], addr) /\ \A d \in Cores \ {c} : got'[d] = got[d]
  OBVIOUS
<1>4. got' \in [Cores -> Seq(Int)] /\ \A d \in Cores : Len(got'[d]) = step'[d]
  BY <1>1, <1>2, <1>3
<1>5. /\ got'[c][step[c] + 1] = addr
      /\ \A d \in Cores : \A k \in 1 .. step[d] : got'[d][k] = got[d][k]
  BY <1>1, <1>3
<1> QED
  BY <1>1, <1>2, <1>4, <1>5

\* The layouts follow the program, whichever core comes first to a call.
LEMMA FinishLayouts ==
  ASSUME TypeOK, Layouts, prog' = prog, NEW c \in Cores, step[c] < Len(prog),
         NEW addr \in Int, Finishes(c, addr, After(queue[c], Op(c))),
         Allocates(Op(c)) => Fits(queue[c], Op(c)) /\ addr = Address(queue[c], Op(c))
  PROVE  Layouts'
<1> DEFINE n == step[c] + 1
           q == After(queue[c], Op(c))
<1>1. /\ step[c] \in Nat /\ n \in Nat /\ n \in 1 .. Len(prog) /\ step[c] = n - 1
      /\ Op(c) = prog[n] /\ Op(c) \in Operations
  BY CallType DEF Op
<1>2. queue[c] = layout[n - 1] /\ n - 1 \in DOMAIN layout /\ queue[c] \in [Arenas -> Nat]
  BY <1>1 DEF Layouts, TypeOK
<1>3. /\ q \in [Arenas -> Nat] /\ \A a \in Arenas : q[a] <= Size[a[2]]
      /\ \A a \in Arenas : layout[n - 1][a] <= q[a] /\ q = After(layout[n - 1], prog[n])
  <2>1. \A a \in Arenas : queue[c][a] <= Size[a[2]]
    BY DEF TypeOK
  <2>2. CASE Allocates(Op(c))
    BY <2>1, <2>2, <1>1, <1>2, Allocation, Fitting
  <2>3. CASE ~Allocates(Op(c))
    BY <2>1, <2>3, <1>1, <1>2, Allocation DEF After
  <2> QED
    BY <2>2, <2>3
<1>4. /\ step'[c] = n /\ got'[c][n] = addr
      /\ \A d \in Cores \ {c} : step'[d] = step[d]
      /\ \A d \in Cores : \A k \in 1 .. step[d] : got'[d][k] = got[d][k]
      /\ queue'[c] = q /\ \A d \in Cores \ {c} : queue'[d] = queue[d]
  BY <1>3, FinishType DEF Finishes, TypeOK
<1>5. /\ DOMAIN layout' = DOMAIN layout \cup {n}
      /\ \A k \in DOMAIN layout : layout'[k] = layout[k]
      /\ n \notin DOMAIN layout => layout'[n] = q
  BY <1>1 DEF Finishes
<1>6. layout'[n] = q
  <2>1. CASE n \in DOMAIN layout
    BY <2>1, <1>1, <1>3, <1>5 DEF Layouts
  <2> QED
    BY <2>1, <1>5
<1> HIDE DEF n, q
<1>7. ASSUME NEW k \in DOMAIN layout'
      PROVE  /\ k \in 0 .. Len(prog) /\ 0 .. k \subseteq DOMAIN layout'
             /\ layout'[k] \in [Arenas -> Nat]
             /\ \A a \in Arenas : layout'[k][a] <= Size[a[2]]
             /\ k > 0 => layout'[k] = After(layout'[k - 1], prog[k])
  <2>1. CASE k \in DOMAIN layout
    <3>1. 0 .. k \subseteq DOMAIN layout /\ k \in 0 .. Len(prog)
      BY <2>1 DEF Layouts
    <3>2. k > 0 => k - 1 \in DOMAIN layout /\ layout[k] = After(layout[k - 1], prog[k])
      BY <2>1, <3>1 DEF Layouts
    <3> QED
      BY <2>1, <3>1, <3>2, <1>5 DEF Layouts
  <2>2. CASE k = n
    <3>1. 0 .. n - 1 \subseteq DOMAIN layout
      BY <1>2 DEF Layouts
    <3>2. 0 .. n = (0 .. n - 1) \cup {n}
      BY <1>1
    <3> QED
      <4>1. k \in 0 .. Len(prog) /\ 0 .. k \subseteq DOMAIN layout'
        BY <2>2, <3>1, <3>2, <1>1, <1>5
      <4>2. layout'[k] = q /\ layout'[k - 1] = layout[n - 1]
        BY <2>2, <1>1, <1>2, <1>5, <1>6
      <4> QED
        BY <4>1, <4>2, <2>2, <1>3
  <2> QED
    BY <2>1, <2>2, <1>5
<1>8. ASSUME NEW j \in DOMAIN layout', NEW k \in DOMAIN layout', j <= k, NEW a \in Arenas
      PROVE  layout'[j][a] <= layout'[k][a]
  <2>1. CASE k \in DOMAIN layout
    <3>1. j \in 0 .. Len(prog) /\ k \in 0 .. Len(prog) /\ 0 .. k \subseteq DOMAIN layout
      BY <2>1, <1>7 DEF Layouts
    <3>2. j \in 0 .. k
      BY <3>1, <1>8
    <3> QED
      BY <2>1, <3>1, <3>2, <1>5, <1>8 DEF Layouts
  <2>2. CASE k \notin DOMAIN layout /\ j = n
    BY <2>2, <1>5, <1>6, <1>3
  <2>3. CASE k \notin DOMAIN layout /\ j # n
    <3>1. k = n /\ j \in DOMAIN layout /\ j <= n - 1
      <4>1. j \in 0 .. Len(prog) /\ k = n /\ j \in DOMAIN layout
        BY <2>3, <1>5, <1>7
      <4> QED
        BY <4>1, <1>1, <1>8, <2>3
    <3>2. layout[j][a] <= layout[n - 1][a]
      BY <3>1, <1>2 DEF Layouts
    <3>3. layout[j][a] \in Nat /\ layout[n - 1][a] \in Nat /\ q[a] \in Nat
      BY <3>1, <1>2, <1>3 DEF Layouts
    <3> QED
      BY <3>1, <3>2, <3>3, <1>3, <1>5, <1>6
  <2> QED
    BY <2>1, <2>2, <2>3
<1>9. ASSUME NEW d \in Cores
      PROVE  step'[d] \in DOMAIN layout' /\ queue'[d] = layout'[step'[d]]
  <2>1. step[d] \in DOMAIN layout /\ queue[d] = layout[step[d]]
    BY DEF Layouts
  <2> QED
    BY <2>1, <1>4, <1>5, <1>6
<1>10. ASSUME NEW d \in Cores, NEW k \in 1 .. step'[d], Allocates(prog[k])
       PROVE  got'[d][k] = Address(layout'[k - 1], prog[k])
  <2>1. CASE k \in 1 .. step[d]
    <3>1. got'[d][k] = Address(layout[k - 1], prog[k])
      BY <2>1, <1>10, <1>4 DEF Layouts, Made
    <3>2. step[d] \in DOMAIN layout /\ 0 .. step[d] \subseteq DOMAIN layout
      BY DEF Layouts
    <3>3. k - 1 \in 0 .. step[d]
      BY <2>1 DEF TypeOK
    <3> QED
      BY <3>1, <3>2, <3>3, <1>5
  <2>2. CASE k \notin 1 .. step[d]
    <3>1. d = c /\ k = n
      BY <2>2, <1>4, <1>1
    <3> QED
      BY <3>1, <1>10, <1>1, <1>2, <1>4, <1>5
  <2> QED
    BY <2>1, <2>2
<1> QED
  BY <1>7, <1>8, <1>9, <1>10 DEF Layouts, Made

LEMMA TypeInit ==
  ASSUME Init
  PROVE  TypeInv
<1> USE CoresAssumption, SizesAssumption DEF Init
<1>1. prog \in Seq(Operations) /\ Sound(prog) /\ Len(prog) \in Nat
  BY ProgramsAssumption
<1>2. \A a \in Arenas : a[2] \in {0, 1} /\ Size[a[2]] \in Nat
  BY DEF Arenas
<1>3. TypeOK
  <2>1. /\ step \in [Cores -> 0 .. Len(prog)] /\ pc \in [Cores -> {"run", "barrier", "lwait"}]
        /\ private \in [Cores -> 0 .. PrivateSize] /\ memory \in [Places -> Int]
    BY <1>1 DEF Garbage
  <2>2. /\ queue \in [Cores -> [Arenas -> Nat]]
        /\ \A c \in Cores, a \in Arenas : queue[c][a] <= Size[a[2]]
    BY <1>2
  <2>3. got \in [Cores -> Seq(Int)] /\ \A c \in Cores : Len(got[c]) = step[c]
    BY SMT
  <2>4. ready = {} /\ blocked = {} /\ dead \in BOOLEAN /\ written = {}
    OBVIOUS
  <2> QED
    BY <1>1, <2>1, <2>2, <2>3, <2>4 DEF TypeOK
<1>4. InBarriers
  BY DEF InBarriers
<1>5. Layouts
  <2>1. DOMAIN layout = {0} /\ layout[0] = [a \in Arenas |-> 0] /\ 0 .. 0 = {0}
    OBVIOUS
  <2>2. \A c \in Cores : step[c] = 0 /\ Made(c) = {} /\ queue[c] = layout[0]
    BY <2>1 DEF Made
  <2>3. \A a \in Arenas : layout[0][a] \in Nat /\ layout[0][a] <= Size[a[2]]
    BY <2>1, <1>2
  <2> QED
    BY <1>1, <2>1, <2>2, <2>3 DEF Layouts
<1> QED
  BY <1>3, <1>4, <1>5 DEF TypeInv

\* A call that neither waits nor changes queues.
LEMMA PassType ==
  ASSUME TypeInv, prog' = prog, NEW c \in Cores, step[c] < Len(prog),
         ~Allocates(Op(c)), Passes(c)
  PROVE  /\ step' \in [Cores -> 0 .. Len(prog)]
         /\ got' \in [Cores -> Seq(Int)] /\ \A d \in Cores : Len(got'[d]) = step'[d]
         /\ queue' \in [Cores -> [Arenas -> Nat]]
         /\ \A d \in Cores, a \in Arenas : queue'[d][a] <= Size[a[2]]
         /\ step'[c] = step[c] + 1 /\ \A d \in Cores \ {c} : step'[d] = step[d]
         /\ Layouts'
<1>1. /\ NoAddress \in Int /\ Finishes(c, NoAddress, queue[c])
      /\ queue[c] \in [Arenas -> Nat] /\ \A a \in Arenas : queue[c][a] <= Size[a[2]]
      /\ After(queue[c], Op(c)) = queue[c]
  BY DEF NoAddress, Passes, TypeInv, TypeOK, After
<1>2. Layouts'
  BY <1>1, FinishLayouts DEF TypeInv
<1> QED
  BY <1>1, <1>2, FinishType DEF TypeInv

\* Nothing changes for the layouts when no call ends.
LEMMA SameLayouts ==
  ASSUME Layouts, UNCHANGED <<prog, step, queue, got, layout>>
  PROVE  Layouts'
  BY DEF Layouts, Made

LEMMA TypeStep ==
  ASSUME TypeInv, [Next]_vars
  PROVE  TypeInv'
<1> USE DEF TypeInv
<1>1. ASSUME NEW c \in Cores, SharedAlloc(c)
      PROVE  TypeInv'
  <2> DEFINE op == Op(c)
             addr == Address(queue[c], op)
  <2>1. CASE Fits(queue[c], op)
    <3>1. /\ step[c] < Len(prog) /\ pc[c] = "run" /\ prog' = prog /\ UNCHANGED <<pc, blocked>>
          /\ Finishes(c, addr, After(queue[c], op)) /\ UNCHANGED <<private, dead, written>>
          /\ memory' = IF op.call = "calloc" THEN Fill(Block(op, addr), 0) ELSE memory
          /\ ready' = IF op.call = "lbarrier" /\ c = op.arena[1]
                      THEN ready \cup {<<op.arena, addr>>} ELSE ready
      BY <1>1, <2>1 DEF SharedAlloc, Calls
    <3>2. /\ op \in Operations /\ queue[c] \in [Arenas -> Nat] /\ addr \in Nat
          /\ After(queue[c], op) \in [Arenas -> Nat] /\ op.arena \in Arenas
          /\ \A a \in Arenas : After(queue[c], op)[a] <= Size[a[2]]
      <4>1. queue[c] \in [Arenas -> Nat] /\ \A a \in Arenas : queue[c][a] <= Size[a[2]]
        BY DEF TypeOK
      <4>2. op \in Operations
        BY <3>1, CallType
      <4> QED
        BY <4>1, <4>2, <2>1, Allocation, Fitting
    <3> HIDE DEF op, addr
    <3>3. memory' \in [Places -> Int] /\ ready' \subseteq Arenas \X Nat
      BY <3>1, <3>2 DEF TypeOK, Fill
    <3>4. /\ step' \in [Cores -> 0 .. Len(prog)]
          /\ got' \in [Cores -> Seq(Int)] /\ \A d \in Cores : Len(got'[d]) = step'[d]
          /\ queue' \in [Cores -> [Arenas -> Nat]]
          /\ \A d \in Cores, a \in Arenas : queue'[d][a] <= Size[a[2]]
          /\ \A d \in Cores \ {c} : step'[d] = step[d]
      BY <3>1, <3>2, FinishType
    <3>5. TypeOK'
      BY <3>1, <3>3, <3>4 DEF TypeOK
    <3>6. InBarriers'
      BY <3>1, <3>4 DEF InBarriers, Op, TypeOK
    <3>7. Layouts'
      BY <2>1, <3>1, <3>2, FinishLayouts DEF op, addr
    <3> QED
      BY <3>5, <3>6, <3>7
  <2>2. CASE ~Fits(queue[c], op)
    <3>1. dead' = TRUE /\ UNCHANGED <<prog, step, pc, queue, private, got, memory, ready,
                                      blocked, written, layout>>
      BY <1>1, <2>2 DEF SharedAlloc, Aborts
    <3> QED
      BY <3>1, SameLayouts DEF TypeOK, InBarriers, Op
  <2> QED
    BY <2>1, <2>2
<1>2. ASSUME NEW c \in Cores, PrivateAlloc(c)
      PROVE  TypeInv'
  <2>1. /\ UNCHANGED <<prog, step, pc, queue, got, memory, ready, blocked, written, layout>>
        /\ private' \in [Cores -> 0 .. PrivateSize] /\ dead' \in BOOLEAN
    <3>1. CASE private[c] < PrivateSize
      <4>1. /\ UNCHANGED <<prog, step, pc, queue, got, memory, ready, blocked, dead,
                           written, layout>>
            /\ private' = [private EXCEPT ![c] = @ + 1]
        BY <3>1, <1>2 DEF PrivateAlloc
      <4>2. private \in [Cores -> 0 .. PrivateSize] /\ private[c] + 1 \in 0 .. PrivateSize
        BY <3>1, SizesAssumption DEF TypeOK
      <4>3. private' \in [Cores -> 0 .. PrivateSize]
        BY <4>1, <4>2
      <4> QED
        BY <4>1, <4>3 DEF TypeOK
    <3>2. CASE ~(private[c] < PrivateSize)
      BY <3>2, <1>2 DEF PrivateAlloc, Aborts, TypeOK
    <3> QED
      BY <3>1, <3>2
  <2> QED
    BY <2>1, SameLayouts DEF TypeOK, InBarriers, Op
<1>3. ASSUME NEW c \in Cores, Write(c)
      PROVE  TypeInv'
  <2>1. /\ step[c] < Len(prog) /\ pc[c] = "run" /\ prog' = prog /\ Op(c).call = "write"
        /\ Passes(c) /\ UNCHANGED <<pc, private, ready, blocked, dead>> /\ ~Allocates(Op(c))
    BY <1>3 DEF Write, Calls, Allocates
  <2>2. Op(c).block \in DOMAIN prog /\ Op(c).block \in Int
    <3>1. step[c] + 1 \in DOMAIN prog /\ step[c] \in Nat /\ Len(prog) \in Nat
      BY <2>1, CallType DEF TypeOK
    <3>2. Op(c).block \in 1 .. step[c] + 1 - 1
      BY <2>1, <3>1 DEF TypeOK, Sound, Uses, Op
    <3> QED
      BY <2>1, <3>1, <3>2 DEF TypeOK
  <2>3. memory' \in [Places -> Int] /\ written' \subseteq DOMAIN prog
    BY <1>3, <2>2 DEF Write, TypeOK, Fill
  <2>4. /\ step' \in [Cores -> 0 .. Len(prog)]
        /\ got' \in [Cores -> Seq(Int)] /\ \A d \in Cores : Len(got'[d]) = step'[d]
        /\ queue' \in [Cores -> [Arenas -> Nat]]
        /\ \A d \in Cores, a \in Arenas : queue'[d][a] <= Size[a[2]]
        /\ \A d \in Cores \ {c} : step'[d] = step[d]
        /\ Layouts'
    BY <2>1, PassType
  <2>5. TypeOK'
    BY <2>1, <2>3, <2>4 DEF TypeOK
  <2>6. InBarriers'
    BY <2>1, <2>4 DEF InBarriers, Op, TypeOK
  <2> QED
    BY <2>4, <2>5, <2>6
<1>4. ASSUME NEW c \in Cores, Arrive(c)
      PROVE  TypeInv'
  <2>1. /\ step[c] < Len(prog) /\ Op(c).call \in {"barrier", "lwait"}
        /\ pc' = [pc EXCEPT ![c] = Op(c).call]
        /\ blocked' \subseteq blocked \cup {c}
        /\ UNCHANGED <<prog, step, queue, private, got, memory, ready, dead, written, layout>>
    BY <1>4 DEF Arrive, Calls
  <2>2. TypeOK'
    BY <2>1 DEF TypeOK
  <2>3. InBarriers'
    BY <2>1 DEF InBarriers, Op, TypeOK
  <2> QED
    BY <2>1, <2>2, <2>3, SameLayouts
<1>5. ASSUME NEW c \in Cores, Leave(c)
      PROVE  TypeInv'
  <2>1. /\ step[c] < Len(prog) /\ ~Allocates(Op(c)) /\ prog' = prog
        /\ pc' = [pc EXCEPT ![c] = "run"] /\ c \notin blocked
        /\ Passes(c) /\ UNCHANGED <<private, memory, ready, blocked, dead, written>>
    BY <1>5 DEF Leave, InBarriers, Allocates, TypeOK
  <2>2. /\ step' \in [Cores -> 0 .. Len(prog)]
        /\ got' \in [Cores -> Seq(Int)] /\ \A d \in Cores : Len(got'[d]) = step'[d]
        /\ queue' \in [Cores -> [Arenas -> Nat]]
        /\ \A d \in Cores, a \in Arenas : queue'[d][a] <= Size[a[2]]
        /\ \A d \in Cores \ {c} : step'[d] = step[d]
        /\ Layouts'
    BY <2>1, PassType
  <2>3. TypeOK'
    BY <2>1, <2>2 DEF TypeOK
  <2>4. InBarriers'
    BY <2>1, <2>2 DEF InBarriers, Op, TypeOK
  <2> QED
    BY <2>2, <2>3, <2>4
<1>6. ASSUME NEW c \in Cores, LocalDestroy(c)
      PROVE  TypeInv'
  <2>1. /\ step[c] < Len(prog) /\ pc[c] = "run" /\ prog' = prog /\ ~Allocates(Op(c))
        /\ Passes(c) /\ UNCHANGED <<pc, private, memory, blocked, dead, written>>
        /\ ready' \subseteq ready
    BY <1>6 DEF LocalDestroy, Calls, Allocates
  <2>2. /\ step' \in [Cores -> 0 .. Len(prog)]
        /\ got' \in [Cores -> Seq(Int)] /\ \A d \in Cores : Len(got'[d]) = step'[d]
        /\ queue' \in [Cores -> [Arenas -> Nat]]
        /\ \A d \in Cores, a \in Arenas : queue'[d][a] <= Size[a[2]]
        /\ \A d \in Cores \ {c} : step'[d] = step[d]
        /\ Layouts'
    BY <2>1, PassType
  <2>3. TypeOK'
    BY <2>1, <2>2 DEF TypeOK
  <2>4. InBarriers'
    BY <2>1, <2>2 DEF InBarriers, Op, TypeOK
  <2> QED
    BY <2>2, <2>3, <2>4
<1>7. CASE UNCHANGED vars
  BY <1>7, SameLayouts DEF vars, TypeOK, InBarriers, Op
<1> QED
  BY <1>1, <1>2, <1>3, <1>4, <1>5, <1>6, <1>7 DEF Next, Stopped

-----------------------------------------------------------------------------
(* Addresses.                                                                *)

\* What the layouts say of an allocation.
LEMMA Made1 ==
  ASSUME TypeInv, NEW c \in Cores, NEW k \in Made(c)
  PROVE  /\ k \in Nat \ {0} /\ k \in DOMAIN prog /\ k <= step[c] /\ step[c] <= Len(prog)
         /\ prog[k] \in Operations /\ Allocates(prog[k])
         /\ k - 1 \in DOMAIN layout /\ k \in DOMAIN layout
         /\ got[c][k] = Address(layout[k - 1], prog[k]) /\ got[c][k] \in Nat
         /\ layout[k - 1][prog[k].arena] <= got[c][k]
         /\ layout[k][prog[k].arena] = got[c][k] + prog[k].size
         /\ layout[k][prog[k].arena] <= Size[prog[k].arena[2]]
         /\ prog[k].arena \in Arenas /\ prog[k].size \in Nat \ {0}
<1> USE DEF TypeInv
<1>1. /\ k \in Nat \ {0} /\ k \in 1 .. Len(prog) /\ k \in 1 .. step[c] /\ Allocates(prog[k])
      /\ step[c] \in 0 .. Len(prog) /\ prog \in Seq(Operations)
  BY DEF Made, TypeOK
<1>2. prog[k] \in Operations
  BY <1>1
<1>3. step[c] \in DOMAIN layout /\ 0 .. step[c] \subseteq DOMAIN layout
  BY DEF Layouts
<1>4. k - 1 \in DOMAIN layout /\ k \in DOMAIN layout
  BY <1>1, <1>3
<1>5. /\ layout[k - 1] \in [Arenas -> Nat] /\ layout[k] = After(layout[k - 1], prog[k])
      /\ \A a \in Arenas : layout[k][a] <= Size[a[2]]
  BY <1>1, <1>4 DEF Layouts
<1>6. got[c][k] = Address(layout[k - 1], prog[k])
  BY DEF Layouts
<1>7. /\ prog[k].arena \in Arenas /\ prog[k].size \in Nat \ {0}
      /\ Address(layout[k - 1], prog[k]) \in Nat
      /\ layout[k - 1][prog[k].arena] <= Address(layout[k - 1], prog[k])
      /\ layout[k][prog[k].arena] = Address(layout[k - 1], prog[k]) + prog[k].size
  BY <1>1, <1>2, <1>5, Allocation
<1> QED
  BY <1>1, <1>2, <1>4, <1>5, <1>6, <1>7

LEMMA Same ==
  ASSUME TypeInv
  PROVE  SameAddresses
<1> SUFFICES ASSUME NEW c \in Cores, NEW d \in Cores, NEW k \in Made(c) \cap Made(d)
             PROVE  got[c][k] = got[d][k]
  BY DEF SameAddresses
<1> QED
  BY Made1

\* The later of two blocks begins where the earlier one has ended.
LEMMA Later ==
  ASSUME TypeInv, NEW c \in Cores, NEW d \in Cores, NEW j \in Made(c), NEW k \in Made(d),
         j < k
  PROVE  Block(prog[j], got[c][j]) \cap Block(prog[k], got[d][k]) = {}
<1>1. CASE prog[j].arena = prog[k].arena
  <2> DEFINE a == prog[k].arena
  <2>1. /\ a \in Arenas /\ j \in Nat /\ k \in Nat /\ j <= k - 1
        /\ j \in DOMAIN layout /\ k - 1 \in DOMAIN layout
        /\ layout[j][a] = got[c][j] + prog[j].size /\ layout[k - 1][a] <= got[d][k]
    BY <1>1, Made1
  <2>2. layout[j][a] <= layout[k - 1][a]
    BY <2>1 DEF TypeInv, Layouts
  <2>3. layout[j][a] \in Nat /\ layout[k - 1][a] \in Nat
    BY <2>1 DEF TypeInv, Layouts
  <2>4. /\ got[c][j] \in Nat /\ got[d][k] \in Nat
        /\ prog[j].size \in Nat /\ prog[k].size \in Nat
    BY Made1
  <2>5. got[c][j] + prog[j].size <= got[d][k]
    BY <2>1, <2>2, <2>3, <2>4
  <2>6. (got[c][j] .. got[c][j] + prog[j].size - 1)
           \cap (got[d][k] .. got[d][k] + prog[k].size - 1) = {}
    BY <2>4, <2>5
  <2> QED
    BY <2>6 DEF Block
<1>2. CASE prog[j].arena # prog[k].arena
  BY <1>2 DEF Block
<1> QED
  BY <1>1, <1>2

LEMMA Apart ==
  ASSUME TypeInv
  PROVE  BlocksApart
<1> SUFFICES ASSUME NEW c \in Cores, NEW d \in Cores,
                    NEW j \in Made(c), NEW k \in Made(d), j # k
             PROVE  Block(prog[j], got[c][j]) \cap Block(prog[k], got[d][k]) = {}
  BY DEF BlocksApart
<1>1. j \in Nat /\ k \in Nat
  BY Made1
<1>2. CASE j < k
  BY <1>2, Later
<1>3. CASE k < j
  <2>1. Block(prog[k], got[d][k]) \cap Block(prog[j], got[c][j]) = {}
    BY <1>3, Later
  <2> QED
    BY <2>1
<1> QED
  BY <1>1, <1>2, <1>3

\* A block that was made has its places in the arena.
LEMMA InPlace ==
  ASSUME TypeInv, NEW c \in Cores, NEW k \in Made(c)
  PROVE  Block(prog[k], got[c][k]) \subseteq Places
<1> DEFINE a == prog[k].arena
<1>1. /\ a \in Arenas /\ got[c][k] \in Nat /\ prog[k].size \in Nat \ {0}
      /\ got[c][k] + prog[k].size <= Size[a[2]] /\ Size[a[2]] \in Nat
  <2>1. a \in Arenas => Size[a[2]] \in Nat
    BY SizesAssumption DEF Arenas
  <2> QED
    BY <2>1, Made1
<1> HIDE DEF a
<1>2. got[c][k] .. got[c][k] + prog[k].size - 1 \subseteq 0 .. Size[a[2]] - 1
  BY <1>1
<1>3. Block(prog[k], got[c][k]) \subseteq {a} \X (0 .. Size[a[2]] - 1)
  BY <1>2 DEF Block, a
<1> QED
  BY <1>1, <1>3 DEF Places

-----------------------------------------------------------------------------
(* Barriers.                                                                 *)

\* Who calls a barrier while others are past it finds that it is past it.
LEMMA LockInit ==
  ASSUME Init
  PROVE  Lockstep
<1> SUFFICES ASSUME NEW m \in DOMAIN prog, NEW c \in Cores, Past(c, m)
             PROVE  FALSE
  BY DEF Lockstep
<1>1. m \in Nat \ {0}
  BY ProgramsAssumption DEF Init
<1> QED
  BY <1>1 DEF Init, Past

\* A call that does not wait takes its core past no barrier.
LEMMA LockPass ==
  ASSUME TypeInv, Lockstep, prog' = prog, NEW c \in Cores, step[c] < Len(prog),
         pc[c] = "run", Op(c).call \notin {"barrier", "lwait"},
         step' = [step EXCEPT ![c] = @ + 1], UNCHANGED <<pc, blocked>>
  PROVE  Lockstep'
<1>1. ASSUME NEW m \in DOMAIN prog, prog[m].call \in {"barrier", "lwait"}, NEW d \in Cores
      PROVE  Past(d, m)' <=> Past(d, m)
  <2>1. m \in Nat \ {0} /\ step \in [Cores -> Nat] /\ m # step[c] + 1
    BY <1>1 DEF TypeInv, TypeOK, Op
  <2>2. CASE d = c
    BY <2>1, <2>2 DEF Past
  <2>3. CASE d # c
    BY <2>1, <2>3 DEF Past
  <2> QED
    BY <2>2, <2>3
<1> QED
  BY <1>1 DEF Lockstep

\* The core that comes last finds all others held back by the same call.
LEMMA LastHere ==
  ASSUME TypeInv, Lockstep, NEW c \in Cores, Calls(c, {"barrier", "lwait"}), AllHere(c),
         NEW d \in Cores
  PROVE  step[d] = step[c]
<1>1. step \in [Cores -> Nat] /\ pc[c] = "run" /\ step[c] < Len(prog)
  BY DEF TypeInv, TypeOK, Calls
<1>2. CASE d # c
  <2>1. d \in blocked /\ pc[d] # "run" /\ step[d] < Len(prog)
    BY <1>2 DEF AllHere, TypeInv, InBarriers
  <2>2. prog[step[d] + 1].call \in {"barrier", "lwait"}
    BY <2>1 DEF TypeInv, TypeOK, InBarriers, Op
  <2>3. prog[step[c] + 1].call \in {"barrier", "lwait"}
    BY DEF Calls, Op
  <2>4. step[c] + 1 \in DOMAIN prog /\ step[d] + 1 \in DOMAIN prog
    BY <1>1, <2>1, CallType DEF TypeInv
  <2>5. ~(step[d] > step[c])
    <3>1. Past(d, step[c] + 1) => Past(c, step[c] + 1)
      BY <2>3, <2>4 DEF Lockstep
    <3> QED
      BY <3>1, <1>1 DEF Past
  <2>6. ~(step[c] > step[d])
    <3>1. Past(c, step[d] + 1) => Past(d, step[d] + 1)
      BY <2>2, <2>4 DEF Lockstep
    <3> QED
      BY <3>1, <1>1, <2>1 DEF Past
  <2> QED
    BY <2>5, <2>6, <1>1
<1> QED
  BY <1>2

LEMMA LockArrive ==
  ASSUME TypeInv, Lockstep, NEW c \in Cores, Arrive(c)
  PROVE  Lockstep'
<1>1. /\ Calls(c, {"barrier", "lwait"}) /\ pc[c] = "run" /\ UNCHANGED <<prog, step>>
      /\ pc' = [pc EXCEPT ![c] = Op(c).call] /\ pc \in [Cores -> {"run", "barrier", "lwait"}]
      /\ Op(c).call # "run" /\ step \in [Cores -> Nat]
  BY DEF Arrive, Calls, TypeInv, TypeOK
<1>2. CASE AllHere(c)
  <2>1. blocked' = {} /\ \A d \in Cores : pc'[d] # "run"
    BY <1>1, <1>2 DEF Arrive, AllHere, TypeInv, InBarriers
  <2>2. \A d \in Cores : step[d] = step[c]
    BY <1>1, <1>2, LastHere
  <2>3. ASSUME NEW m \in DOMAIN prog, NEW d \in Cores, NEW e \in Cores, Past(d, m)'
        PROVE  Past(e, m)'
    BY <2>1, <2>2, <2>3, <1>1 DEF Past
  <2> QED
    BY <2>3, <1>1 DEF Lockstep
<1>3. CASE ~AllHere(c)
  <2>1. blocked' = blocked \cup {c} /\ \A d \in Cores \ {c} : pc'[d] = pc[d]
    BY <1>1, <1>3 DEF Arrive
  <2>2. \A m \in DOMAIN prog, d \in Cores : Past(d, m)' <=> Past(d, m)
    BY <2>1, <1>1 DEF Past
  <2> QED
    BY <2>2, <1>1 DEF Lockstep
<1> QED
  BY <1>2, <1>3

LEMMA LockLeave ==
  ASSUME TypeInv, Lockstep, NEW c \in Cores, Leave(c)
  PROVE  Lockstep'
<1>1. /\ pc[c] # "run" /\ c \notin blocked /\ UNCHANGED <<prog, blocked>>
      /\ pc' = [pc EXCEPT ![c] = "run"] /\ step' = [step EXCEPT ![c] = @ + 1]
      /\ step \in [Cores -> Nat] /\ pc \in [Cores -> {"run", "barrier", "lwait"}]
  BY DEF Leave, Passes, Finishes, TypeInv, TypeOK
<1>2. ASSUME NEW m \in DOMAIN prog, NEW d \in Cores
      PROVE  Past(d, m)' <=> Past(d, m)
  <2>1. m \in Nat \ {0}
    BY DEF TypeInv, TypeOK
  <2>2. CASE d = c
    BY <2>1, <2>2, <1>1 DEF Past
  <2>3. CASE d # c
    BY <2>1, <2>3, <1>1 DEF Past
  <2> QED
    BY <2>2, <2>3
<1> QED
  BY <1>1, <1>2 DEF Lockstep

LEMMA LockStep ==
  ASSUME TypeInv, Lockstep, [Next]_vars
  PROVE  Lockstep'
<1>1. ASSUME NEW c \in Cores, SharedAlloc(c)
      PROVE  Lockstep'
  <2>1. CASE Fits(queue[c], Op(c))
    <3>1. /\ prog' = prog /\ step[c] < Len(prog) /\ pc[c] = "run" /\ UNCHANGED <<pc, blocked>>
          /\ Op(c).call \notin {"barrier", "lwait"}
          /\ step' = [step EXCEPT ![c] = @ + 1]
      BY <1>1, <2>1 DEF SharedAlloc, Calls, Finishes
    <3> QED
      BY <3>1, LockPass
  <2>2. CASE ~Fits(queue[c], Op(c))
    BY <1>1, <2>2 DEF SharedAlloc, Aborts, Lockstep, Past
  <2> QED
    BY <2>1, <2>2
<1>2. ASSUME NEW c \in Cores, PrivateAlloc(c)
      PROVE  Lockstep'
  <2>1. UNCHANGED <<prog, step, pc, blocked>>
    BY <1>2 DEF PrivateAlloc, Aborts
  <2> QED
    BY <2>1 DEF Lockstep, Past
<1>3. ASSUME NEW c \in Cores, Write(c) \/ LocalDestroy(c)
      PROVE  Lockstep'
  <2>1. /\ prog' = prog /\ step[c] < Len(prog) /\ pc[c] = "run" /\ UNCHANGED <<pc, blocked>>
        /\ Op(c).call \notin {"barrier", "lwait"}
        /\ step' = [step EXCEPT ![c] = @ + 1]
    BY <1>3 DEF Write, LocalDestroy, Calls, Passes, Finishes
  <2> QED
    BY <2>1, LockPass
<1>4. CASE UNCHANGED vars
  BY <1>4 DEF vars, Lockstep, Past
<1> QED
  BY <1>1, <1>2, <1>3, <1>4, LockArrive, LockLeave DEF Next, Stopped

-----------------------------------------------------------------------------
(* What one step leaves alone.                                               *)

LEMMA FinishMoves ==
  ASSUME TypeInv, NEW c \in Cores, NEW addr, NEW q, Finishes(c, addr, q)
  PROVE  \A d \in Cores : /\ step[d] <= step'[d]
                          /\ \A k \in 1 .. step[d] : got'[d][k] = got[d][k]
<1>1. step \in [Cores -> Nat] /\ step' = [step EXCEPT ![c] = @ + 1]
  BY DEF TypeInv, TypeOK, Finishes
<1>2. got' = [got EXCEPT ![c] = Append(@, addr)] /\ got \in [Cores -> Seq(Int)]
      /\ \A d \in Cores : Len(got[d]) = step[d]
  BY DEF TypeInv, TypeOK, Finishes
<1>3. ASSUME NEW d \in Cores, NEW k \in 1 .. step[d]
      PROVE  got'[d][k] = got[d][k]
  <2>1. CASE d = c
    <3>1. got[c] \in Seq(Int) /\ k \in 1 .. Len(got[c]) /\ got'[c] = Append(got[c], addr)
      BY <1>2, <2>1
    <3> QED
      BY <2>1, <3>1
  <2>2. CASE d # c
    BY <2>2, <1>2
  <2> QED
    BY <2>1, <2>2
<1> QED
  BY <1>1, <1>3

LEMMA Moves ==
  ASSUME TypeInv, [Next]_vars
  PROVE  /\ prog' = prog
         /\ \A d \in Cores : /\ step[d] <= step'[d]
                             /\ \A k \in 1 .. step[d] : got'[d][k] = got[d][k]
<1> DEFINE Kept == /\ prog' = prog
                   /\ \A d \in Cores : /\ step[d] <= step'[d]
                                       /\ \A k \in 1 .. step[d] : got'[d][k] = got[d][k]
<1>1. ASSUME UNCHANGED <<prog, step, got>>
      PROVE  Kept
  BY <1>1 DEF TypeInv, TypeOK
<1>2. ASSUME NEW c \in Cores, SharedAlloc(c) \/ PrivateAlloc(c) \/ Write(c)
                              \/ Arrive(c) \/ Leave(c) \/ LocalDestroy(c)
      PROVE  Kept
  <2>1. \/ UNCHANGED <<prog, step, got>>
        \/ prog' = prog /\ \E addr, q : Finishes(c, addr, q)
    BY <1>2 DEF SharedAlloc, PrivateAlloc, Write, Arrive, Leave, LocalDestroy, Aborts, Passes
  <2> QED
    BY <2>1, <1>1, FinishMoves
<1>3. CASE UNCHANGED vars
  BY <1>3, <1>1 DEF vars
<1> QED
  BY <1>2, <1>3 DEF Next, Stopped

-----------------------------------------------------------------------------
(* Local barriers are ready.                                                 *)

\* What a sound program says of a call that uses a block.
LEMMA UseSound ==
  ASSUME TypeInv, NEW n \in DOMAIN prog, Uses(prog[n])
  PROVE  LET b == prog[n].block
         IN  /\ n \in Nat /\ b \in Nat \ {0} /\ b < n /\ b \in DOMAIN prog
             /\ IF prog[n].call = "write" THEN prog[b].call \in {"alloc", "calloc"}
                                          ELSE prog[b].call = "lbarrier"
             /\ \E m \in DOMAIN prog : /\ m \in Nat /\ b < m /\ m < n
                                       /\ prog[m].call = "barrier"
             /\ \A j \in DOMAIN prog : j < n /\ prog[j].call = "ldestroy"
                                       => prog[j].block # b
<1>1. DOMAIN prog = 1 .. Len(prog) /\ Len(prog) \in Nat /\ Sound(prog)
  BY DEF TypeInv, TypeOK
<1>2. PICK b \in 1 .. n - 1 :
        /\ b = prog[n].block
        /\ IF prog[n].call = "write" THEN prog[b].call \in {"alloc", "calloc"}
                                     ELSE prog[b].call = "lbarrier"
        /\ \E m \in b + 1 .. n - 1 : prog[m].call = "barrier"
        /\ \A j \in 1 .. n - 1 : prog[j].call = "ldestroy" => prog[j].block # b
  BY <1>1 DEF Sound
<1> QED
  BY <1>1, <1>2

\* When a core uses a block, all cores have allocated it.
LEMMA UsedIsMade ==
  ASSUME TypeInv, Lockstep, NEW c \in Cores, step[c] < Len(prog), Uses(Op(c)),
         NEW d \in Cores
  PROVE  /\ Op(c).block \in Made(d) /\ Op(c).block \in Made(c)
         /\ Op(c).block <= step[d] /\ Op(c).block \in DOMAIN prog
<1>1. step \in [Cores -> Nat] /\ step[c] + 1 \in DOMAIN prog
  BY CallType DEF TypeInv, TypeOK
<1>2. PICK m \in DOMAIN prog : /\ m \in Nat /\ Op(c).block < m /\ m < step[c] + 1
                               /\ prog[m].call = "barrier"
  BY <1>1, UseSound DEF Op
<1>3. /\ Op(c).block \in Nat \ {0} /\ Op(c).block \in DOMAIN prog
      /\ Allocates(prog[Op(c).block])
  BY <1>1, UseSound DEF Op, Allocates
<1>4. Past(c, m) /\ Past(d, m)
  <2>1. Past(c, m)
    BY <1>1, <1>2 DEF Past
  <2> QED
    BY <2>1, <1>2 DEF Lockstep
<1>5. Op(c).block <= step[d] /\ Op(c).block <= step[c]
  BY <1>1, <1>2, <1>3, <1>4 DEF Past
<1> QED
  BY <1>1, <1>3, <1>5 DEF Made

LEMMA ReadyInit ==
  ASSUME Init
  PROVE  ReadyOnceMade
<1> SUFFICES ASSUME NEW b \in DOMAIN prog, step[prog[b].arena[1]] >= b,
                    prog[b] \in Operations
             PROVE  FALSE
  BY ProgramsAssumption DEF ReadyOnceMade, Init
<1>1. b \in Nat \ {0} /\ prog[b].arena[1] \in Cores
  BY ProgramsAssumption DEF Init, Operations, Arenas
<1> QED
  BY <1>1 DEF Init

\* The cores that a call names.
LEMMA CallCores ==
  ASSUME TypeInv, NEW k \in DOMAIN prog
  PROVE  k \in Nat \ {0} /\ prog[k].core \in Cores /\ prog[k].arena[1] \in Cores
<1>1. k \in Nat \ {0} /\ prog[k] \in Operations
  BY DEF TypeInv, TypeOK
<1> QED
  BY <1>1 DEF Operations, Arenas

\* Destroying one barrier leaves the others.
LEMMA OtherPlace ==
  ASSUME TypeInv, Lockstep, NEW c \in Cores, Calls(c, {"ldestroy"}),
         NEW o \in Cores, NEW b \in Made(o), b # Op(c).block
  PROVE  Place(c) # <<prog[b].arena, got[o][b]>>
<1> DEFINE e == Op(c).block
<1>1. e \in Made(c) /\ Place(c) = <<prog[e].arena, got[c][e]>>
  BY UsedIsMade DEF Calls, Uses, Place
<1> HIDE DEF e
<1>2. Block(prog[e], got[c][e]) \cap Block(prog[b], got[o][b]) = {}
  BY <1>1, Apart DEF BlocksApart, e
<1>3. /\ got[c][e] \in Nat /\ prog[e].size \in Nat \ {0}
      /\ got[o][b] \in Nat /\ prog[b].size \in Nat \ {0}
  BY <1>1, Made1
<1>4. /\ <<prog[e].arena, got[c][e]>> \in Block(prog[e], got[c][e])
      /\ <<prog[b].arena, got[o][b]>> \in Block(prog[b], got[o][b])
  BY <1>3 DEF Block
<1> QED
  BY <1>1, <1>2, <1>4

LEMMA ReadyStep ==
  ASSUME TypeInv, Lockstep, ReadyOnceMade, [Next]_vars
  PROVE  ReadyOnceMade'
<1> SUFFICES ASSUME NEW b \in DOMAIN prog, NEW o \in Cores, o = prog[b].arena[1],
                    prog[b].call = "lbarrier", step'[o] >= b,
                    \A j \in DOMAIN prog : prog[j].call = "ldestroy" /\ prog[j].block = b
                                           => step'[prog[j].core] < j
             PROVE  <<prog[b].arena, got'[o][b]>> \in ready'
  <2>1. prog' = prog /\ \A b \in DOMAIN prog : prog[b].arena[1] \in Cores
    BY Moves, CallCores
  <2> QED
    BY <2>1 DEF ReadyOnceMade
<1>1. /\ prog' = prog /\ b \in Nat \ {0} /\ step \in [Cores -> Nat] /\ DOMAIN prog \subseteq Nat
      /\ \A d \in Cores : step[d] <= step'[d]
      /\ \A j \in DOMAIN prog : prog[j].core \in Cores
      /\ \A k \in 1 .. step[o] : got'[o][k] = got[o][k]
  BY Moves, CallCores DEF TypeInv, TypeOK
<1>2. step' \in [Cores -> Nat]
  BY TypeStep DEF TypeInv, TypeOK
<1>3. CASE step[o] >= b
  <2>1. b \in Made(o) /\ got'[o][b] = got[o][b]
    BY <1>1, <1>3 DEF Made, Allocates
  <2>2. <<prog[b].arena, got[o][b]>> \in ready
    <3>1. \A j \in DOMAIN prog : prog[j].call = "ldestroy" /\ prog[j].block = b
                                 => step[prog[j].core] < j
      BY <1>1, <1>2
    <3> QED
      BY <3>1, <1>3 DEF ReadyOnceMade
  <2>3. ASSUME NEW c \in Cores, LocalDestroy(c)
        PROVE  <<prog[b].arena, got[o][b]>> \in ready'
    <3>1. CASE c = Op(c).core
      <4>1. /\ Calls(c, {"ldestroy"}) /\ step'[c] = step[c] + 1
            /\ ready' = ready \ {Place(c)} /\ step[c] < Len(prog)
        BY <2>3, <3>1 DEF LocalDestroy, Calls, Passes, Finishes, TypeInv, TypeOK
      <4>2. step[c] + 1 \in DOMAIN prog /\ prog[step[c] + 1].call = "ldestroy"
        BY <4>1, CallType DEF TypeInv, Calls, Op
      <4>3. Op(c).block # b
        BY <4>1, <4>2, <3>1 DEF Op
      <4> QED
        BY <2>1, <2>2, <4>1, <4>3, OtherPlace
    <3> QED
      BY <3>1, <2>2, <2>3 DEF LocalDestroy
  <2>4. ready \subseteq ready' \/ \E c \in Cores : LocalDestroy(c)
    BY DEF Next, SharedAlloc, PrivateAlloc, Write, Arrive, Leave, Aborts, Stopped, vars
  <2> QED
    BY <2>1, <2>2, <2>3, <2>4
<1>4. CASE ~(step[o] >= b)
  <2>1. step'[o] # step[o]
    BY <1>1, <1>2, <1>4
  <2>2. PICK c \in Cores : SharedAlloc(c) \/ Write(c) \/ Leave(c) \/ LocalDestroy(c)
    BY <2>1 DEF Next, PrivateAlloc, Arrive, Aborts, Stopped, vars
  <2>3. PICK addr, q : Finishes(c, addr, q) /\ step[c] < Len(prog)
                       /\ (SharedAlloc(c) => addr = Address(queue[c], Op(c)))
                       /\ (pc[c] # "run" \/ Op(c).call \in {"write", "ldestroy"}
                           \/ SharedAlloc(c))
    BY <2>1, <2>2 DEF SharedAlloc, Write, Leave, LocalDestroy, Passes, Calls, Aborts,
                      TypeInv, InBarriers
  <2>4. c = o /\ b = step[o] + 1 /\ Op(o) = prog[b]
    BY <2>1, <2>3, <1>1, <1>2, <1>4 DEF Finishes, Op
  <2>5. SharedAlloc(o)
    BY <2>3, <2>4 DEF TypeInv, TypeOK, InBarriers
  <2>6. got'[o][b] = Address(queue[o], Op(o))
    <3>1. got[o] \in Seq(Int) /\ Len(got[o]) = step[o] /\ got'[o] = Append(got[o], addr)
      BY <2>3, <2>4 DEF Finishes, TypeInv, TypeOK
    <3>2. got'[o][step[o] + 1] = addr
      BY <3>1, <1>1
    <3> QED
      BY <3>2, <2>3, <2>4, <2>5
  <2>7. ready' = ready \cup {<<prog[b].arena, Address(queue[o], Op(o))>>}
    BY <2>1, <2>4, <2>5 DEF SharedAlloc, Aborts
  <2> QED
    BY <2>6, <2>7
<1> QED
  BY <1>3, <1>4

\* The owner has made the barrier, and who destroys it is not ahead of those
\* who wait.
LEMMA ReadyHere ==
  ASSUME TypeInv, Lockstep, ReadyOnceMade
  PROVE  BarrierReady
<1> SUFFICES ASSUME NEW c \in Cores, step[c] < Len(prog), Op(c).call = "lwait",
                    pc[c] = "run" \/ c \in blocked
             PROVE  Place(c) \in ready
  BY DEF BarrierReady
<1> DEFINE n == step[c] + 1
           b == Op(c).block
           o == prog[b].arena[1]
<1>1. /\ step \in [Cores -> Nat] /\ n \in DOMAIN prog /\ n \in Nat /\ Op(c) = prog[n]
      /\ prog[n].call = "lwait" /\ Uses(prog[n])
  BY CallType DEF TypeInv, TypeOK, Op, Uses
<1>2. /\ prog[b].call = "lbarrier" /\ b \in DOMAIN prog
      /\ \A j \in DOMAIN prog : j < n /\ prog[j].call = "ldestroy" => prog[j].block # b
  BY <1>1, UseSound
<1>3. o \in Cores
  BY <1>2, CallCores
<1> HIDE DEF n, b, o
<1>4. b \in Made(c) /\ b \in Made(o) /\ b <= step[o]
  BY <1>1, <1>3, UsedIsMade DEF b
<1>5. ASSUME NEW j \in DOMAIN prog, prog[j].call = "ldestroy", prog[j].block = b
      PROVE  step[prog[j].core] < j
  <2> DEFINE e == prog[j].core
  <2>1. e \in Cores /\ j \in Nat /\ j > n
    <3>1. e \in Cores /\ j \in Nat
      BY CallCores
    <3>2. j # n /\ ~(j < n)
      BY <1>1, <1>2, <1>5
    <3> QED
      BY <1>1, <3>1, <3>2
  <2>2. ~Past(c, n)
    BY <1>1 DEF Past, n
  <2>3. ~Past(e, n)
    BY <1>1, <2>1, <2>2 DEF Lockstep
  <2> QED
    BY <1>1, <2>1, <2>3 DEF Past
<1>6. <<prog[b].arena, got[o][b]>> \in ready
  BY <1>2, <1>4, <1>5 DEF ReadyOnceMade, o, Made, TypeInv, TypeOK
<1>7. got[c][b] = got[o][b]
  BY <1>3, <1>4, Same DEF SameAddresses
<1> QED
  BY <1>1, <1>6, <1>7 DEF Place, b

-----------------------------------------------------------------------------
(* Data stays.                                                               *)

LEMMA HeldStep ==
  ASSUME TypeInv, Lockstep, HeldByAll, [Next]_vars
  PROVE  HeldByAll'
<1>1. /\ prog' = prog /\ step \in [Cores -> Nat] /\ step' \in [Cores -> Nat]
      /\ \A d \in Cores : step[d] <= step'[d]
      /\ written \subseteq DOMAIN prog /\ DOMAIN prog \subseteq Nat
  BY Moves, TypeStep DEF TypeInv, TypeOK
<1>2. ASSUME written' = written
      PROVE  HeldByAll'
  BY <1>1, <1>2 DEF HeldByAll
<1>3. ASSUME NEW c \in Cores, Write(c), c = Op(c).core
      PROVE  HeldByAll'
  <2> DEFINE b == Op(c).block
  <2>1. /\ written' = written \cup {b} /\ step[c] < Len(prog) /\ Op(c).call = "write"
        /\ Uses(Op(c)) /\ Op(c) = prog[step[c] + 1]
    BY <1>3 DEF Write, Calls, Uses, Op
  <2>2. step[c] + 1 \in DOMAIN prog
    BY <2>1, CallType DEF TypeInv
  <2>3. prog[b].call \in {"alloc", "calloc"} /\ b \in Nat
    BY <2>1, <2>2, UseSound
  <2>4. \A d \in Cores : b <= step[d]
    BY <2>1, UsedIsMade
  <2> HIDE DEF b
  <2>5. \A d \in Cores : step'[d] >= b
    BY <2>3, <2>4, <1>1
  <2>6. \A x \in written : \A d \in Cores : step'[d] >= x
    BY <1>1 DEF HeldByAll
  <2> QED
    BY <2>1, <2>3, <2>5, <2>6, <1>1 DEF HeldByAll
<1>4. \/ written' = written
      \/ \E c \in Cores : Write(c) /\ c = Op(c).core
  BY DEF Next, SharedAlloc, PrivateAlloc, Write, Arrive, Leave, LocalDestroy, Aborts,
         Stopped, vars
<1> QED
  BY <1>2, <1>3, <1>4

\* Nobody writes over a block but the block's own users.
LEMMA KeptStep ==
  ASSUME TypeInv, Lockstep, HeldByAll, DataKept, [Next]_vars
  PROVE  DataKept'
<1>1. /\ prog' = prog /\ TypeInv' /\ step \in [Cores -> Nat] /\ DOMAIN prog \subseteq Nat \ {0}
      /\ written \subseteq DOMAIN prog
      /\ \A d \in Cores : \A k \in 1 .. step[d] : got'[d][k] = got[d][k]
  BY Moves, TypeStep DEF TypeInv, TypeOK
<1>2. ASSUME NEW b \in written, NEW d \in Cores
      PROVE  /\ b \in Made(d) /\ got'[d][b] = got[d][b]
             /\ b \in Nat \ {0} /\ b <= step[d]
             /\ \A p \in Block(prog[b], got[d][b]) : p \in Places /\ memory[p] = b
  <2>1. b \in Nat \ {0} /\ step[d] \in Nat /\ step[d] >= b /\ Allocates(prog[b])
    BY <1>1 DEF HeldByAll, Allocates
  <2>2. b \in Made(d) /\ b <= step[d]
    BY <2>1 DEF Made
  <2>3. got'[d][b] = got[d][b]
    BY <2>1, <1>1
  <2> QED
    BY <2>1, <2>2, <2>3, InPlace DEF DataKept
<1>3. ASSUME memory' = memory, written' = written
      PROVE  DataKept'
  BY <1>1, <1>2, <1>3 DEF DataKept
<1>4. ASSUME NEW c \in Cores, SharedAlloc(c), Fits(queue[c], Op(c)), Op(c).call = "calloc"
      PROVE  DataKept'
  <2> DEFINE n == step[c] + 1
             S == Block(Op(c), Address(queue[c], Op(c)))
  <2>1. /\ memory' = Fill(S, 0) /\ written' = written /\ step[c] < Len(prog)
        /\ Finishes(c, Address(queue[c], Op(c)), After(queue[c], Op(c)))
    BY <1>4 DEF SharedAlloc, Calls
  <2>2. n \in Nat \ {0} /\ Op(c) = prog[n] /\ step'[c] = n
    BY <2>1, <1>1 DEF Finishes, Op
  <2>3. got'[c][n] = Address(queue[c], Op(c)) /\ n \in Made(c)'
    <3>1. /\ got[c] \in Seq(Int) /\ Len(got[c]) = step[c]
          /\ got'[c] = Append(got[c], Address(queue[c], Op(c)))
      BY <2>1 DEF Finishes, TypeInv, TypeOK
    <3>2. got'[c][n] = Address(queue[c], Op(c))
      BY <3>1
    <3> QED
      BY <3>2, <2>2, <1>1, <1>4 DEF Made, Allocates
  <2> HIDE DEF n
  <2>4. ASSUME NEW b \in written, NEW d \in Cores, NEW p \in Block(prog[b], got'[d][b]),
               b \in Made(d)'
        PROVE  memory'[p] = b
    <3>1. b # n /\ p \in Places /\ memory[p] = b
      <4>1. b <= step[c] /\ b \in Nat
        BY <1>2
      <4> QED
        BY <4>1, <1>1, <1>2, <2>4 DEF n
    <3>2. Block(prog[n], got'[c][n]) \cap Block(prog[b], got'[d][b]) = {}
      <4>1. BlocksApart'
        BY <1>1, Apart, PTL
      <4> QED
        BY <4>1, <2>3, <2>4, <3>1, <1>1 DEF BlocksApart
    <3> QED
      BY <2>1, <2>2, <2>3, <2>4, <3>1, <3>2 DEF Fill
  <2> QED
    BY <2>1, <2>4, <1>1 DEF DataKept
<1>5. ASSUME NEW c \in Cores, Write(c), c = Op(c).core
      PROVE  DataKept'
  <2> DEFINE e == Op(c).block
  <2>1. /\ memory' = Fill(Block(prog[e], got[c][e]), e) /\ written' = written \cup {e}
        /\ step[c] < Len(prog) /\ Uses(Op(c))
    BY <1>5 DEF Write, Calls, Uses
  <2>2. e \in Made(c) /\ \A d \in Cores : e \in Made(d) /\ e <= step[d]
    BY <2>1, UsedIsMade
  <2> HIDE DEF e
  <2>3. ASSUME NEW d \in Cores, NEW p \in Block(prog[e], got'[d][e])
        PROVE  memory'[p] = e
    <3>1. got'[d][e] = got[d][e] /\ got[d][e] = got[c][e]
      BY <2>2, <1>1, Same DEF SameAddresses, Made
    <3>2. Block(prog[e], got[c][e]) \subseteq Places
      BY <2>2, InPlace
    <3> QED
      BY <2>1, <2>3, <3>1, <3>2 DEF Fill
  <2>4. ASSUME NEW b \in written, b # e, NEW d \in Cores, NEW p \in Block(prog[b], got'[d][b])
        PROVE  memory'[p] = b
    <3>1. p \in Places /\ memory[p] = b /\ p \in Block(prog[b], got[d][b]) /\ b \in Made(d)
      BY <1>2, <2>4
    <3>2. Block(prog[e], got[c][e]) \cap Block(prog[b], got[d][b]) = {}
      BY <2>2, <2>4, <3>1, Apart DEF BlocksApart
    <3> QED
      BY <2>1, <3>1, <3>2 DEF Fill
  <2> QED
    BY <2>1, <2>3, <2>4, <1>1 DEF DataKept
<1>6. \/ memory' = memory /\ written' = written
      \/ \E c \in Cores : SharedAlloc(c) /\ Fits(queue[c], Op(c)) /\ Op(c).call = "calloc"
      \/ \E c \in Cores : Write(c) /\ c = Op(c).core
  BY DEF Next, SharedAlloc, PrivateAlloc, Write, Arrive, Leave, LocalDestroy, Aborts,
         Stopped, vars
<1> QED
  BY <1>3, <1>4, <1>5, <1>6

-----------------------------------------------------------------------------
(* The theorems.                                                             *)

Inv == TypeInv /\ Lockstep /\ ReadyOnceMade /\ HeldByAll /\ DataKept

LEMMA InvInit ==
  ASSUME Init
  PROVE  Inv
  BY TypeInit, LockInit, ReadyInit DEF Inv, HeldByAll, DataKept, Init

LEMMA Invariance == Spec => []Inv
<1>1. Inv /\ [Next]_vars => Inv'
  BY TypeStep, LockStep, ReadyStep, HeldStep, KeptStep DEF Inv
<1> QED
  BY InvInit, <1>1, PTL DEF Spec

\* Every variable keeps its type, and no queue goes beyond its arena.
THEOREM TypeCorrect == Spec => []TypeOK
<1>1. Inv => TypeOK
  BY DEF Inv, TypeInv
<1> QED
  BY Invariance, <1>1, PTL

\* Each call of the program gives all cores the same address, though no core
\* tells another and each allocates privately in between.
THEOREM AddressesAgree == Spec => []SameAddresses
<1>1. Inv => SameAddresses
  BY Same DEF Inv
<1> QED
  BY Invariance, <1>1, PTL

\* Blocks never overlap, whoever asked for them and however far the cores are.
THEOREM Disjoint == Spec => []BlocksApart
<1>1. Inv => BlocksApart
  BY Apart DEF Inv
<1> QED
  BY Invariance, <1>1, PTL

\* What is written after a global barrier is not lost to a later allocation,
\* even to one that clears its block once per core.
THEOREM NothingLost == Spec => []DataKept
<1>1. Inv => DataKept
  BY DEF Inv
<1> QED
  BY Invariance, <1>1, PTL

\* A global barrier after the allocation is enough for the barrier's owner to
\* have initialised it before anyone waits there.
THEOREM ReadyInTime == Spec => []BarrierReady
<1>1. Inv => BarrierReady
  BY ReadyHere DEF Inv
<1> QED
  BY Invariance, <1>1, PTL
-----------------------------------------------------------------------------
(* Why no core waits for ever: barriers are the only place where a core     *)
(* waits for others, and they never hold back all that still have calls.    *)

\* Core c has a call to make, to abort in, or to come back from.
GoesOn(c) == step[c] < Len(prog) /\ (pc[c] # "run" => c \notin blocked)

\* As long as the program is not finished some core goes on with it.
SomebodyGoesOn ==
  ~dead /\ (\E c \in Cores : step[c] < Len(prog)) => \E c \in Cores : GoesOn(c)

\* No barrier holds back the one who came last.
SomebodyFree == blocked # Cores

\* A core that is held back is at the call of a core that comes to a barrier.
LEMMA AtOneCall ==
  ASSUME TypeInv, Lockstep, NEW c \in Cores, Calls(c, {"barrier", "lwait"}),
         NEW d \in blocked
  PROVE  d \in Cores /\ step[d] = step[c]
<1>1. /\ step \in [Cores -> Nat] /\ pc[c] = "run" /\ step[c] < Len(prog)
      /\ prog[step[c] + 1].call \in {"barrier", "lwait"}
  BY DEF TypeInv, TypeOK, Calls, Op
<1>2. /\ d \in Cores /\ pc[d] # "run" /\ step[d] < Len(prog)
      /\ prog[step[d] + 1].call \in {"barrier", "lwait"}
  BY DEF TypeInv, TypeOK, InBarriers, Op
<1>3. step[c] + 1 \in DOMAIN prog /\ step[d] + 1 \in DOMAIN prog
  BY <1>1, <1>2, CallType DEF TypeInv
<1>4. ~(step[d] > step[c])
  <2>1. Past(d, step[c] + 1) => Past(c, step[c] + 1)
    BY <1>1, <1>2, <1>3 DEF Lockstep
  <2> QED
    BY <2>1, <1>1, <1>2 DEF Past
<1>5. ~(step[c] > step[d])
  <2>1. Past(c, step[d] + 1) => Past(d, step[d] + 1)
    BY <1>2, <1>3 DEF Lockstep
  <2> QED
    BY <2>1, <1>1, <1>2 DEF Past
<1> QED
  BY <1>1, <1>2, <1>4, <1>5

\* Then it is at the same barrier, since all have the same addresses.
LEMMA AtOnePlace ==
  ASSUME TypeInv, Lockstep, NEW c \in Cores, Calls(c, {"barrier", "lwait"}),
         NEW d \in blocked
  PROVE  Place(d) = Place(c)
<1>1. d \in Cores /\ step[d] = step[c] /\ Op(d) = Op(c)
  BY AtOneCall DEF Op
<1>2. CASE Op(c).call = "barrier"
  BY <1>1, <1>2 DEF Place
<1>3. CASE Op(c).call = "lwait"
  <2>1. step[c] < Len(prog) /\ Uses(Op(c))
    BY <1>3 DEF Calls, Uses
  <2>2. Op(c).block \in Made(c) /\ Op(c).block \in Made(d)
    BY <2>1, <1>1, UsedIsMade
  <2>3. got[c][Op(c).block] = got[d][Op(c).block]
    BY <2>2, <1>1, Same DEF SameAddresses
  <2> QED
    BY <2>3, <1>1, <1>3 DEF Place
<1> QED
  BY <1>2, <1>3 DEF Calls

LEMMA FreeStep ==
  ASSUME TypeInv, Lockstep, SomebodyFree, [Next]_vars
  PROVE  SomebodyFree'
<1>1. ASSUME NEW c \in Cores, Arrive(c)
      PROVE  SomebodyFree'
  <2>1. CASE AllHere(c)
    BY <1>1, <2>1, CoresAssumption DEF Arrive, SomebodyFree, Cores
  <2>2. CASE ~AllHere(c)
    <3>1. PICK d \in Cores \ {c} : ~(d \in blocked /\ Place(d) = Place(c))
      BY <2>2 DEF AllHere
    <3>2. d \notin blocked
      BY <3>1, <1>1, AtOnePlace DEF Arrive
    <3> QED
      BY <3>1, <3>2, <1>1, <2>2 DEF Arrive, SomebodyFree
  <2> QED
    BY <2>1, <2>2
<1>2. blocked' = blocked \/ \E c \in Cores : Arrive(c)
  BY DEF Next, SharedAlloc, PrivateAlloc, Write, Leave, LocalDestroy, Aborts, Stopped, vars
<1> QED
  BY <1>1, <1>2 DEF SomebodyFree

\* A core that is held back keeps the others from finishing, and one of them
\* is free: it has not come to the barrier yet, or has not come back.
LEMMA FreeGoesOn ==
  ASSUME TypeInv, Lockstep, SomebodyFree
  PROVE  SomebodyGoesOn
<1> SUFFICES ASSUME NEW c \in Cores, step[c] < Len(prog),
                    \A d \in Cores : ~GoesOn(d)
             PROVE  FALSE
  BY DEF SomebodyGoesOn
<1>1. step \in [Cores -> 0 .. Len(prog)] /\ Len(prog) \in Nat /\ blocked \subseteq Cores
  BY DEF TypeInv, TypeOK
<1>2. c \in blocked /\ pc[c] # "run"
  BY DEF GoesOn
<1>3. /\ step[c] + 1 \in DOMAIN prog
      /\ prog[step[c] + 1].call \in {"barrier", "lwait"}
  BY <1>2, CallType DEF TypeInv, TypeOK, InBarriers, Op
<1>4. PICK d \in Cores : d \notin blocked
  BY <1>1 DEF SomebodyFree
<1>5. step[d] = Len(prog)
  BY <1>1, <1>4 DEF GoesOn
<1>6. Past(d, step[c] + 1) /\ ~Past(c, step[c] + 1)
  BY <1>1, <1>2, <1>5 DEF Past
<1> QED
  BY <1>3, <1>6 DEF Lockstep

\* A barrier that all cores reach lets them all go, and none is reached by
\* some only (drake_platform_barrier and drake_platform_local_barrier_wait):
\* while calls remain some core makes the next one, or comes back from its
\* barrier, whatever the others wait for.
THEOREM NobodyLeftBehind == Spec => []SomebodyGoesOn
<1>1. Init => SomebodyFree
  <2>1. 0 \in Cores
    BY CoresAssumption DEF Cores
  <2> QED
    BY <2>1 DEF Init, SomebodyFree
<1>2. Inv /\ SomebodyFree /\ [Next]_vars => SomebodyFree'
  BY FreeStep DEF Inv
<1>3. Inv /\ SomebodyFree => SomebodyGoesOn
  BY FreeGoesOn DEF Inv
<1> QED
  BY <1>1, <1>2, <1>3, Invariance, PTL DEF Spec
=============================================================================
