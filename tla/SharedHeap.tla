----------------------------- MODULE SharedHeap -----------------------------
(***************************************************************************)
(* Memory that cores share (drake_platform_aligned_alloc, _malloc and      *)
(* _calloc), the local barriers placed in it and the global barrier.       *)
(*                                                                         *)
(* Every core has its own queue for each arena, made over the same buffer. *)
(* Nothing passes an address from one core to another: they get the same   *)
(* one because all make the same sequence of calls.  Each core therefore   *)
(* carries out the same program, at its own pace and with private          *)
(* allocations of its own in between.                                      *)
(*                                                                         *)
(* The arenas have been set up.  The queue of pelib, which the repository  *)
(* only calls, is taken to hand out addresses in ascending order.          *)
(***************************************************************************)
EXTENDS Integers, Sequences, FiniteSets

CONSTANTS
  NbCores,      \* core_size
  Size,         \* per level, the bytes of a shared arena (L3, DRAM)
  PrivateSize,  \* the private allocations that a private arena has room for
  BarrierSize,  \* sizeof(struct drake_local_barrier)
  Programs      \* what the cores may be called to do

Cores  == 0 .. NbCores - 1
Arenas == Cores \X {0, 1}
Places == UNION {{a} \X (0 .. Size[a[2]] - 1) : a \in Arenas}

\* The calls of a program; each uses the fields that are arguments of its own.
Operations ==
  [call : {"alloc", "calloc", "lbarrier", "barrier", "write", "lwait", "ldestroy"},
   arena : Arenas, size : Nat \ {0}, align : Nat \ {0},   \* of an allocation
   block : Nat,    \* the position in the program of the allocation it uses
   core : Cores]   \* who writes, or destroys

Allocates(op) == op.call \in {"alloc", "calloc", "lbarrier"}
Uses(op) == op.call \in {"write", "lwait", "ldestroy"}

\* What a program must observe: a block is used after a global barrier that
\* follows its allocation; nothing is written over a barrier, and a barrier is
\* not used after it was destroyed.
Sound(p) ==
  \A k \in DOMAIN p :
    /\ p[k].call \in {"calloc", "lbarrier"} => p[k].align = 1
    /\ p[k].call = "lbarrier" => p[k].size = BarrierSize
    /\ Uses(p[k]) =>
         \E b \in 1 .. k - 1 :
           /\ b = p[k].block
           /\ IF p[k].call = "write" THEN p[b].call \in {"alloc", "calloc"}
                                     ELSE p[b].call = "lbarrier"
           /\ \E m \in b + 1 .. k - 1 : p[m].call = "barrier"
           /\ \A j \in 1 .. k - 1 : p[j].call = "ldestroy" => p[j].block # b

ASSUME CoresAssumption == NbCores \in Nat \ {0}
ASSUME SizesAssumption ==
  Size \in [{0, 1} -> Nat] /\ PrivateSize \in Nat /\ BarrierSize \in Nat \ {0}
ASSUME ProgramsAssumption ==
  Programs \subseteq Seq(Operations) /\ \A p \in Programs : Sound(p)

VARIABLES
  prog,     \* what all cores do
  step,     \* per core, how many calls it has finished
  pc,       \* per core, "run" or the kind of barrier it is in
  queue,    \* per core and arena, where shared[core_id][core][level] goes on
  private,  \* per core, the allocations in its private arena
  got,      \* per core, the address that each of its calls returned
  memory,   \* the bytes of the arenas
  ready,    \* the places of the barriers that are initialised
  blocked,  \* the cores that a barrier holds back
  dead,     \* whether abort was called
  written,  \* history: the blocks that were written
  layout    \* history: the queues of a core that has finished k calls

vars == <<prog, step, pc, queue, private, got, memory, ready, blocked, dead,
          written, layout>>

NoAddress == -1
Garbage == -1

Init ==
  /\ prog \in Programs
  /\ step = [c \in Cores |-> 0]
  /\ pc = [c \in Cores |-> "run"]
  /\ queue = [c \in Cores |-> [a \in Arenas |-> 0]]
  /\ private = [c \in Cores |-> 0]
  /\ got = [c \in Cores |-> <<>>]
  /\ memory = [p \in Places |-> Garbage]
  /\ ready = {}
  /\ blocked = {}
  /\ dead = FALSE
  /\ written = {}
  /\ layout = [k \in {0} |-> [a \in Arenas |-> 0]]

-----------------------------------------------------------------------------
(* One call of one core.                                                    *)

Op(c) == prog[step[c] + 1]

Calls(c, kinds) ==
  /\ ~dead
  /\ pc[c] = "run"
  /\ step[c] < Len(prog)
  /\ Op(c).call \in kinds

\* Core c has finished a call that returned addr and left its queues as q.
Finishes(c, addr, q) ==
  /\ step' = [step EXCEPT ![c] = @ + 1]
  /\ got' = [got EXCEPT ![c] = Append(@, addr)]
  /\ queue' = [queue EXCEPT ![c] = q]
  /\ layout' = IF step[c] + 1 \in DOMAIN layout THEN layout
               ELSE [k \in DOMAIN layout \cup {step[c] + 1} |->
                       IF k = step[c] + 1 THEN q ELSE layout[k]]

\* Mutant: addresses are rounded down.
AlignDown(n, a) == (n \div a) * a

AlignUp(n, a) == ((n + (a - 1)) \div a) * a

\* pelib_mem_malloc on the queues q, and what it leaves.
Address(q, op) == AlignUp(q[op.arena], op.align)
After(q, op)   == IF Allocates(op)
                  THEN [q EXCEPT ![op.arena] = Address(q, op) + op.size] ELSE q

\* Mutant: the end of the arena is not looked at.
AnyFits(q, op) == TRUE

Fits(q, op) == Address(q, op) + op.size <= Size[op.arena[2]]

Block(op, addr) == {op.arena} \X (addr .. addr + op.size - 1)

Fill(S, value) == [p \in Places |-> IF p \in S THEN value ELSE memory[p]]

Aborts(c) ==
  /\ dead' = TRUE
  /\ UNCHANGED <<prog, step, pc, queue, private, got, memory, ready, blocked,
                 written, layout>>

\* drake_platform_aligned_alloc of shared memory.  drake_platform_calloc sets
\* the block to 0, whichever core calls it; drake_platform_local_barrier_alloc
\* initialises the barrier on the core that owns the arena.
SharedAlloc(c) ==
  LET op == Op(c)
      addr == Address(queue[c], op)
  IN  /\ Calls(c, {"alloc", "calloc", "lbarrier"})
      /\ IF ~Fits(queue[c], op) THEN Aborts(c)
         ELSE /\ Finishes(c, addr, After(queue[c], op))
              /\ memory' = IF op.call = "calloc" THEN Fill(Block(op, addr), 0) ELSE memory
              /\ ready' = IF op.call = "lbarrier" /\ c = op.arena[1]
                          THEN ready \cup {<<op.arena, addr>>} ELSE ready
              /\ UNCHANGED <<prog, pc, private, blocked, dead, written>>

\* Mutant: a private block is taken from the core's own shared arena.
PrivateAllocShared(c) ==
  /\ ~dead
  /\ pc[c] = "run"
  /\ private[c] < PrivateSize
  /\ private' = [private EXCEPT ![c] = @ + 1]
  /\ queue' = [queue EXCEPT ![c][<<c, 0>>] = @ + 1]
  /\ UNCHANGED <<prog, step, pc, got, memory, ready, blocked, dead, written, layout>>

\* Private memory, which other cores never see: of the core's own arena, or
\* of malloc, which has no end here.
PrivateAlloc(c) ==
  /\ ~dead
  /\ pc[c] = "run"
  /\ IF private[c] < PrivateSize
     THEN /\ private' = [private EXCEPT ![c] = @ + 1]
          /\ UNCHANGED <<prog, step, pc, queue, got, memory, ready, blocked, dead,
                         written, layout>>
     ELSE Aborts(c)

\* What core c does that changes neither queues nor addresses.
Passes(c) == Finishes(c, NoAddress, queue[c])

\* Core op.core fills a block through the address it has itself.
Write(c) ==
  LET op == Op(c)
      b  == op.block
  IN  /\ Calls(c, {"write"})
      /\ Passes(c)
      /\ memory' = IF c = op.core THEN Fill(Block(prog[b], got[c][b]), b) ELSE memory
      /\ written' = IF c = op.core THEN written \cup {b} ELSE written
      /\ UNCHANGED <<prog, pc, private, ready, blocked, dead>>

-----------------------------------------------------------------------------
(* Barriers.                                                                *)

\* The place of the barrier that a core calls; the global one is not in an
\* arena.
Place(c) == IF Op(c).call = "barrier" THEN <<>>
            ELSE <<prog[Op(c).block].arena, got[c][Op(c).block]>>

\* Mutant: a barrier is made for one core less.
HereShort(c) == Cardinality({d \in blocked : Place(d) = Place(c)}) + 2 >= NbCores

\* All other cores are at the barrier that core c comes to.
AllHere(c) == \A d \in Cores \ {c} : d \in blocked /\ Place(d) = Place(c)

\* drake_platform_barrier, and drake_platform_local_barrier_wait on a barrier
\* made for all cores.
Arrive(c) ==
  /\ Calls(c, {"barrier", "lwait"})
  /\ pc' = [pc EXCEPT ![c] = Op(c).call]
  /\ blocked' = IF AllHere(c) THEN {} ELSE blocked \cup {c}
  /\ UNCHANGED <<prog, step, queue, private, got, memory, ready, dead, written, layout>>

Leave(c) ==
  /\ ~dead
  /\ pc[c] # "run"
  /\ c \notin blocked
  /\ pc' = [pc EXCEPT ![c] = "run"]
  /\ Passes(c)
  /\ UNCHANGED <<prog, private, memory, ready, blocked, dead, written>>

\* drake_platform_local_barrier_destroy; its call of drake_platform_free does
\* nothing.
LocalDestroy(c) ==
  /\ Calls(c, {"ldestroy"})
  /\ Passes(c)
  /\ ready' = IF c = Op(c).core THEN ready \ {Place(c)} ELSE ready
  /\ UNCHANGED <<prog, pc, private, memory, blocked, dead, written>>

Stopped ==
  /\ dead \/ \A c \in Cores : step[c] = Len(prog)
  /\ UNCHANGED vars

Next ==
  \/ \E c \in Cores :
       \/ SharedAlloc(c) \/ PrivateAlloc(c) \/ Write(c)
       \/ Arrive(c) \/ Leave(c) \/ LocalDestroy(c)
  \/ Stopped

Spec == Init /\ [][Next]_vars

-----------------------------------------------------------------------------
(* Properties.                                                              *)

\* Every variable keeps its type, and no queue goes beyond its arena.
TypeOK ==
  /\ prog \in Seq(Operations) /\ Sound(prog)
  /\ step \in [Cores -> 0 .. Len(prog)]
  /\ pc \in [Cores -> {"run", "barrier", "lwait"}]
  /\ queue \in [Cores -> [Arenas -> Nat]]
  /\ \A c \in Cores, a \in Arenas : queue[c][a] <= Size[a[2]]
  /\ private \in [Cores -> 0 .. PrivateSize]
  /\ got \in [Cores -> Seq(Int)] /\ \A c \in Cores : Len(got[c]) = step[c]
  /\ memory \in [Places -> Int]
  /\ ready \subseteq Arenas \X Nat
  /\ blocked \subseteq Cores
  /\ dead \in BOOLEAN
  /\ written \subseteq DOMAIN prog

\* The allocations that core c has made.
Made(c) == {k \in 1 .. step[c] : Allocates(prog[k])}

\* "2 identical call sequences give the same address sequences": what one core
\* writes at its address another finds at its own.
SameAddresses ==
  \A c, d \in Cores : \A k \in Made(c) \cap Made(d) : got[c][k] = got[d][k]

\* Two blocks never overlap, whichever cores asked for them.
BlocksApart ==
  \A c, d \in Cores : \A j \in Made(c), k \in Made(d) :
    j # k => Block(prog[j], got[c][j]) \cap Block(prog[k], got[d][k]) = {}

\* What was written to a block stays there for every core that has it,
\* though each core's call of calloc sets it to 0 once more.
DataKept ==
  \A b \in written : \A c \in Cores :
    b \in Made(c) => \A p \in Block(prog[b], got[c][b]) : memory[p] = b

\* A core that comes to a local barrier, or is held back by it, finds that the
\* owner has initialised it, though the owner tells nobody, and that nobody has
\* destroyed it.
BarrierReady ==
  \A c \in Cores :
    /\ step[c] < Len(prog) /\ Op(c).call = "lwait"
    /\ pc[c] = "run" \/ c \in blocked
    => Place(c) \in ready
-----------------------------------------------------------------------------
(* What makes the properties inductive.                                     *)

\* A core's queues depend only on how far it is, and only grow.
Layouts ==
  /\ \A k \in DOMAIN layout :
       /\ k \in 0 .. Len(prog) /\ 0 .. k \subseteq DOMAIN layout
       /\ layout[k] \in [Arenas -> Nat]
       /\ \A a \in Arenas : layout[k][a] <= Size[a[2]]
       /\ k > 0 => layout[k] = After(layout[k - 1], prog[k])
  /\ \A j, k \in DOMAIN layout : j <= k => \A a \in Arenas : layout[j][a] <= layout[k][a]
  /\ \A c \in Cores : step[c] \in DOMAIN layout /\ queue[c] = layout[step[c]]
  /\ \A c \in Cores : \A k \in Made(c) : got[c][k] = Address(layout[k - 1], prog[k])

\* A core is in the barrier that its program calls.
InBarriers ==
  /\ \A c \in Cores : pc[c] # "run" => step[c] < Len(prog) /\ Op(c).call = pc[c]
  /\ \A c \in blocked : pc[c] # "run"

\* Core c has been let go by the barrier that is call m.
Past(c, m) == \/ step[c] >= m
              \/ step[c] = m - 1 /\ pc[c] # "run" /\ c \notin blocked

\* Every barrier lets all cores go or none.
Lockstep ==
  \A m \in DOMAIN prog : prog[m].call \in {"barrier", "lwait"} =>
    \A c, d \in Cores : Past(c, m) => Past(d, m)

\* A barrier is ready from its owner's call on, until the call that destroys it.
ReadyOnceMade ==
  \A b \in DOMAIN prog :
    LET owner == prog[b].arena[1]
    IN  /\ prog[b].call = "lbarrier" /\ step[owner] >= b
        /\ \A j \in DOMAIN prog : prog[j].call = "ldestroy" /\ prog[j].block = b
                                  => step[prog[j].core] < j
        => <<prog[b].arena, got[owner][b]>> \in ready

\* What is written has been allocated by all.
HeldByAll ==
  \A b \in written : prog[b].call \in {"alloc", "calloc"} /\ \A c \in Cores : step[c] >= b
=============================================================================
