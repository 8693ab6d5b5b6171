---------------------------- MODULE MCCpuManager ----------------------------
(* Machines for CpuManager.                                                 *)
EXTENDS CpuManager

\* Any cpu but cpu 0 may be off before the first run.
AnyOff == 1 .. NbCpus - 1

\* A package of two cores and a package of one, two threads per core: the
\* first threads are cpus 0 .. 2, in no order, and their siblings cpus 3 .. 5.
SmallCore    == [c \in 0 .. 5 |-> IF c % 3 = 0 THEN 1 ELSE 0]
SmallPackage == [c \in 0 .. 5 |-> IF c % 3 = 2 THEN 1 ELSE 0]

\* One package of two cores with two threads, siblings next to each other.
PairedCore    == [c \in 0 .. 3 |-> c \div 2]
PairedPackage == [c \in 0 .. 3 |-> 0]

\* Two packages of seventeen cores with one thread.
WideCore    == [c \in 0 .. 33 |-> c % 17]
WidePackage == [c \in 0 .. 33 |-> c \div 17]
=============================================================================
