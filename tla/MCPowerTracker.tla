--------------------------- MODULE MCPowerTracker ---------------------------
(* PowerTracker for TLC: two packages of two cpus.  Cpu 3 was switched off  *)
(* at the start; cpu 2, through which the second package is read, belongs   *)
(* to core 2, which the program may switch.                                 *)
EXTENDS PowerTracker

MCCpus    == 0 .. 3
MCCores   == 0 .. 2
MCVid     == [c \in MCCores |-> c]
MCFirstOf == [n \in 0 .. 1 |-> 2 * n]
MCUnused  == {3}
=============================================================================
