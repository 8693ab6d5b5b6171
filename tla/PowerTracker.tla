---------------------------- MODULE PowerTracker ----------------------------
(***************************************************************************)
(* The power tracker of the platform (struct drake_power, measure_power    *)
(* and the drake_platform_power_ calls in intel-ia.c) beside the calls     *)
(* that switch cores on and off (drake_platform_core_enable and _disable). *)
(* A tracker is one thread that takes two readings, each when the program  *)
(* posts the one semaphore run.  To read a package, the package's first    *)
(* core must be on: the thread writes the same hotplug files of sysfs as   *)
(* the program's own calls, and neither holds a lock.                      *)
(*                                                                         *)
(* The energy counters are modelled by the work the program has done.      *)
(***************************************************************************)
EXTENDS Naturals

CONSTANTS
  Cpus,          \* indices of the hotplug files; 0 has none and is always on
  Cores,         \* the platform's core ids
  Vid,           \* global_core_id[core].vid, the index of a core's file
  Unused,        \* the cpus that cpu_manager_init switched off
  NbNodes,       \* how many packages there are
  FirstOf,       \* pkg_map[i][0].os_id, the first cpu of each package
  MaxWork,       \* bound: steps of work the program does
  MaxSwitches,   \* bound: calls that switch a core
  SwitchesAnyTime \* whether the program switches cores during a reading

Nodes == 0 .. NbNodes - 1

ASSUME CpusAssumption == Cpus \subseteq Nat /\ 0 \in Cpus
\* Core 0 is cpu 0, so no other core leads to the file that is not there
\* (CpuManager has the machines where one does).
ASSUME CoresAssumption ==
  /\ Cores \subseteq Nat
  /\ Vid \in [Cores -> Cpus]
  /\ \A c \in Cores : c > 0 => Vid[c] # 0
  /\ Unused \subseteq Cpus \ {0}
ASSUME NodesAssumption == NbNodes \in Nat \ {0} /\ FirstOf \in [Nodes -> Cpus]
ASSUME BoundsAssumption == MaxWork \in Nat /\ MaxSwitches \in Nat
ASSUME ModeAssumption == SwitchesAnyTime \in BOOLEAN

VARIABLES
  hot,       \* the hotplug files: which cpus are on
  wanted,    \* history: which cpus the platform last asked to be on
  tpc,       \* where the tracker's thread is
  node,      \* the loop variable i of measure_power
  pkgOff,    \* pkg_off: the cpu was off before it was woken
  run,       \* value of the semaphore run
  cpc,       \* where the program is with its tracker
  collected, \* the field of the tracker
  work,      \* what the energy counters count
  reading,   \* per node, the energy counter at the two readings
  atCall,    \* history: work at the calls of power_begin and power_end
  switches   \* bound counter

hardware == <<hot, wanted, switches>>
thread   == <<tpc, node, pkgOff, reading, collected>>
program  == <<cpc, work, atCall>>
vars     == <<hot, wanted, tpc, node, pkgOff, run, cpc, collected, work, reading,
              atCall, switches>>

Sampling == {"probe", "wake", "read", "restore", "wakeAll", "readAll"}
ThreadLocations == {"none", "setup", "waitBegin", "waitEnd", "done", "aborted"} \cup Sampling
ProgramLocations ==
  {"start", "ready", "measuring", "joining", "ended", "failed", "destroyed"}

Init ==
  /\ hot = [c \in Cpus |-> c \notin Unused]
  /\ wanted = hot
  /\ tpc = "none"
  /\ node = 0
  /\ pkgOff = FALSE
  /\ run = 0
  /\ cpc = "start"
  /\ collected = 0
  /\ work = 0
  /\ reading = [r \in {"begin", "end"} |-> [n \in Nodes |-> 0]]
  /\ atCall = [r \in {"begin", "end"} |-> 0]
  /\ switches = 0

Alive == tpc # "aborted"

\* The tracker is freed while its thread may still use it.
Freed == cpc = "destroyed"

-----------------------------------------------------------------------------
(* measure_power.                                                           *)

ThreadGoes(from, to) ==
  /\ tpc = from
  /\ tpc' = to
  /\ UNCHANGED program

\* Every step of the thread reads or writes the tracker.  With the tracker
\* freed under it, it goes on as before, or the process dies here.
UseFreed ==
  /\ Freed
  /\ tpc \notin {"none", "done", "aborted"}
  /\ ThreadGoes(tpc, "aborted")
  /\ UNCHANGED <<hardware, node, pkgOff, reading, collected, run>>

\* init_rapl fails: abort()
SetUp ==
  /\ ThreadGoes("setup", "waitBegin") \/ ThreadGoes("setup", "aborted")
  /\ UNCHANGED <<hardware, node, pkgOff, reading, collected, run>>

\* What a loop over the nodes does with node i: only cpu 0 needs no waking.
Sleeper(i) == FirstOf[i] # 0

\* sem_wait(&tracker->run): of a freed semaphore it may also return unasked.
Wait ==
  \/ run > 0 /\ run' = run - 1
  \/ Freed /\ UNCHANGED run

\* The first wait: the begin readings follow.
AwaitBegin ==
  /\ Wait
  /\ ThreadGoes("waitBegin", IF Sleeper(0) THEN "probe" ELSE "read")
  /\ node' = 0
  /\ UNCHANGED <<hardware, pkgOff, reading, collected>>

\* pkg_off = the file says "0"
Probe ==
  /\ ThreadGoes("probe", "wake")
  /\ pkgOff' = ~hot[FirstOf[node]]
  /\ UNCHANGED <<hardware, node, reading, collected, run>>

Wake ==
  /\ ThreadGoes("wake", "read")
  /\ hot' = [hot EXCEPT ![FirstOf[node]] = TRUE]
  /\ UNCHANGED <<wanted, switches, node, pkgOff, reading, collected, run>>

\* The next node of the first loop, or the time stamp and the second wait.
AfterNode == IF node + 1 = NbNodes THEN "waitEnd"
             ELSE IF Sleeper(node + 1) THEN "probe" ELSE "read"

\* read_power of one node
Read ==
  /\ ThreadGoes("read", IF Sleeper(node) THEN "restore" ELSE AfterNode)
  /\ reading' = [reading EXCEPT !["begin"][node] = work]
  /\ node' = IF Sleeper(node) THEN node ELSE node + 1
  /\ UNCHANGED <<hardware, pkgOff, collected, run>>

\* Mutant: the core is switched off whatever it was before.
RestoreOff ==
  /\ ThreadGoes("restore", AfterNode)
  /\ hot' = [hot EXCEPT ![FirstOf[node]] = FALSE]
  /\ node' = node + 1
  /\ UNCHANGED <<wanted, switches, pkgOff, reading, collected, run>>

\* Mutant: the core that was woken stays on.
RestoreNot ==
  /\ ThreadGoes("restore", AfterNode)
  /\ node' = node + 1
  /\ UNCHANGED <<hardware, pkgOff, reading, collected, run>>

\* "Switch of measurement core if not used by drake"
Restore ==
  /\ ThreadGoes("restore", AfterNode)
  /\ hot' = [hot EXCEPT ![FirstOf[node]] = @ /\ ~pkgOff]
  /\ node' = node + 1
  /\ UNCHANGED <<wanted, switches, pkgOff, reading, collected, run>>

\* Mutant: the second reading does not wait for power_end.
AwaitEndUnasked ==
  /\ run' = run - 1
  /\ ThreadGoes("waitEnd", "wakeAll")
  /\ node' = 0
  /\ UNCHANGED <<hardware, pkgOff, reading, collected>>

\* The second wait.
AwaitEnd ==
  /\ Wait
  /\ ThreadGoes("waitEnd", "wakeAll")
  /\ node' = 0
  /\ UNCHANGED <<hardware, pkgOff, reading, collected>>

\* Mutant: the loop stops one node early.
WakeAllShort ==
  /\ ThreadGoes("wakeAll", IF node + 2 >= NbNodes THEN "readAll" ELSE "wakeAll")
  /\ hot' = [hot EXCEPT ![FirstOf[node]] = @ \/ Sleeper(node)]
  /\ node' = IF node + 2 >= NbNodes THEN 0 ELSE node + 1
  /\ UNCHANGED <<wanted, switches, pkgOff, reading, collected, run>>

\* "Wake up threads used by rapl for measurements": all, before any reading,
\* and none is switched off again.
WakeAll ==
  /\ ThreadGoes("wakeAll", IF node + 1 = NbNodes THEN "readAll" ELSE "wakeAll")
  /\ hot' = [hot EXCEPT ![FirstOf[node]] = @ \/ Sleeper(node)]
  /\ node' = IF node + 1 = NbNodes THEN 0 ELSE node + 1
  /\ UNCHANGED <<wanted, switches, pkgOff, reading, collected, run>>

\* Mutant: the loop stops one node early.
ReadAllShort ==
  /\ ThreadGoes("readAll", IF node + 2 >= NbNodes THEN "done" ELSE "readAll")
  /\ reading' = [reading EXCEPT !["end"][node] = work]
  /\ collected' = IF node + 2 >= NbNodes THEN 2 ELSE collected
  /\ node' = node + 1
  /\ UNCHANGED <<hardware, pkgOff, run>>

ReadAll ==
  /\ ThreadGoes("readAll", IF node + 1 = NbNodes THEN "done" ELSE "readAll")
  /\ reading' = [reading EXCEPT !["end"][node] = work]
  /\ collected' = IF node + 1 = NbNodes THEN 2 ELSE collected
  /\ node' = node + 1
  /\ UNCHANGED <<hardware, pkgOff, run>>

Thread ==
  \/ UseFreed \/ SetUp \/ AwaitBegin \/ Probe \/ Wake \/ Read \/ Restore
  \/ AwaitEnd \/ WakeAll \/ ReadAll

-----------------------------------------------------------------------------
(* The program.                                                             *)

\* A step of the program, from one place to another in its dealings with the
\* tracker, that leaves the thread alone.
ProgramGoes(from, to) ==
  /\ Alive
  /\ cpc = from
  /\ cpc' = to

\* drake_platform_power_init: the thread is created, or it cannot be and the
\* tracker is freed.
PowerInit ==
  /\ \/ ProgramGoes("start", "ready") /\ tpc' = "setup"
     \/ ProgramGoes("start", "failed") /\ tpc' = tpc
  /\ UNCHANGED <<hardware, node, pkgOff, reading, collected, run, work, atCall>>

PowerBegin ==
  /\ ProgramGoes("ready", "measuring")
  /\ run' = run + 1
  /\ atCall' = [atCall EXCEPT !["begin"] = work]
  /\ UNCHANGED <<hardware, thread, work>>

\* Mutant: nothing tells the thread to take the second reading.
PowerEndUntold ==
  /\ ProgramGoes("measuring", "joining")
  /\ atCall' = [atCall EXCEPT !["end"] = work]
  /\ UNCHANGED <<hardware, thread, work, run>>

\* drake_platform_power_end posts run and then joins the thread.
PowerEnd ==
  /\ ProgramGoes("measuring", "joining")
  /\ run' = run + 1
  /\ atCall' = [atCall EXCEPT !["end"] = work]
  /\ UNCHANGED <<hardware, thread, work>>

Joined ==
  /\ ProgramGoes("joining", "ended")
  /\ tpc = "done"
  /\ UNCHANGED <<hardware, thread, run, work, atCall>>

\* drake_platform_power_destroy would end a running measurement first, but
\* nothing ever sets running: it frees the tracker at once, whatever the
\* thread is doing with it.
PowerDestroy ==
  /\ \E from \in {"ready", "measuring", "ended"} : ProgramGoes(from, "destroyed")
  /\ UNCHANGED <<hardware, thread, run, work, atCall>>

\* Another thread of the program, a worker of the pool for one, goes on
\* during the join.
Work ==
  /\ Alive
  /\ work < MaxWork
  /\ work' = work + 1
  /\ UNCHANGED <<hardware, thread, run, cpc, atCall>>

MaySwitch ==
  /\ Alive
  /\ switches < MaxSwitches
  /\ SwitchesAnyTime \/ tpc \notin Sampling

\* drake_platform_core_enable and _disable of a core other than 0 write its
\* hotplug file.  (Core 0 only has its idle states set, and turbo boost,
\* which _disable switches off on the other cores, is off from the start.)
SwitchCore(c, on) ==
  /\ MaySwitch
  /\ c > 0
  /\ hot' = [hot EXCEPT ![Vid[c]] = on]
  /\ wanted' = [wanted EXCEPT ![Vid[c]] = on]
  /\ switches' = switches + 1
  /\ UNCHANGED <<thread, run, program>>

Program ==
  \/ PowerInit \/ PowerBegin \/ PowerEnd \/ Joined \/ PowerDestroy \/ Work
  \/ \E c \in Cores, on \in BOOLEAN : SwitchCore(c, on)

Stopped ==
  /\ tpc = "aborted" \/ cpc \in {"failed", "destroyed"}
  /\ UNCHANGED vars

Next == Thread \/ Program \/ Stopped

\* The thread is scheduled while it has its tracker (a freed semaphore may
\* hold it for ever) and pthread_join returns; the program need not call
\* anything.
Spec == Init /\ [][Next]_vars
FairSpec == Spec /\ WF_vars(~Freed /\ Thread) /\ WF_vars(Joined)

-----------------------------------------------------------------------------
(* Properties.                                                              *)

\* Every variable keeps its type; run never goes below zero.
TypeOK ==
  /\ hot \in [Cpus -> BOOLEAN]
  /\ wanted \in [Cpus -> BOOLEAN]
  /\ tpc \in ThreadLocations
  /\ node \in 0 .. NbNodes
  /\ pkgOff \in BOOLEAN
  /\ run \in Nat
  /\ cpc \in ProgramLocations
  /\ collected \in {0, 2}
  /\ work \in Nat
  /\ reading \in [{"begin", "end"} -> [Nodes -> Nat]]
  /\ atCall \in [{"begin", "end"} -> Nat]
  /\ switches \in Nat

\* No cpu that the platform wants on is ever off: a reading may wake a cpu
\* and put it back to sleep, never one that drake uses.
CoresKept == \A c \in Cpus : wanted[c] => hot[c]

\* Between the two readings every cpu is as the platform wants it.
WokenGoBack == tpc = "waitEnd" => hot = wanted

\* A package is read only while its first core is on.
ReadsAwake == tpc \in {"read", "readAll"} => hot[FirstOf[node]]

\* What power_end returns is made of a reading of every node after the call
\* of power_begin and of a later one after the call of power_end, whenever
\* the program calls and whatever works on meanwhile.
MeasuredWithinCalls ==
  cpc = "ended" =>
    /\ collected = 2
    /\ \A n \in Nodes :
         /\ atCall["begin"] <= reading["begin"][n]
         /\ reading["begin"][n] <= reading["end"][n]
         /\ atCall["end"] <= reading["end"][n]

\* power_end returns.
EndReturns == cpc = "joining" ~> cpc = "ended" \/ ~Alive

\* "Switch of measurement core if not used by drake": the thread never
\* switches off a cpu that drake uses.
OnlyUnusedSwitchedOff ==
  [][ \A c \in Cpus : hot[c] /\ ~hot'[c] => ~wanted'[c] ]_vars

-----------------------------------------------------------------------------
(* The inductive invariant.                                                 *)

InFirstLoop == {"probe", "wake", "read", "restore"}

\* How often the program has posted run, and the thread has taken it.
Posts == IF cpc = "measuring" THEN 1
         ELSE IF cpc \in {"joining", "ended"} THEN 2 ELSE 0
Takes == IF tpc \in InFirstLoop \cup {"waitEnd"} THEN 1
         ELSE IF tpc \in {"wakeAll", "readAll", "done"} THEN 2 ELSE 0

Tokens ==
  /\ ~Freed => run + Takes = Posts
  /\ cpc = "ended" => tpc = "done"
  /\ tpc \in Sampling => node < NbNodes
  /\ tpc = "restore" => Sleeper(node)
  /\ tpc \in {"probe", "wake"} => Sleeper(node)
  /\ tpc = "done" <=> collected = 2

\* The readings taken so far follow the calls and one another.
Readings ==
  /\ atCall["begin"] <= work
  /\ atCall["end"] <= work
  /\ \A n \in Nodes :
       /\ reading["begin"][n] <= work
       /\ \/ tpc \in {"read", "wake", "probe"} /\ n < node
          \/ tpc = "restore" /\ n <= node
          \/ tpc \in {"waitEnd", "wakeAll", "readAll", "done"}
          => Freed \/ atCall["begin"] <= reading["begin"][n]
       /\ (tpc = "readAll" /\ n < node) \/ tpc = "done"
            => \/ Freed
               \/ /\ atCall["end"] <= reading["end"][n]
                  /\ reading["begin"][n] <= reading["end"][n]

\* What the thread has changed of the hotplug files.
Awakened ==
  /\ hot[0] /\ wanted[0]
  /\ tpc \notin {"read", "restore", "wakeAll", "readAll", "done", "aborted"}
       => hot = wanted
  /\ tpc \in {"wake", "read", "restore"} /\ Sleeper(node)
       => (pkgOff <=> ~wanted[FirstOf[node]])
  /\ tpc \in {"read", "restore"}
       => /\ hot[FirstOf[node]]
          /\ \A c \in Cpus : c # FirstOf[node] => (hot[c] <=> wanted[c])
  /\ tpc \in {"wakeAll", "readAll", "done", "aborted"} => CoresKept
  /\ tpc = "wakeAll" => \A n \in Nodes : n < node => hot[FirstOf[n]]
  /\ tpc = "readAll" => \A n \in Nodes : hot[FirstOf[n]]

=============================================================================
