----------------------------- MODULE CpuManager -----------------------------
(***************************************************************************)
(* What the platform does to the machine it runs on (cpu_manager.c, msr.c, *)
(* and the calls of intel-ia.c that switch cores and idle states): which   *)
(* cpus are on, their frequency governors, their idle states and turbo     *)
(* boost.  All of that is kept by the kernel, so it outlives the process:  *)
(* a process that dies between cpu_manager_init and cpu_manager_destroy    *)
(* leaves it as it is to the next one.                                     *)
(*                                                                         *)
(* One action is one turn of a loop.  A cpu that is off has no files       *)
(* besides its hotplug file: opening one ends the process, writing one     *)
(* that was opened before prints an error and changes nothing.  What the   *)
(* process does with memory it never wrote is undefined: it may die, or go *)
(* on without an effect on the machine.                                    *)
(***************************************************************************)
EXTENDS Integers, FiniteSets

CONSTANTS
  NbCpus,       \* manager.present.size; the present cpus are 0 .. NbCpus - 1
  CoreOf,       \* topology/core_id of each cpu
  PackageOf,    \* topology/physical_package_id of each cpu
  BootOff,      \* the cpus that may be off before the first run
  Width,        \* how many ids the int active tells apart
  MaxCrashes,   \* bound: how often the process dies
  MaxRuns,      \* bound: how often the platform is initialised
  MaxSwitches,  \* bound: calls that switch a core or its idle states
  MaxFailures   \* bound: the directories and registers that a run fails to read

Cpus == 0 .. NbCpus - 1

ASSUME NbCpusAssumption == NbCpus \in Nat \ {0}
ASSUME TopologyAssumption ==
  /\ CoreOf \in [Cpus -> Nat] /\ PackageOf \in [Cpus -> Nat]
  /\ BootOff \subseteq Cpus \ {0}
ASSUME WidthAssumption == Width \in Nat \ {0}
ASSUME BoundsAssumption ==
  /\ MaxCrashes \in Nat /\ MaxRuns \in Nat
  /\ MaxSwitches \in Nat /\ MaxFailures \in Nat

Packages == {PackageOf[c] : c \in Cpus}

VARIABLES
  hot,        \* the cpus that are on
  governor,   \* per cpu, its frequency governor
  polling,    \* the cpus whose idle states are disabled
  boost,      \* the packages whose turbo boost is enabled
  pc,         \* where the process is
  i,          \* the loop variable
  poll,       \* the argument poll_at_idle
  active,     \* the bits set in the local variable active
  online,     \* manager.online.member
  rid,        \* the rids found so far, before they are sorted
  vid,        \* manager.global_core_id[core].vid
  saved,      \* manager.turbo_boost[i]->state_boost, for the bit of turbo boost
  unread,     \* the i whose state_boost was never written
  unopened,   \* the cpus whose cstate was never written
  stuck,      \* the cpus that were switched off since cstate was opened
  bootBoost,  \* history: boost before the first run
  spoiled,    \* history: the packages whose bootBoost was not kept by a process
  asked,      \* history: the cores that the program last asked to be on
  crashes,    \* history: how often the process died
  runs,       \* bound counter
  switches    \* bound counter

machine == <<hot, governor, polling, boost>>
files   == <<saved, unread, unopened, stuck>>
manager == <<poll, active, online, rid, vid, files>>
ghosts  == <<bootBoost, spoiled, asked, crashes, runs, switches>>
vars    == <<machine, pc, i, manager, ghosts>>

Starting == {"switchOn", "scan", "switchOff", "list", "cpus", "sort", "idle",
             "stray", "msr", "boostOff"}
Closing  == {"boostOn", "allOn", "restore"}
Gone     == {"off", "dead", "lost", "closed"}
Locations == Starting \cup {"running"} \cup Closing \cup Gone

\* The array that lists a set of cpus in their order, as the kernel does.
Listed(S) == [k \in 0 .. Cardinality(S) - 1 |->
                CHOOSE c \in S : Cardinality({d \in S : d < c}) = k]

Empty == [k \in {} |-> 0]

Init ==
  /\ \E off \in SUBSET BootOff : hot = Cpus \ off
  /\ governor = [c \in Cpus |-> "initial"]
  /\ polling = {}
  /\ boost \in SUBSET Packages
  /\ pc = "off"
  /\ i = 0
  /\ poll = FALSE
  /\ active = {}
  /\ online = Empty /\ rid = Empty /\ vid = Empty /\ saved = Empty
  /\ unread = {} /\ unopened = {} /\ stuck = {}
  /\ bootBoost = boost
  /\ spoiled = {}
  /\ asked = {}
  /\ crashes = 0 /\ runs = 0 /\ switches = 0

-----------------------------------------------------------------------------
(* The shape of a loop: for(i = 0; i < size; i++) at pc = here.             *)

NbOnline == Cardinality(DOMAIN online)

\* Mutant: the loop runs to i = size.
TurnPast(here, size, next) ==
  /\ pc = here
  /\ pc' = IF i < size THEN here ELSE next
  /\ i' = IF i < size THEN i + 1 ELSE 0

Turn(here, size, next) ==
  /\ pc = here
  /\ pc' = IF i + 1 < size THEN here ELSE next
  /\ i' = IF i + 1 < size THEN i + 1 ELSE 0

\* A step outside of the loops.
Goes(here, next) == pc = here /\ pc' = next /\ i' = 0

\* Where turbo boost may not be as the process found it.
Changing == {"boostOff", "running"} \cup Closing

\* The process ends here and leaves the machine as it is.
Dies ==
  /\ pc' = "dead"
  /\ i' = 0
  /\ spoiled' = IF pc \in Changing THEN Packages ELSE spoiled
  /\ UNCHANGED <<machine, manager, bootBoost, asked, runs, switches>>

-----------------------------------------------------------------------------
(* cpu_manager_init                                                         *)

\* The program initialises the platform, in a new process or again in one
\* that destroyed it.
Start ==
  /\ pc \in Gone
  /\ runs < MaxRuns
  /\ pc' = "switchOn"
  /\ i' = 0
  /\ poll' \in BOOLEAN
  /\ active' = {}
  /\ online' = Empty /\ rid' = Empty /\ vid' = Empty /\ saved' = Empty
  /\ unread' = {} /\ unopened' = {} /\ stuck' = {}
  /\ asked' = {}
  /\ runs' = runs + 1
  /\ UNCHANGED <<machine, bootBoost, spoiled, crashes, switches>>

\* Mutant: the cpus that are off stay off.
SwitchOnNot ==
  /\ Turn("switchOn", NbCpus, "scan")
  /\ UNCHANGED <<machine, manager, ghosts>>

\* "Switch all cores on"; cpu 0 has no hotplug file and is always on.
SwitchOn ==
  /\ Turn("switchOn", NbCpus, "scan")
  /\ hot' = hot \cup {i}
  /\ UNCHANGED <<governor, polling, boost, manager, ghosts>>

\* The loop that looks for max_core_id reads the topology of every cpu.
Scan ==
  /\ Goes("scan", IF hot = Cpus THEN "switchOff" ELSE "lost")
  /\ UNCHANGED <<machine, manager, ghosts>>

max_core_id == CHOOSE m \in {CoreOf[c] : c \in Cpus} :
                 \A c \in Cpus : CoreOf[c] <= m

Id(c) == CoreOf[c] + PackageOf[c] * (max_core_id + 1)

\* The bit of an int that 1 << id sets and active >> id tests: the processor
\* takes the distance of a shift modulo the width of what it shifts.
Bit(c) == Id(c) % Width

\* Mutant: an id that no cpu had before is not noted in active.
SwitchOffUnnoted ==
  /\ Turn("switchOff", NbCpus, "list")
  /\ hot' = IF Bit(i) \in active THEN hot \ {i} ELSE hot
  /\ active' = active
  /\ UNCHANGED <<governor, polling, boost, poll, online, rid, vid, files, ghosts>>

\* "Deactivate hyperthreading cores": all but the first cpu with an id.
SwitchOff ==
  /\ Turn("switchOff", NbCpus, "list")
  /\ hot' = IF Bit(i) \in active THEN hot \ {i} ELSE hot
  /\ active' = active \cup {Bit(i)}
  /\ UNCHANGED <<governor, polling, boost, poll, online, rid, vid, files, ghosts>>

\* "Get the set of cores still online"
ListOnline ==
  /\ Goes("list", "cpus")
  /\ online' = Listed(hot)
  /\ UNCHANGED <<machine, poll, active, rid, vid, files, ghosts>>

\* One turn of the loop over the cpus still on: the governor of that cpu, and
\* then the topology, read for cpu i and not for online.member[i].
SetUpCpu ==
  /\ IF i \in hot THEN Turn("cpus", NbOnline, "sort") ELSE Goes("cpus", "lost")
  /\ governor' = [governor EXCEPT ![online[i]] = "userspace"]
  /\ rid' = IF i \in hot THEN [k \in 0 .. i |-> IF k = i THEN Id(i) ELSE rid[k]]
                         ELSE rid
  /\ UNCHANGED <<hot, polling, boost, poll, active, online, vid, files, ghosts>>

\* Mutant: the cores keep the order of the kernel.
SortIdsNot ==
  /\ Goes("sort", "idle")
  /\ vid' = [c \in DOMAIN online |-> c]
  /\ asked' = DOMAIN online
  /\ UNCHANGED <<machine, poll, active, online, rid, files, bootBoost, spoiled,
                 crashes, runs, switches>>

\* qsort with cpuid_by_rid
SortIds ==
  /\ Goes("sort", "idle")
  /\ vid' = [c \in DOMAIN online |->
               CHOOSE v \in DOMAIN online :
                 Cardinality({u \in DOMAIN online : rid[u] < rid[v]}) = c]
  /\ asked' = DOMAIN online
  /\ UNCHANGED <<machine, poll, active, online, rid, files, bootBoost, spoiled,
                 crashes, runs, switches>>

MayFail == Cardinality(unopened) + Cardinality(unread) < MaxFailures

\* Opens the idle states of one cpu and, with poll_at_idle, disables them.
\* When their directory does not open, manager.cstate[i] stays unwritten.
SetUpIdle ==
  /\ Turn("idle", NbOnline, "stray")
  /\ \/ /\ polling' = IF poll THEN polling \cup {online[i]} ELSE polling
        /\ unopened' = unopened
     \/ /\ MayFail
        /\ polling' = polling
        /\ unopened' = unopened \cup {online[i]}
  /\ UNCHANGED <<hot, governor, boost, poll, active, online, rid, vid, saved,
                 unread, stuck, ghosts>>

\* Reads two current frequencies; with one cpu there is no second.
StrayReads ==
  /\ \E next \in {"msr"} \cup (IF NbOnline = 1 THEN {"dead"} ELSE {}) :
       Goes("stray", next)
  /\ UNCHANGED <<machine, manager, ghosts>>

\* msr_attr_open of register i: it keeps this of what the register holds.
Keeps(content) ==
  saved' = [k \in DOMAIN saved \cup {i} |-> IF k = i THEN content ELSE saved[k]]

\* Mutant: one loop opens the register of a cpu and disables its turbo boost.
OpenMsrDisabling ==
  /\ Turn("msr", NbOnline, "boostOff")
  /\ \/ /\ Keeps(PackageOf[online[i]] \in boost)
        /\ UNCHANGED <<unread, spoiled>>
     \/ /\ MayFail
        /\ \E content \in BOOLEAN : Keeps(content)
        /\ unread' = unread \cup {i}
        /\ spoiled' = spoiled \cup {PackageOf[online[i]]}
     \/ UNCHANGED <<saved, unread, spoiled>>
  /\ boost' = boost \ {PackageOf[online[i]]}
  /\ UNCHANGED <<hot, governor, polling, poll, active, online, rid, vid,
                 unopened, stuck, bootBoost, asked, crashes, runs, switches>>

\* Opens the register of one cpu and reads it; when that fails, state_boost is
\* what malloc left there.  A register that does not open is a null pointer.
OpenMsr ==
  /\ Turn("msr", NbOnline, "boostOff")
  /\ \/ /\ Keeps(PackageOf[online[i]] \in boost)
        /\ UNCHANGED <<unread, spoiled>>
     \/ /\ MayFail
        /\ \E content \in BOOLEAN : Keeps(content)
        /\ unread' = unread \cup {i}
        /\ spoiled' = spoiled \cup {PackageOf[online[i]]}
     \/ UNCHANGED <<saved, unread, spoiled>>
  /\ UNCHANGED <<machine, poll, active, online, rid, vid, unopened, stuck,
                 bootBoost, asked, crashes, runs, switches>>

\* What boost is after a write to register k.  A cpu may refuse a content that
\* was never read, which is printed and forgotten.
Written(k, new) == {new} \cup (IF k \in unread THEN {boost} ELSE {})

DisableBoost ==
  /\ Turn("boostOff", NbOnline, "running")
  /\ i \in DOMAIN saved
  /\ boost' \in Written(i, boost \ {PackageOf[online[i]]})
  /\ UNCHANGED <<hot, governor, polling, manager, ghosts>>

\* The null pointer is followed.
DisableNone ==
  /\ pc = "boostOff"
  /\ i \notin DOMAIN saved
  /\ Dies
  /\ UNCHANGED crashes

-----------------------------------------------------------------------------
(* The calls of the program.                                                *)

Call ==
  /\ pc = "running"
  /\ switches < MaxSwitches
  /\ switches' = switches + 1
  /\ UNCHANGED <<pc, i, poll, active, online, rid, vid, saved, unread, unopened,
                 bootBoost, spoiled, crashes, runs>>

\* The registers of the cores besides c, where they are on and take the write.
DisableOthers(c) ==
  \E refused \in SUBSET unread :
    boost' = boost \ {PackageOf[online[vid[d]]] :
               d \in {e \in DOMAIN vid :
                        e # c /\ online[vid[e]] \in hot' /\ vid[e] \notin refused}}

\* Mutant: the hotplug file is looked up by the core's number.
CoreDisableByNumber(c) ==
  /\ Call
  /\ c > 0
  /\ hot' = hot \ {c}
  /\ stuck' = stuck \cup {c}
  /\ DisableOthers(c)
  /\ asked' = asked \ {c}
  /\ UNCHANGED <<governor, polling>>

\* drake_platform_core_disable: the hotplug files go by vid, as do the other
\* cores' turbo registers.  hotplug[0] is never written, so that what follows
\* it reaches no cpu.
CoreDisable(c) ==
  /\ Call
  /\ c > 0
  /\ hot' = hot \ ({vid[c]} \ {0})
  /\ stuck' = stuck \cup ({vid[c]} \ {0})
  /\ DisableOthers(c)
  /\ asked' = asked \ {c}
  /\ UNCHANGED <<governor, polling>>

\* The idle states of a cpu that was off cannot be changed any more.
CoreEnable(c) ==
  /\ Call
  /\ c > 0
  /\ hot' = hot \cup {vid[c]}
  /\ asked' = asked \cup {c}
  /\ UNCHANGED <<governor, polling, boost, stuck>>

\* The cpus whose idle states the process can write.
Writable == hot \ (stuck \cup unopened)

\* drake_platform_sleep_enable, and core_enable or core_disable of core 0:
\* the idle states are always those of cstate[0].
SleepEnable ==
  /\ Call
  /\ polling' = polling \ ({online[0]} \cap Writable)
  /\ UNCHANGED <<hot, governor, boost, stuck, asked>>

SleepDisable ==
  /\ Call
  /\ polling' = polling \cup ({online[0]} \cap Writable)
  /\ UNCHANGED <<hot, governor, boost, stuck, asked>>

\* A call that follows a pointer nobody wrote, hotplug[0] or cstate[0].attr[i],
\* or counts to a cstate[0].nb_states nobody wrote.
StrayCall ==
  /\ pc = "running"
  /\ \/ \E c \in DOMAIN vid : c > 0 /\ vid[c] = 0
     \/ online[0] \in unopened
  /\ Dies
  /\ UNCHANGED crashes

-----------------------------------------------------------------------------
(* cpu_manager_destroy                                                      *)

Destroy ==
  /\ Goes("running", "boostOn")
  /\ UNCHANGED <<machine, manager, ghosts>>

EnableBoost ==
  /\ Turn("boostOn", NbOnline, "allOn")
  /\ boost' \in IF online[i] \in hot
               THEN Written(i, boost \cup {PackageOf[online[i]]}) ELSE {boost}
  /\ UNCHANGED <<hot, governor, polling, manager, ghosts>>

\* Mutant: only the cpus that the platform used are switched on.
SwitchAllOnUsed ==
  /\ Turn("allOn", NbOnline, "restore")
  /\ hot' = hot \cup {online[i]}
  /\ UNCHANGED <<governor, polling, boost, manager, ghosts>>

\* "Switch on all cores"
SwitchAllOn ==
  /\ Turn("allOn", NbCpus, "restore")
  /\ hot' = hot \cup {i}
  /\ UNCHANGED <<governor, polling, boost, manager, ghosts>>

\* The governor, the register's old content and the idle states of one cpu.
Restore ==
  /\ \/ Turn("restore", NbOnline, "closed") /\ UNCHANGED spoiled
     \/ /\ Goes("restore", "dead") /\ spoiled' = Packages
        /\ online[i] \in unopened
  /\ governor' = IF online[i] \in hot
                 THEN [governor EXCEPT ![online[i]] = "ondemand"] ELSE governor
  /\ boost' \in IF online[i] \notin hot THEN {boost}
               ELSE Written(i, IF saved[i] THEN boost \cup {PackageOf[online[i]]}
                                           ELSE boost \ {PackageOf[online[i]]})
  /\ polling' = polling \ ({online[i]} \cap Writable)
  /\ UNCHANGED <<hot, manager, bootBoost, asked, crashes, runs, switches>>

-----------------------------------------------------------------------------
\* The process is killed.
Crash ==
  /\ pc \notin Gone
  /\ crashes < MaxCrashes
  /\ Dies
  /\ crashes' = crashes + 1

Stopped ==
  /\ pc \in Gone
  /\ UNCHANGED vars

Next ==
  \/ Start \/ SwitchOn \/ Scan \/ SwitchOff \/ ListOnline \/ SetUpCpu
  \/ SortIds \/ SetUpIdle \/ StrayReads \/ OpenMsr \/ DisableBoost
  \/ DisableNone
  \/ \E c \in DOMAIN vid : CoreDisable(c) \/ CoreEnable(c)
  \/ SleepEnable \/ SleepDisable \/ StrayCall
  \/ Destroy \/ EnableBoost \/ SwitchAllOn \/ Restore
  \/ Crash \/ Stopped

Spec == Init /\ [][Next]_vars

-----------------------------------------------------------------------------
(* Properties.                                                              *)

\* Every variable keeps its type.
TypeOK ==
  /\ hot \subseteq Cpus
  /\ governor \in [Cpus -> {"initial", "userspace", "ondemand"}]
  /\ polling \subseteq Cpus
  /\ boost \subseteq Packages
  /\ pc \in Locations
  /\ i \in Cpus
  /\ poll \in BOOLEAN
  /\ active \subseteq 0 .. Width - 1
  /\ DOMAIN online \subseteq Cpus /\ \A k \in DOMAIN online : online[k] \in Cpus
  /\ DOMAIN vid \subseteq DOMAIN online /\ \A c \in DOMAIN vid : vid[c] \in DOMAIN vid
  /\ DOMAIN rid \subseteq DOMAIN online
  /\ DOMAIN saved \subseteq DOMAIN online
  /\ \A k \in DOMAIN saved : saved[k] \in BOOLEAN
  /\ unread \subseteq DOMAIN online
  /\ unopened \subseteq Cpus /\ stuck \subseteq Cpus
  /\ bootBoost \subseteq Packages /\ spoiled \subseteq Packages
  /\ asked \subseteq DOMAIN vid
  /\ crashes \in 0 .. MaxCrashes
  /\ runs \in 0 .. MaxRuns
  /\ switches \in 0 .. MaxSwitches

SameCore(c, d) == CoreOf[c] = CoreOf[d] /\ PackageOf[c] = PackageOf[d]

\* "Find and switch off all hyperthreading cpus": of the cpus that share a
\* core exactly one is left, whatever an earlier process left on or off.
OneCpuPerCore ==
  online # Empty =>
    \A c \in Cpus : \E k \in DOMAIN online :
      /\ SameCore(c, online[k])
      /\ \A j \in DOMAIN online : SameCore(c, online[j]) => j = k

Before(c, d) ==
  \/ PackageOf[c] < PackageOf[d]
  \/ PackageOf[c] = PackageOf[d] /\ CoreOf[c] < CoreOf[d]

\* The platform numbers its cores package by package.
CoresOrdered ==
  \A c, d \in DOMAIN vid : c < d => Before(online[vid[c]], online[vid[d]])

\* The cpu that a core's calls switch is the cpu whose frequency, register
\* and idle states the core's index stands for, whatever the order of the ids;
\* the core of cpu 0 stays on whatever was asked.
CoresSwitched ==
  pc = "running" =>
    \A c \in DOMAIN vid :
      online[vid[c]] \in hot <=> c \in asked \/ online[vid[c]] = 0

\* "Get a global ID for this core": every cpu whose topology is read is on.
TopologyFound == pc # "lost"

\* After cpu_manager_destroy every cpu is on, the cpus that were used are under
\* the ondemand governor, and none polls besides those whose idle states the
\* process could not change, also when an earlier process died.
Restored ==
  pc = "closed" =>
    /\ hot = Cpus
    /\ polling \subseteq stuck \cup unopened
    /\ \A c \in Cpus : governor[c] # "userspace"

\* Restore "full system cores and reasonnable power saving settings": after
\* cpu_manager_destroy no cpu polls when it has nothing to do.
PowerSavingRestored == pc = "closed" => polling = {}

\* Turbo boost is after cpu_manager_destroy what it was before the first run,
\* in every package whose registers were all read and were never left changed
\* by a process that died.
BoostRestored ==
  pc = "closed" => \A p \in Packages \ spoiled : p \in boost <=> p \in bootBoost
-----------------------------------------------------------------------------
(* What makes the properties inductive.                                     *)

\* The cpus that SwitchOff leaves on.
Firsts == {c \in Cpus : \A d \in Cpus : d < c => Bit(d) # Bit(c)}

Owning == {"cpus", "sort", "idle", "stray", "msr", "boostOff", "running"} \cup Closing

\* How far the loops over all cpus have come.
Hotplug ==
  /\ pc \in {"switchOn", "allOn"} => \A c \in Cpus : c < i => c \in hot
  /\ pc \in {"scan", "restore", "closed"} => hot = Cpus
  /\ pc \in {"switchOn", "scan"} => active = {}
  /\ pc = "switchOff" => /\ active = {Bit(c) : c \in 0 .. i - 1}
                         /\ \A c \in Cpus : c \in hot <=> c >= i \/ c \in Firsts
  /\ pc \in {"list", "cpus", "sort", "idle", "stray", "msr", "boostOff"} => hot = Firsts

\* The cpus listed are those that were left on, and when none of their
\* topologies was missing they are numbered without gaps.
Numbering ==
  /\ online \in {Empty, Listed(Firsts)}
  /\ pc \in {"switchOn", "scan", "switchOff", "list"} => online = Empty
  /\ pc \in Owning => online = Listed(Firsts)
  /\ pc \in {"cpus", "idle", "msr", "boostOff", "boostOn", "restore"} => i \in DOMAIN online
  /\ pc \in {"cpus", "sort"} =>
       /\ DOMAIN rid = IF pc = "cpus" THEN 0 .. i - 1 ELSE DOMAIN online
       /\ \A k \in DOMAIN rid : k \in Firsts /\ rid[k] = Id(k)
  /\ vid # Empty =>
       /\ online = Listed(Firsts)
       /\ DOMAIN vid = DOMAIN online /\ DOMAIN online \subseteq Firsts
       /\ \A v \in DOMAIN vid : \E c \in DOMAIN vid : vid[c] = v
       /\ \A c, d \in DOMAIN vid : c < d => Id(vid[c]) < Id(vid[d])

\* The program's calls reach the cpus they are meant for.
Reached ==
  pc \in {"idle", "stray", "msr", "boostOff", "running"} =>
    \A c \in DOMAIN vid : vid[c] \in hot <=> c \in asked \/ vid[c] = 0

\* Only these cpus are ever changed, and cpu_manager_destroy visits all of them.
Settings ==
  /\ \A c \in Cpus : governor[c] = "userspace" => c \in Firsts
  /\ polling \subseteq Firsts
  /\ pc = "restore" =>
       \A k \in 0 .. i - 1 : 
         /\ governor[online[k]] # "userspace"
         /\ online[k] \in polling => online[k] \in stuck \cup unopened

\* All old values are read before the first is changed.
Boosts ==
  /\ \A p \in Packages \ {PackageOf[c] : c \in Firsts} :
       p \notin spoiled => (p \in boost <=> p \in bootBoost)
  /\ pc \in Gone \cup (Starting \ {"boostOff"}) =>
       \A p \in Packages \ spoiled : p \in boost <=> p \in bootBoost
  /\ \A k \in DOMAIN saved :
       PackageOf[online[k]] \notin spoiled =>
         (saved[k] <=> PackageOf[online[k]] \in bootBoost)
  /\ \A k \in unread : PackageOf[online[k]] \in spoiled
  /\ pc = "boostOff" => \A k \in 0 .. i - 1 : k \in DOMAIN saved
  /\ pc \in {"running"} \cup Closing => DOMAIN saved = DOMAIN online
  /\ pc = "restore" =>
       \A k \in 0 .. i - 1 :
         PackageOf[online[k]] \notin spoiled =>
           (PackageOf[online[k]] \in boost <=> PackageOf[online[k]] \in bootBoost)

\* What the theorems on some properties assume of the machine.
NarrowIds    == \A c \in Cpus : Id(c) < Width
SiblingsLast == \A c \in Firsts, d \in Cpus : d < c => d \in Firsts
BootCpuLeast == \A c \in Cpus : Id(0) <= Id(c)
=============================================================================
