-------------------------- MODULE FrequencyScaling --------------------------
(***************************************************************************)
(* Setting a core's frequency and waiting for it to be in force            *)
(* (drake_platform_set_voltage_frequency), and reading it back             *)
(* (drake_platform_get_frequency).                                         *)
(*                                                                         *)
(* A reading of the clock is the pair of seconds and nanoseconds; a second *)
(* has Second units here.  The cpu changes its frequency some time after   *)
(* the write, within the latency the kernel tells; the write may fail.     *)
(* Nothing keeps the scheduler from taking a core away for any time.  Each *)
(* core uses the files of its own cpu; the tables of all cpus are the      *)
(* same.                                                                   *)
(***************************************************************************)
EXTENDS FrequencyTable, FiniteSets

CONSTANTS
  NbCores,     \* core_size
  Second,      \* 1000000000
  Latency,     \* manager.cpufreq_latency[i]
  Gap,         \* bound: the longest time a core in a call is kept from its next step
  LastKept,    \* bound: the moment from which on none is for more than a latency
  LastStart,   \* bound: the last moment a call begins
  LastTick,    \* bound: the last moment
  MaxCalls     \* bound: calls of all cores

Cores == 0 .. NbCores - 1
Levels == 1 .. nb_freq

ASSUME CoresAssumption == NbCores \in Nat \ {0}
ASSUME LatencyAssumption ==
  /\ Second \in Nat /\ Latency \in Nat \ {0}
  /\ 2 * Latency <= Second
ASSUME BoundsAssumption ==
  /\ Gap \in Nat \ {0} /\ LastKept \in Nat
  /\ LastStart \in Nat /\ LastTick \in Nat /\ MaxCalls \in Nat

VARIABLES
  now,                 \* CLOCK_MONOTONIC, in units
  wait_after_scaling,  \* the argument
  pc,                  \* per core, where it is in a call
  target,              \* per core, the level last written to scaling_setspeed
  current,             \* per core, the level its cpu runs at
  wakeup,              \* per core, the local variable wakeup
  read_freq,           \* the eight bytes that drake_platform_get_frequency reads
  consumed,            \* the cores whose cpuinfo_cur_freq is read to its end
  i,                   \* per core, the loop variable
  got,                 \* per core, what drake_platform_get_frequency last returned
  level,               \* history: per core, the level last asked for, if its write succeeded
  wrote,               \* per core, when it wrote what its cpu has yet to do
  stamp,               \* history: per waiting core, the reading wakeup comes from
  prompt,              \* history: per waiting core, since when it has read the clock
                       \* at least once per latency
  last,                \* when a core in a call last made a step
  calls                \* bound counter

setting == <<target, wakeup, level, wrote, stamp, prompt>>
getting == <<read_freq, consumed, i, got>>
vars == <<now, wait_after_scaling, pc, current, setting, getting, last, calls>>

None == -1
NoTime == [sec |-> 0, nsec |-> 0]

\* Eight bytes hold a frequency and the character behind it: the table has the
\* end of a string there, the kernel's file the end of a line.
Bytes == Levels \X {"nul", "newline"}
TableBytes(l) == <<l, "nul">>
FileBytes(l)  == <<l, "newline">>

\* cpu_manager_init has read the files of its first two cpus once.
ReadAtInit == Cores \cap {0, 1}

Init ==
  /\ now = 0
  /\ wait_after_scaling \in BOOLEAN
  /\ pc = [c \in Cores |-> "idle"]
  /\ target = [c \in Cores |-> 1]
  /\ current = [c \in Cores |-> 1]
  /\ wakeup = [c \in Cores |-> NoTime]
  /\ read_freq \in Bytes
  /\ consumed = ReadAtInit
  /\ i = [c \in Cores |-> 0]
  /\ got = [c \in Cores |-> None]
  /\ level = [c \in Cores |-> None]
  /\ wrote = [c \in Cores |-> 0]
  /\ stamp = [c \in Cores |-> 0]
  /\ prompt = [c \in Cores |-> 0]
  /\ last = [c \in Cores |-> 0]
  /\ calls = 0

-----------------------------------------------------------------------------
(* drake_platform_set_voltage_frequency                                     *)

\* Every step of a core; times are kept for the cores in a call.
Goes(c, here, next) ==
  /\ pc[c] = here
  /\ pc' = [pc EXCEPT ![c] = next]
  /\ last' = [last EXCEPT ![c] = IF next = "idle" THEN 0 ELSE now]

\* The first step of a call.
Call(c, next) ==
  /\ Goes(c, "idle", next)
  /\ now <= LastStart
  /\ calls < MaxCalls
  /\ calls' = calls + 1

\* A step within a call.
Continues(c, here, next) == Goes(c, here, next) /\ UNCHANGED calls

\* Mutant: the index is not turned into one of an array that begins at 0.
SetFrequencyPast(c, l) ==
  /\ Call(c, IF wait_after_scaling THEN "stamp" ELSE "idle")
  /\ target' = [target EXCEPT ![c] = nb_freq - l + 1]
  /\ level' = [level EXCEPT ![c] = l]
  /\ wrote' = [wrote EXCEPT ![c] = now]
  /\ UNCHANGED <<now, wait_after_scaling, current, wakeup, stamp, prompt, getting>>

\* Writes freq[nb_freq - l - 1], of an array that begins at 0: the table
\* lists the highest frequency first and levels count from the lowest.  If
\* the write fails, that is printed and the call goes on as if it had not.
SetFrequency(c, l) ==
  /\ Call(c, IF wait_after_scaling THEN "stamp" ELSE "idle")
  /\ \/ /\ target' = [target EXCEPT ![c] = nb_freq - l]
        /\ level' = [level EXCEPT ![c] = l]
        /\ wrote' = [wrote EXCEPT ![c] = now]
     \/ /\ level' = [level EXCEPT ![c] = None]
        /\ UNCHANGED <<target, wrote>>
  /\ UNCHANGED <<now, wait_after_scaling, current, wakeup, stamp, prompt, getting>>

sec(t)  == t \div Second
nsec(t) == t % Second

\* Mutant: the deadline carries only where the nanoseconds reach a second.
WakeupExact(t) ==
  IF nsec(t) + Latency < Second
  THEN [sec |-> sec(t), nsec |-> nsec(t) + Latency]
  ELSE [sec |-> sec(t) + 1, nsec |-> nsec(t) + Latency - Second]

\* The deadline, carried over already where it falls into the last Latency
\* units of a second; its nanoseconds are then less than 0.
Wakeup(t) ==
  IF nsec(t) + Latency <= Second - Latency
  THEN [sec |-> sec(t), nsec |-> nsec(t) + Latency]
  ELSE [sec |-> sec(t) + 1, nsec |-> nsec(t) + Latency - Second]

Stamp(c) ==
  /\ Continues(c, "stamp", "poll")
  /\ wakeup' = [wakeup EXCEPT ![c] = Wakeup(now)]
  /\ stamp' = [stamp EXCEPT ![c] = now]
  /\ prompt' = [prompt EXCEPT ![c] = now]
  /\ UNCHANGED <<now, wait_after_scaling, current, target, level, wrote, getting>>

\* Mutant: only the seconds are compared.
WaitingSeconds(t, w) == sec(t) < w.sec

\* Mutant: the deadline's second is taken for the one in which to go on.
WaitingOtherSecond(t, w) == sec(t) # w.sec \/ nsec(t) < w.nsec

\* The condition of the loop.
Waiting(t, w) == sec(t) < w.sec \/ nsec(t) < w.nsec

\* Core c has gone without a step for longer than the latency.
Kept(c) == now > last[c] + Latency

Poll(c) ==
  LET again == Waiting(now, wakeup[c])
  IN  /\ Continues(c, "poll", IF again THEN "poll" ELSE "idle")
      /\ wakeup' = [wakeup EXCEPT ![c] = IF again THEN @ ELSE NoTime]
      /\ stamp' = [stamp EXCEPT ![c] = IF again THEN @ ELSE 0]
      /\ prompt' = [prompt EXCEPT ![c] = IF ~again THEN 0 ELSE IF Kept(c) THEN now ELSE @]
      /\ UNCHANGED <<now, wait_after_scaling, current, target, level, wrote, getting>>

-----------------------------------------------------------------------------
(* drake_platform_get_frequency                                             *)

\* Reads eight bytes where the last read of the file ended: a second read is
\* at the end of the file and leaves read_freq as it is.
ReadCurrent(c) ==
  /\ Call(c, "compare")
  /\ read_freq' = IF c \in consumed THEN read_freq ELSE FileBytes(current[c])
  /\ consumed' = consumed \cup {c}
  /\ UNCHANGED <<now, wait_after_scaling, current, setting, i, got>>

\* One turn of the loop over the table, or the return of i after it.
Compare(c) ==
  LET found == i[c] = nb_freq \/ read_freq = TableBytes(i[c] + 1)
  IN  /\ Continues(c, "compare", IF found THEN "idle" ELSE "compare")
      /\ i' = [i EXCEPT ![c] = IF found THEN 0 ELSE @ + 1]
      /\ got' = [got EXCEPT ![c] = IF found THEN i[c] ELSE @]
      /\ UNCHANGED <<now, wait_after_scaling, current, setting, read_freq, consumed>>

-----------------------------------------------------------------------------
(* The machine.                                                             *)

\* The cpu changes to the frequency it was told.
Switch(c) ==
  /\ current[c] # target[c]
  /\ current' = [current EXCEPT ![c] = target[c]]
  /\ wrote' = [wrote EXCEPT ![c] = 0]
  /\ UNCHANGED <<now, wait_after_scaling, pc, target, wakeup, level, stamp, prompt, getting,
                 last, calls>>

\* Time passes, but a cpu has switched before its latency is over, and no core
\* in a call is kept from its next step for longer than the bounds allow.
Tick ==
  /\ \A c \in Cores : current[c] # target[c] => now + 1 < wrote[c] + Latency
  /\ \A c \in Cores : pc[c] # "idle" =>
       now < last[c] + (IF now < LastKept THEN Gap ELSE Latency)
  /\ now <= LastStart \/ \E c \in Cores : pc[c] # "idle"
  /\ now < LastTick
  /\ now' = now + 1
  /\ UNCHANGED <<wait_after_scaling, pc, current, setting, getting, last, calls>>

Step(c) == Stamp(c) \/ Poll(c) \/ Compare(c)

\* No call is under way and none begins any more.
Stopped ==
  /\ now > LastStart
  /\ \A c \in Cores : pc[c] = "idle"
  /\ UNCHANGED vars

Next ==
  \/ \E c \in Cores : (\E l \in 0 .. nb_freq - 1 : SetFrequency(c, l)) \/ ReadCurrent(c)
  \/ \E c \in Cores : Step(c)
  \/ \E c \in Cores : Switch(c)
  \/ Tick
  \/ Stopped

Spec == Init /\ [][Next]_vars

\* Threads run, cpus switch and time passes; no call need be made.
Fairness == WF_vars(Tick) /\ \A c \in Cores : WF_vars(Step(c)) /\ WF_vars(Switch(c))
FairSpec == Spec /\ Fairness

-----------------------------------------------------------------------------
(* What the steps keep of the times, for the proofs.                        *)

SwitchPending ==
  \A c \in Cores : current[c] # target[c] => now < wrote[c] + Latency

\* A core that polls was told to wait by its last reading.  Since it was last
\* kept away it has not passed the end of a second: the loop lets it go before.
Polling(c) ==
  /\ wakeup[c] = Wakeup(stamp[c])
  /\ wrote[c] <= stamp[c] /\ stamp[c] <= prompt[c] /\ prompt[c] <= last[c]
  /\ Waiting(last[c], wakeup[c])
  /\ IF prompt[c] = stamp[c]
     THEN last[c] < stamp[c] + 2 * Latency
     ELSE stamp[c] + Latency < prompt[c] /\ sec(last[c]) = sec(prompt[c])

Times ==
  \A c \in Cores :
    /\ wrote[c] <= now
    /\ pc[c] # "idle" => last[c] <= now
    /\ pc[c] = "poll" => Polling(c)

\* The level asked for tells the place of the table that was written.
Mirrored ==
  \A c \in Cores : level[c] # None =>
    level[c] \in 0 .. nb_freq - 1 /\ target[c] = nb_freq - level[c]

-----------------------------------------------------------------------------
(* Properties.                                                              *)

\* Every variable keeps its type; a wakeup time may lie before its second.
TypeOK ==
  /\ now \in Nat
  /\ wait_after_scaling \in BOOLEAN
  /\ pc \in [Cores -> {"idle", "stamp", "poll", "compare"}]
  /\ target \in [Cores -> Levels] /\ current \in [Cores -> Levels]
  /\ wakeup \in [Cores -> [sec : Nat, nsec : Int]]
  /\ \A c \in Cores : -Latency < wakeup[c].nsec /\ wakeup[c].nsec < Second
  /\ read_freq \in Bytes
  /\ consumed \subseteq Cores
  /\ i \in [Cores -> 0 .. nb_freq]
  /\ got \in [Cores -> 0 .. nb_freq \cup {None}]
  /\ level \in [Cores -> 0 .. nb_freq - 1 \cup {None}]
  /\ wrote \in [Cores -> Nat] /\ stamp \in [Cores -> Nat]
  /\ prompt \in [Cores -> Nat] /\ last \in [Cores -> Nat]
  /\ calls \in 0 .. MaxCalls

\* "Wait for frequency switching delay": when the call has returned, the cpu
\* runs at the level that was asked for, unless the kernel refused the write.
ScaledOnReturn ==
  wait_after_scaling =>
    \A c \in Cores : pc[c] \in {"idle", "compare"} /\ level[c] # None =>
      current[c] = nb_freq - level[c]

\* The loop compares seconds and nanoseconds apart, so a core that is kept from
\* the clock may miss the rest of the second in which it could go.  One that
\* reads the clock at least once per latency does not wait longer than thrice
\* the latency; one that was kept from it, from its next reading on, not for
\* a second.
NotMuchLate ==
  \A c \in Cores : pc[c] = "poll" /\ ~Kept(c) =>
    now < IF prompt[c] = stamp[c] THEN stamp[c] + 3 * Latency ELSE prompt[c] + Second

\* The level asked for is the number of lower frequencies the kernel offers.
LevelsByRank ==
  \A c \in Cores : level[c] # None =>
    Cardinality({f \in Frequencies : f < Frequency(target[c])}) = level[c]

\* Every call that sets a frequency returns, unless its core is kept from the
\* clock again and again.
WaitEnds ==
  \A c \in Cores : pc[c] \in {"stamp", "poll"} ~> pc[c] = "idle" \/ Kept(c)
=============================================================================
