------------------------- MODULE PowerTrackerProofs -------------------------
(***************************************************************************)
(* PowerTracker for every number of packages, cpus and cores: types, what  *)
(* a measurement is made of, and, for a program that switches no core      *)
(* during a reading, what the readings leave of the hotplug files.         *)
(***************************************************************************)
EXTENDS PowerTracker, TLAPS

LEMMA TypeInit == Init => TypeOK
<1> SUFFICES ASSUME Init PROVE TypeOK
  OBVIOUS
<1>1. node \in 0 .. NbNodes
  BY NodesAssumption DEF Init
<1>2. reading \in [{"begin", "end"} -> [Nodes -> Nat]] /\ atCall \in [{"begin", "end"} -> Nat]
  BY DEF Init
<1> QED BY <1>1, <1>2 DEF Init, TypeOK, ThreadLocations, ProgramLocations, Sampling

LEMMA TypeStep ==
  ASSUME TypeOK, Tokens, Next
  PROVE  TypeOK'
<1> USE NodesAssumption, CpusAssumption
    DEF TypeOK, Tokens, hardware, thread, program, ThreadGoes, ProgramGoes, Freed, Wait,
        ThreadLocations, ProgramLocations, Sampling, Nodes
<1>0. CASE UseFreed
  BY <1>0 DEF UseFreed
<1>1. CASE SetUp
  BY <1>1 DEF SetUp
<1>2. CASE AwaitBegin
  BY <1>2 DEF AwaitBegin
<1>3. CASE Probe
  BY <1>3 DEF Probe
<1>4. CASE Wake
  BY <1>4 DEF Wake
<1>5. CASE Read
  <2>1. node \in Nodes /\ reading' = [reading EXCEPT !["begin"][node] = work]
    BY <1>5 DEF Read
  <2>2. reading' \in [{"begin", "end"} -> [Nodes -> Nat]]
    BY <2>1
  <2>3. tpc' \in ThreadLocations
    BY <1>5 DEF Read, AfterNode
  <2>4. node' \in 0 .. NbNodes
    BY <1>5 DEF Read
  <2> QED BY <1>5, <2>2, <2>3, <2>4 DEF Read
<1>6. CASE Restore
  BY <1>6 DEF Restore, AfterNode
<1>7. CASE AwaitEnd
  BY <1>7 DEF AwaitEnd
<1>8. CASE WakeAll
  BY <1>8 DEF WakeAll
<1>9. CASE ReadAll
  <2>1. node \in Nodes /\ reading' = [reading EXCEPT !["end"][node] = work]
    BY <1>9 DEF ReadAll
  <2>2. reading' \in [{"begin", "end"} -> [Nodes -> Nat]]
    BY <2>1
  <2> QED BY <1>9, <2>2 DEF ReadAll
<1>10. CASE PowerInit
  BY <1>10 DEF PowerInit
<1>11. CASE PowerBegin
  BY <1>11 DEF PowerBegin
<1>12. CASE PowerEnd
  BY <1>12 DEF PowerEnd
<1>13. CASE Joined
  BY <1>13 DEF Joined
<1>14. CASE PowerDestroy
  BY <1>14 DEF PowerDestroy
<1>15. CASE Work
  BY <1>15 DEF Work
<1>16. ASSUME NEW c \in Cores, NEW on \in BOOLEAN, SwitchCore(c, on)
       PROVE  TypeOK'
  BY <1>16, CoresAssumption DEF SwitchCore
<1>17. CASE Stopped
  BY <1>17 DEF Stopped, vars
<1> QED BY <1>0, <1>1, <1>2, <1>3, <1>4, <1>5, <1>6, <1>7, <1>8, <1>9, <1>10,
           <1>11, <1>12, <1>13, <1>14, <1>15, <1>16, <1>17 DEF Next, Thread, Program

(* The tokens of run, posted by the program and taken by the thread.        *)
LEMMA TokensStep ==
  ASSUME TypeOK, Tokens, Next
  PROVE  Tokens'
<1> USE NodesAssumption
    DEF TypeOK, Tokens, Posts, Takes, hardware, thread, program, ThreadGoes,
        ProgramGoes, Sampling, InFirstLoop, Sleeper, Freed, Wait
<1>0. CASE UseFreed
  BY <1>0 DEF UseFreed
<1>1. CASE SetUp
  BY <1>1 DEF SetUp
<1>2. CASE AwaitBegin
  BY <1>2 DEF AwaitBegin
<1>3. CASE Probe
  BY <1>3 DEF Probe
<1>4. CASE Wake
  BY <1>4 DEF Wake
<1>5. CASE Read
  BY <1>5 DEF Read, AfterNode
<1>6. CASE Restore
  BY <1>6 DEF Restore, AfterNode
<1>7. CASE AwaitEnd
  BY <1>7 DEF AwaitEnd
<1>8. CASE WakeAll
  BY <1>8 DEF WakeAll
<1>9. CASE ReadAll
  BY <1>9 DEF ReadAll
<1>10. CASE PowerInit
  BY <1>10 DEF PowerInit
<1>11. CASE PowerBegin
  BY <1>11 DEF PowerBegin
<1>12. CASE PowerEnd
  BY <1>12 DEF PowerEnd
<1>13. CASE Joined
  BY <1>13 DEF Joined
<1>14. CASE PowerDestroy
  BY <1>14 DEF PowerDestroy
<1>15. CASE Work
  BY <1>15 DEF Work
<1>16. ASSUME NEW c \in Cores, NEW on \in BOOLEAN, SwitchCore(c, on)
       PROVE  Tokens'
  BY <1>16 DEF SwitchCore
<1>17. CASE Stopped
  BY <1>17 DEF Stopped, vars
<1> QED BY <1>0, <1>1, <1>2, <1>3, <1>4, <1>5, <1>6, <1>7, <1>8, <1>9, <1>10,
           <1>11, <1>12, <1>13, <1>14, <1>15, <1>16, <1>17 DEF Next, Thread, Program

LEMMA Basics == Spec => [](TypeOK /\ Tokens)
<1>1. Init => Tokens
  BY DEF Init, Tokens, Freed, Posts, Takes, Sampling, InFirstLoop
<1>2. TypeOK /\ Tokens /\ [Next]_vars => TypeOK' /\ Tokens'
  <2>1. CASE UNCHANGED vars
    BY <2>1 DEF vars, TypeOK, Tokens, Freed, Posts, Takes
  <2> QED BY <2>1, TypeStep, TokensStep
<1> QED BY <1>1, <1>2, TypeInit, PTL DEF Spec

(* Every variable keeps its type; run never goes below zero (the waits at   *)
(* lines 1248 and 1300, the posts at 1395 and 1401).                        *)
THEOREM TypeCorrect == Spec => []TypeOK
  BY Basics, PTL

-----------------------------------------------------------------------------
(* What a measurement is made of.                                           *)

LEMMA ReadingsStep ==
  ASSUME TypeOK, Tokens, Readings, Next
  PROVE  Readings'
<1> USE NodesAssumption
    DEF TypeOK, Tokens, Posts, Takes, Readings, hardware, thread, program,
        ThreadGoes, ProgramGoes, Sampling, InFirstLoop, Freed, Wait
<1>0. CASE UseFreed
  BY <1>0 DEF UseFreed
<1>1. CASE SetUp
  BY <1>1 DEF SetUp
<1>2. CASE AwaitBegin
  BY <1>2 DEF AwaitBegin, Nodes
<1>3. CASE Probe
  BY <1>3 DEF Probe
<1>4. CASE Wake
  BY <1>4 DEF Wake
<1>5. CASE Read
  <2>1. node \in Nodes /\ \A n \in Nodes : n < node + 1 <=> n < node \/ n = node
    BY <1>5 DEF Read, Nodes
  <2>2. /\ \A n \in Nodes : reading'["begin"][n] = IF n = node THEN work ELSE reading["begin"][n]
        /\ reading'["end"] = reading["end"]
    BY <1>5, <2>1 DEF Read
  <2>4. node + 1 = NbNodes => \A n \in Nodes : n < node + 1
    BY <2>1 DEF Nodes
  <2> QED BY <1>5, <2>1, <2>2, <2>4 DEF Read, AfterNode
<1>6. CASE Restore
  <2>1. node \in Nodes /\ \A n \in Nodes : n < node + 1 <=> n <= node
    BY <1>6 DEF Restore, Nodes
  <2>2. node + 1 = NbNodes => \A n \in Nodes : n <= node
    BY <2>1 DEF Nodes
  <2> QED BY <1>6, <2>1, <2>2 DEF Restore, AfterNode
<1>7. CASE AwaitEnd
  BY <1>7 DEF AwaitEnd
<1>8. CASE WakeAll
  BY <1>8 DEF WakeAll, Nodes
<1>9. CASE ReadAll
  <2>1. node \in Nodes /\ \A n \in Nodes : n < node + 1 <=> n < node \/ n = node
    BY <1>9 DEF ReadAll, Nodes
  <2>2. /\ \A n \in Nodes : reading'["end"][n] = IF n = node THEN work ELSE reading["end"][n]
        /\ reading'["begin"] = reading["begin"]
    BY <1>9, <2>1 DEF ReadAll
  <2>3. Freed \/ cpc = "joining"
    BY <1>9 DEF ReadAll, ProgramLocations
  <2>4. node + 1 = NbNodes => \A n \in Nodes : n < node + 1
    BY <2>1 DEF Nodes
  <2> QED BY <1>9, <2>1, <2>2, <2>3, <2>4 DEF ReadAll
<1>10. CASE PowerInit
  BY <1>10 DEF PowerInit
<1>11. CASE PowerBegin
  BY <1>11 DEF PowerBegin
<1>12. CASE PowerEnd
  BY <1>12 DEF PowerEnd
<1>13. CASE Joined
  BY <1>13 DEF Joined
<1>14. CASE PowerDestroy
  BY <1>14 DEF PowerDestroy
<1>15. CASE Work
  BY <1>15 DEF Work
<1>16. ASSUME NEW c \in Cores, NEW on \in BOOLEAN, SwitchCore(c, on)
       PROVE  Readings'
  BY <1>16 DEF SwitchCore
<1>17. CASE Stopped
  BY <1>17 DEF Stopped, vars
<1> QED BY <1>0, <1>1, <1>2, <1>3, <1>4, <1>5, <1>6, <1>7, <1>8, <1>9, <1>10,
           <1>11, <1>12, <1>13, <1>14, <1>15, <1>16, <1>17 DEF Next, Thread, Program

(* What power_end returns is made of one reading of every package after the *)
(* call of power_begin and one after that of power_end, whatever else the   *)
(* program does meanwhile (measure_power, lines 1224-1359, with 1392-1405). *)
THEOREM MeasuresCalls == Spec => []MeasuredWithinCalls
<1>1. Init => Readings
  BY DEF Init, Readings
<1>2. TypeOK /\ Tokens /\ Readings /\ [Next]_vars => Readings'
  <2>1. CASE UNCHANGED vars
    BY <2>1 DEF vars, Readings, Freed
  <2> QED BY <2>1, ReadingsStep
<1>3. TypeOK /\ Tokens /\ Readings => MeasuredWithinCalls
  BY DEF Tokens, Readings, Freed, MeasuredWithinCalls
<1> QED BY <1>1, <1>2, <1>3, Basics, PTL DEF Spec

-----------------------------------------------------------------------------
(* What the readings do to the hotplug files, if the program switches no    *)
(* core while one is taken.                                                 *)

(* Files that say the same of every cpu are the same.                       *)
LEMMA SameFiles ==
  ASSUME NEW f \in [Cpus -> BOOLEAN], NEW g \in [Cpus -> BOOLEAN],
         \A c \in Cpus : f[c] <=> g[c]
  PROVE  f = g
<1>1. ASSUME NEW c \in Cpus
      PROVE  f[c] = g[c]
  <2>1. f[c] \in BOOLEAN /\ g[c] \in BOOLEAN /\ (f[c] <=> g[c])
    OBVIOUS
  <2>2. CASE f[c] = TRUE /\ g[c] = TRUE
    BY <2>2
  <2>3. CASE f[c] = FALSE /\ g[c] = FALSE
    BY <2>3
  <2> QED BY <2>1, <2>2, <2>3
<1> QED BY <1>1

LEMMA AwakenedStep ==
  ASSUME ~SwitchesAnyTime, TypeOK, Tokens, Awakened, Next
  PROVE  Awakened'
<1> USE NodesAssumption, CpusAssumption
    DEF TypeOK, Tokens, Awakened, CoresKept, Sleeper, hardware, thread, program,
        ThreadGoes, ProgramGoes, Sampling, Freed, Wait
<1>0. CASE UseFreed
  BY <1>0 DEF UseFreed
<1>1. CASE SetUp
  BY <1>1 DEF SetUp
<1>2. CASE AwaitBegin
  BY <1>2 DEF AwaitBegin, Nodes
<1>3. CASE Probe
  BY <1>3 DEF Probe, Nodes
<1>4. CASE Wake
  BY <1>4 DEF Wake, Nodes
<1>5. CASE Read
  <2>1. node \in Nodes
    BY <1>5 DEF Read, Nodes
  <2>2. CASE Sleeper(node)
    BY <1>5, <2>1, <2>2 DEF Read
  <2>3. CASE ~Sleeper(node)
    <3>1. hot = wanted
      <4>1. \A c \in Cpus : hot[c] <=> wanted[c]
        BY <1>5, <2>3 DEF Read
      <4> QED BY <4>1, SameFiles
    <3>2. tpc' \in {"waitEnd", "probe", "read"}
      BY <1>5, <2>3 DEF Read, AfterNode
    <3>3. tpc' = "read" => FirstOf[node'] = 0
      BY <1>5, <2>3 DEF Read, AfterNode
    <3> QED BY <1>5, <3>1, <3>2, <3>3 DEF Read
  <2> QED BY <2>2, <2>3
<1>6. CASE Restore
  <2>1. node \in Nodes /\ FirstOf[node] \in Cpus /\ FirstOf[node] # 0
    BY <1>6 DEF Restore, Nodes
  <2>2. hot' = wanted /\ wanted' = wanted
    <3>1. pkgOff <=> ~wanted[FirstOf[node]]
      BY <1>6 DEF Restore
    <3>2. \A c \in Cpus : c # FirstOf[node] => (hot[c] <=> wanted[c])
      BY <1>6 DEF Restore
    <3>3. hot[FirstOf[node]]
      BY <1>6 DEF Restore
    <3>4. hot' = [hot EXCEPT ![FirstOf[node]] = hot[FirstOf[node]] /\ ~pkgOff]
      BY <1>6 DEF Restore
    <3>5. hot'[FirstOf[node]] <=> ~pkgOff
      BY <2>1, <3>3, <3>4
    <3>6. \A c \in Cpus : c # FirstOf[node] => hot'[c] = hot[c]
      BY <3>4
    <3>7. \A c \in Cpus : hot'[c] <=> wanted[c]
      BY <3>1, <3>2, <3>5, <3>6
    <3>8. hot' \in [Cpus -> BOOLEAN]
      BY <3>4
    <3> QED BY <1>6, <3>7, <3>8, SameFiles DEF Restore
  <2>3. tpc' \in {"waitEnd", "probe", "read"}
    BY <1>6 DEF Restore, AfterNode
  <2>4. tpc' = "read" => FirstOf[node'] = 0
    BY <1>6 DEF Restore, AfterNode
  <2> QED BY <2>1, <2>2, <2>3, <2>4
<1>7. CASE AwaitEnd
  BY <1>7 DEF AwaitEnd, Nodes
<1>8. CASE WakeAll
  <2>1. node \in Nodes /\ FirstOf[node] \in Cpus
    BY <1>8 DEF WakeAll, Nodes
  <2>2. hot' = [hot EXCEPT ![FirstOf[node]] = hot[FirstOf[node]] \/ FirstOf[node] # 0]
    BY <1>8 DEF WakeAll
  <2>3. hot'[FirstOf[node]] /\ \A c \in Cpus : hot[c] => hot'[c]
    BY <2>1, <2>2
  <2>4. \A n \in Nodes : n < node + 1 <=> n < node \/ n = node
    BY <2>1 DEF Nodes
  <2>5. \A n \in Nodes : n < node + 1 => hot'[FirstOf[n]]
    BY <1>8, <2>3, <2>4 DEF WakeAll
  <2>6. node + 1 = NbNodes => \A n \in Nodes : n < node + 1
    BY <2>1 DEF Nodes
  <2> QED BY <1>8, <2>3, <2>5, <2>6 DEF WakeAll
<1>9. CASE ReadAll
  BY <1>9 DEF ReadAll
<1>10. CASE PowerInit
  <2>1. tpc \in {"none", "setup", "waitBegin", "aborted"}
    BY <1>10 DEF PowerInit, Posts, Takes, InFirstLoop, ThreadLocations, Freed
  <2> QED BY <1>10, <2>1 DEF PowerInit, Alive
<1>11. CASE PowerBegin
  BY <1>11 DEF PowerBegin
<1>12. CASE PowerEnd
  BY <1>12 DEF PowerEnd
<1>13. CASE Joined
  BY <1>13 DEF Joined
<1>14. CASE PowerDestroy
  BY <1>14 DEF PowerDestroy
<1>15. CASE Work
  BY <1>15 DEF Work
<1>16. ASSUME NEW c \in Cores, NEW on \in BOOLEAN, SwitchCore(c, on)
       PROVE  Awakened'
  BY <1>16, CoresAssumption DEF SwitchCore, MaySwitch
<1>17. CASE Stopped
  BY <1>17 DEF Stopped, vars
<1> QED BY <1>0, <1>1, <1>2, <1>3, <1>4, <1>5, <1>6, <1>7, <1>8, <1>9, <1>10,
           <1>11, <1>12, <1>13, <1>14, <1>15, <1>16, <1>17 DEF Next, Thread, Program

LEMMA Awakens ==
  ASSUME ~SwitchesAnyTime
  PROVE  Spec => [](TypeOK /\ Tokens /\ Awakened)
<1>1. Init => Awakened
  BY CpusAssumption, CoresAssumption DEF Init, Awakened
<1>2. TypeOK /\ Tokens /\ Awakened /\ [Next]_vars => Awakened'
  <2>1. CASE UNCHANGED vars
    BY <2>1 DEF vars, Awakened, CoresKept
  <2> QED BY <2>1, AwakenedStep
<1> QED BY <1>1, <1>2, Basics, PTL DEF Spec

(* A reading never leaves off, nor finds off, a cpu that drake wants on     *)
(* (lines 1260-1292 and 1303-1312).                                         *)
THEOREM KeepsCores ==
  ASSUME ~SwitchesAnyTime
  PROVE  Spec => []CoresKept
<1>1. TypeOK /\ Tokens /\ Awakened => CoresKept
  BY DEF TypeOK, Tokens, Awakened, CoresKept, ThreadLocations, Sampling
<1> QED BY <1>1, Awakens, PTL

(* After the first reading every cpu is as it was before ("Switch of        *)
(* measurement core if not used by drake", line 1287).                      *)
THEOREM WokenBack ==
  ASSUME ~SwitchesAnyTime
  PROVE  Spec => []WokenGoBack
<1>1. Awakened => WokenGoBack
  BY DEF Awakened, WokenGoBack
<1> QED BY <1>1, Awakens, PTL

(* A package's counter is read only while the package's first cpu is on     *)
(* ("Switch on measurement core, if necessary", line 1262).                 *)
THEOREM AwakeReads ==
  ASSUME ~SwitchesAnyTime
  PROVE  Spec => []ReadsAwake
<1>1. TypeOK /\ Tokens /\ Awakened => ReadsAwake
  BY NodesAssumption DEF TypeOK, Tokens, Awakened, ReadsAwake, Sampling, Nodes
<1> QED BY <1>1, Awakens, PTL

-----------------------------------------------------------------------------
(* Why power_end returns: the thread has a bounded number of steps before   *)
(* it, none of them goes back, and while the program waits for the thread   *)
(* to end, the thread waits for nothing.                                    *)

\* The steps of the thread that are still to come, one turn of a loop after
\* another.
StepsLeft ==
  CASE tpc \in {"none", "done", "aborted"} -> 0
    [] tpc = "readAll"   -> NbNodes - node
    [] tpc = "wakeAll"   -> 2 * NbNodes - node
    [] tpc = "waitEnd"   -> 2 * NbNodes + 1
    [] tpc = "restore"   -> 6 * NbNodes - 4 * node - 2
    [] tpc = "read"      -> 6 * NbNodes - 4 * node - 1
    [] tpc = "wake"      -> 6 * NbNodes - 4 * node
    [] tpc = "probe"     -> 6 * NbNodes - 4 * node + 1
    [] tpc = "waitBegin" -> 6 * NbNodes + 2
    [] tpc = "setup"     -> 6 * NbNodes + 3

MeasurementBounded == 0 <= StepsLeft /\ StepsLeft <= 6 * NbNodes + 3

\* A step of the thread leaves fewer to come, and but for the creation of the
\* thread no other step changes how many.
ThreadForward ==
  [][ /\ Thread => StepsLeft' < StepsLeft
      /\ StepsLeft' # StepsLeft => Thread \/ PowerInit ]_vars

\* Both tokens of run are there, or taken, when the program joins the thread.
JoinFed ==
  cpc = "joining" =>
    /\ tpc # "none"
    /\ tpc \in {"waitBegin", "waitEnd"} => run > 0

(* A measurement takes at most 6 * NbNodes + 3 steps (measure_power, lines  *)
(* 1224-1359).                                                              *)
THEOREM BoundedMeasurement == Spec => []MeasurementBounded
<1>1. TypeOK /\ Tokens => MeasurementBounded
  <2> SUFFICES ASSUME TypeOK, Tokens PROVE MeasurementBounded
    OBVIOUS
  <2>1. NbNodes \in Nat \ {0} /\ node \in 0 .. NbNodes
        /\ (tpc \in Sampling => node < NbNodes) /\ tpc \in ThreadLocations
    BY NodesAssumption DEF TypeOK, Tokens
  <2> QED BY <2>1 DEF MeasurementBounded, StepsLeft, Sampling, ThreadLocations
<1> QED BY <1>1, Basics, PTL

LEMMA ThreadStep ==
  ASSUME TypeOK, Tokens, Thread
  PROVE  StepsLeft' < StepsLeft
<1> USE DEF StepsLeft, ThreadGoes
<1>1. NbNodes \in Nat \ {0} /\ node \in 0 .. NbNodes
      /\ (tpc \in Sampling => node < NbNodes)
  BY NodesAssumption DEF TypeOK, Tokens
<1>0. CASE UseFreed
  BY <1>0, <1>1 DEF UseFreed, TypeOK, Tokens, Sampling, ThreadLocations, Freed, Posts, Takes
<1>2. CASE SetUp
  BY <1>1, <1>2 DEF SetUp
<1>3. CASE AwaitBegin
  BY <1>1, <1>3 DEF AwaitBegin
<1>4. CASE Probe
  BY <1>1, <1>4 DEF Probe
<1>5. CASE Wake
  BY <1>1, <1>5 DEF Wake
<1>6. CASE Read
  BY <1>1, <1>6 DEF Read, AfterNode, Sampling
<1>7. CASE Restore
  BY <1>1, <1>7 DEF Restore, AfterNode, Sampling
<1>8. CASE AwaitEnd
  BY <1>1, <1>8 DEF AwaitEnd
<1>9. CASE WakeAll
  BY <1>1, <1>9 DEF WakeAll, Sampling
<1>10. CASE ReadAll
  BY <1>1, <1>10 DEF ReadAll, Sampling
<1> QED BY <1>0, <1>2, <1>3, <1>4, <1>5, <1>6, <1>7, <1>8, <1>9, <1>10 DEF Thread

(* The loops of measure_power go on from node to node and never back        *)
(* (lines 1260-1342), whatever the program does meanwhile.                  *)
THEOREM ForwardOnly == Spec => ThreadForward
<1>1. TypeOK /\ Tokens /\ [Next]_vars =>
        [ /\ Thread => StepsLeft' < StepsLeft
          /\ StepsLeft' # StepsLeft => Thread \/ PowerInit ]_vars
  <2> SUFFICES ASSUME TypeOK, Tokens, [Next]_vars, ~Thread, ~PowerInit
               PROVE  UNCHANGED <<tpc, node>>
    BY ThreadStep DEF StepsLeft
  <2> QED BY DEF Next, Program, PowerBegin, PowerEnd, Joined, PowerDestroy, Work,
                SwitchCore, Stopped, thread, vars
<1> QED BY <1>1, Basics, PTL DEF Spec, ThreadForward

(* pthread_join in drake_platform_power_end (1402) waits for a thread that  *)
(* finds both posts of run (1395, 1401) and so waits for nobody.            *)
THEOREM FedWhenJoined == Spec => []JoinFed
<1> DEFINE Created == cpc \notin {"start", "failed"} => tpc # "none"
<1>1. Init => Created
  BY DEF Init
<1>2. TypeOK /\ Created /\ [Next]_vars => Created'
  BY DEF TypeOK, Next, Thread, UseFreed, SetUp, AwaitBegin, Probe, Wake, Read, Restore, AwaitEnd,
     WakeAll, ReadAll, AfterNode, ThreadGoes, Program, ProgramGoes, PowerInit,
     PowerBegin, PowerEnd, Joined, PowerDestroy, Work, SwitchCore, Stopped, thread,
     program, vars
<1>3. TypeOK /\ Tokens /\ Created => JoinFed
  BY DEF TypeOK, Tokens, Posts, Takes, InFirstLoop, Freed, JoinFed
<1> QED BY <1>1, <1>2, <1>3, Basics, PTL DEF Spec
=============================================================================
