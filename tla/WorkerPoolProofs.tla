-------------------------- MODULE WorkerPoolProofs --------------------------
(***************************************************************************)
(* WorkerPool, for every number of workers and of orders: the inductive    *)
(* invariant IInv, the safety properties that follow from it, and the      *)
(* refinement of PhaseOrders.                                              *)
(***************************************************************************)
EXTENDS WorkerPool, FiniteSetTheorems, TLAPS

(* Core 0, which talks to the callers, is a worker. *)
LEMMA CoreZero == 0 \in Workers
  BY CoreSizeAssumption DEF Workers

(* The barrier opens exactly when the worker that comes is the last one     *)
(* missing: its count is the number of workers.                             *)
LEMMA LastArrival ==
  ASSUME NEW S \in SUBSET Workers
  PROVE  Cardinality(S) = CoreSize <=> S = Workers
<1>1. IsFiniteSet(Workers) /\ Cardinality(Workers) = CoreSize
  BY CoreSizeAssumption, FS_Interval DEF Workers
<1>2. S # Workers => Cardinality(S) # CoreSize
  BY <1>1, FS_Subset
<1> QED BY <1>1, <1>2

(* What an arrival does to the barrier, without counting. *)
LEMMA ArriveEffect ==
  ASSUME blocked \subseteq Workers, NEW w \in Workers, Arrive(w)
  PROVE  \/ blocked \cup {w} = Workers /\ blocked' = {}
         \/ blocked \cup {w} # Workers /\ blocked' = blocked \cup {w}
<1>1. blocked \cup {w} \in SUBSET Workers
  OBVIOUS
<1> QED BY <1>1, LastArrival DEF Arrive

-----------------------------------------------------------------------------
(* Types.                                                                   *)

LEMMA TypeInit == Init => TypeOK
<1> SUFFICES ASSUME Init PROVE TypeOK
  OBVIOUS
<1>1. wpc \in [Workers -> WorkerLocations]
  BY DEF Init, WorkerLocations
<1>2. /\ cpc \in [Callers -> MainLocations \cup RunnerLocations]
      /\ cpc["main"] \in MainLocations
      /\ cpc["runner"] \in RunnerLocations
  BY DEF Init, FirstCall, Callers, MainLocations, RunnerLocations
<1>3. idx \in [Callers -> 0 .. CoreSize]
  BY CoreSizeAssumption DEF Init
<1> QED BY <1>1, <1>2, <1>3 DEF Init, TypeOK

LEMMA TypeWorker ==
  ASSUME TypeOK, NEW w \in Workers, Worker(w) \/ Abort(w)
  PROVE  TypeOK'
<1> USE DEF TypeOK, WorkerLocations, MainLocations, RunnerLocations, Callers,
            At, Released, Goto, EnterGate, Silent, callerVars, workerVars, NoOrder
<1>1. CASE Allocate(w)
  BY <1>1, ArriveEffect DEF Allocate
<1>2. CASE NotifyStarted(w)
  BY <1>2 DEF NotifyStarted
<1>3. CASE EnterStart(w)
  BY <1>3, ArriveEffect DEF EnterStart
<1>4. CASE InitArenas(w)
  BY <1>4 DEF InitArenas
<1>5. CASE TakeOrder(w)
  BY <1>5 DEF TakeOrder
<1>6. CASE EnterOrder(w)
  BY <1>6, ArriveEffect DEF EnterOrder
<1>7. CASE ReadPhase(w)
  BY <1>7 DEF ReadPhase
<1>8. CASE Execute(w)
  <2>1. success' \in [Workers -> BOOLEAN]
    <3>1. PICK ok \in Results(task[w]) : success' = [success EXCEPT ![w] = ok]
      BY <1>8 DEF Execute
    <3>2. ok \in BOOLEAN
      BY DEF Results
    <3> QED BY <3>1, <3>2
  <2> QED BY <1>8, <2>1 DEF Execute
<1>9. CASE EnterDone(w)
  BY <1>9, ArriveEffect DEF EnterDone
<1>10. CASE EnterRelease(w)
  BY <1>10, ArriveEffect DEF EnterRelease
<1>11. CASE Report(w)
  BY <1>11 DEF Report
<1>12. CASE EndRound(w)
  BY <1>12 DEF EndRound
<1>13. CASE Cleanup(w)
  BY <1>13 DEF Cleanup
<1>14. CASE Abort(w)
  BY <1>14 DEF Abort
<1> QED BY <1>1, <1>2, <1>3, <1>4, <1>5, <1>6, <1>7, <1>8, <1>9, <1>10, <1>11,
           <1>12, <1>13, <1>14 DEF Worker

LEMMA TypeCaller ==
  ASSUME TypeOK, InCall \/ NewCall
  PROVE  TypeOK'
<1> USE DEF TypeOK, WorkerLocations, MainLocations, RunnerLocations, Callers,
            Goes, workerVars, NoOrder
<1>1. CASE PlatformReady
  BY <1>1 DEF PlatformReady
<1>2. CASE RunnerOrders
  BY <1>2 DEF RunnerOrders, Phases
<1>3. CASE Return
  BY <1>3 DEF Return
<1>4. CASE RunnerExits
  BY <1>4 DEF RunnerExits
<1>5. CASE Join
  BY <1>5 DEF Join
<1>6. ASSUME NEW t \in Callers, Post(t)
      PROVE  TypeOK'
  BY <1>6 DEF Post
<1>7. ASSUME NEW t \in Callers, AwaitReady(t)
      PROVE  TypeOK'
  BY <1>7, CoreSizeAssumption DEF AwaitReady
<1>8. ASSUME NEW t \in Callers, Collect(t)
      PROVE  TypeOK'
  <2>1. idx[t] \in Workers
    BY <1>8, CoreSizeAssumption DEF Collect, Workers
  <2>2. acc' \in [Callers -> BOOLEAN]
    BY <1>8, <2>1 DEF Collect
  <2> QED BY <1>8, <2>2, CoreSizeAssumption DEF Collect
<1>9. ASSUME NEW p \in Phases, Order(p)
      PROVE  TypeOK'
  BY <1>9 DEF Order
<1>10. CASE RunAsync
  BY <1>10 DEF RunAsync
<1>11. CASE StreamWait
  BY <1>11 DEF StreamWait
<1>12. CASE PlatformDestroy
  BY <1>12 DEF PlatformDestroy
<1> QED BY <1>1, <1>2, <1>3, <1>4, <1>5, <1>6, <1>7, <1>8, <1>9, <1>10, <1>11,
           <1>12 DEF InCall, NewCall

(* Every variable keeps its type: no semaphore is taken below zero and no   *)
(* result is read outside success (stream calls, lines 445-556).            *)
THEOREM TypeCorrect == Spec => []TypeOK
<1>1. TypeOK /\ [Next]_vars => TypeOK'
  <2>1. CASE UNCHANGED vars
    BY <2>1 DEF TypeOK, vars
  <2> QED BY <2>1, TypeWorker, TypeCaller DEF Next, Stopped
<1> QED BY <1>1, TypeInit, PTL DEF Spec

-----------------------------------------------------------------------------
(* The workers are in step.                                                 *)

(* Where one worker is tells the stretch all are in.                        *)
LEMMA Together ==
  ASSUME WorkersInStep, NEW s \in Stretches, NEW v \in Workers, Within(v, s)
  PROVE  InStretch(s)
<1>1. PICK r \in Stretches : InStretch(r)
  BY DEF WorkersInStep
<1>2. Within(v, r)
  BY <1>1 DEF InStretch
<1>3. r = s
  BY <1>2 DEF Within, Gate, Free, Stretches
<1> QED BY <1>1, <1>3

(* A step inside a stretch.                                                 *)
LEMMA StepInside ==
  ASSUME TypeOK, WorkersInStep, NEW s \in Stretches, NEW w \in Workers,
         w \notin blocked, Within(w, s), NEW l \in Free(s), Goto(w, l),
         blocked' = blocked
  PROVE  WorkersInStep'
<1>1. InStretch(s)
  BY Together
<1>2. \A v \in Workers : wpc'[v] = IF v = w THEN l ELSE wpc[v]
  BY DEF Goto, TypeOK
<1>3. InStretch(s)'
  BY <1>1, <1>2 DEF InStretch, Within
<1> QED BY <1>3 DEF WorkersInStep

(* A step to the gate at the end of stretch s, which opens on stretch n.    *)
LEMMA StepToGate ==
  ASSUME TypeOK, WorkersInStep, NEW s \in Stretches, NEW n \in Stretches,
         NEW w \in Workers, w \notin blocked, Within(w, s),
         Gate(s) \in Free(n), EnterGate(w, Gate(s))
  PROVE  WorkersInStep'
<1>1. InStretch(s)
  BY Together
<1>2. \A v \in Workers : wpc'[v] = IF v = w THEN Gate(s) ELSE wpc[v]
  BY DEF EnterGate, Goto, TypeOK
<1>3. CASE blocked \cup {w} # Workers /\ blocked' = blocked \cup {w}
  <2>1. InStretch(s)'
    BY <1>1, <1>2, <1>3 DEF InStretch, Within
  <2> QED BY <1>3, <2>1 DEF WorkersInStep
<1>4. CASE blocked \cup {w} = Workers /\ blocked' = {}
  <2>1. InStretch(n)'
    BY <1>1, <1>2, <1>4 DEF InStretch, Within
  <2> QED BY <1>4, <2>1, CoreZero DEF WorkersInStep
<1> QED BY <1>3, <1>4, ArriveEffect DEF EnterGate, TypeOK

(* A worker that runs is not held by the barrier.                           *)
LEMMA Running ==
  ASSUME WorkersInStep, NEW w \in Workers,
         wpc[w] \notin {"gate1", "gate2", "gate3", "gate4", "gate5"},
         wpc[w] # "absent"
  PROVE  w \notin blocked
  BY DEF WorkersInStep, InStretch, Within, Gate, Stretches

LEMMA InStepInit == Init => WorkersInStep
<1> SUFFICES ASSUME Init PROVE WorkersInStep
  OBVIOUS
<1>1. blocked # Workers
  BY CoreZero DEF Init
<1>2. CASE WorkersStarted
  BY <1>1, <1>2 DEF Init, WorkersInStep, InStretch, Within, Free, Stretches
<1>3. CASE ~WorkersStarted
  BY <1>1, <1>3 DEF Init, WorkersInStep, InStretch, Within, Free, Stretches
<1> QED BY <1>2, <1>3

LEMMA InStepWorker ==
  ASSUME TypeOK, WorkersInStep, NEW w \in Workers, Worker(w) \/ Abort(w)
  PROVE  WorkersInStep'
<1> USE DEF At, Released, Within, Gate, Free, Stretches
<1>1. CASE Allocate(w)
  BY <1>1, Running, StepToGate, "alloc" \in Stretches, "start" \in Stretches
  DEF Allocate
<1>2. CASE NotifyStarted(w)
  BY <1>2, StepInside, "start" \in Stretches DEF NotifyStarted
<1>3. CASE EnterStart(w)
  BY <1>3, Running, StepToGate, "start" \in Stretches, "loop" \in Stretches
  DEF EnterStart
<1>4. CASE InitArenas(w)
  BY <1>4, StepInside, "loop" \in Stretches DEF InitArenas
<1>5. CASE TakeOrder(w)
  BY <1>5, Running, StepInside, "loop" \in Stretches DEF TakeOrder
<1>6. CASE EnterOrder(w)
  BY <1>6, Running, StepToGate, "loop" \in Stretches, "exec" \in Stretches
  DEF EnterOrder
<1>7. CASE ReadPhase(w)
  BY <1>7, StepInside, "exec" \in Stretches DEF ReadPhase
<1>8. CASE Execute(w)
  BY <1>8, Running, StepInside, "exec" \in Stretches DEF Execute
<1>9. CASE EnterDone(w)
  BY <1>9, Running, StepToGate, "exec" \in Stretches, "release" \in Stretches
  DEF EnterDone
<1>10. CASE EnterRelease(w)
  BY <1>10, StepToGate, "release" \in Stretches, "loop" \in Stretches
  DEF EnterRelease
<1>11. CASE Report(w)
  BY <1>11, StepInside, "loop" \in Stretches DEF Report
<1>12. CASE EndRound(w)
  BY <1>12, Running, StepInside, "loop" \in Stretches DEF EndRound
<1>13. CASE Cleanup(w)
  BY <1>13, Running, StepInside, "loop" \in Stretches DEF Cleanup
<1>14. CASE Abort(w)
  BY <1>14 DEF Abort, workerVars, WorkersInStep, InStretch
<1> QED BY <1>1, <1>2, <1>3, <1>4, <1>5, <1>6, <1>7, <1>8, <1>9, <1>10, <1>11,
           <1>12, <1>13, <1>14 DEF Worker

-----------------------------------------------------------------------------
(* The callers.                                                             *)

LEMMA TurnsInit == Init => Turns
  BY WorkersStartedAssumption DEF Init, Turns, FirstCall, Callers, NoOrder

LEMMA TurnsWorker ==
  ASSUME Turns, NEW w \in Workers, Worker(w) \/ Abort(w)
  PROVE  Turns'
<1>1. UNCHANGED callerVars
  BY DEF Worker, Abort, Allocate, NotifyStarted, EnterStart, InitArenas,
         TakeOrder, EnterOrder, ReadPhase, Execute, EnterDone, EnterRelease,
         Report, EndRound, Cleanup, Silent
<1> QED BY <1>1 DEF Turns, callerVars

LEMMA TurnsCaller ==
  ASSUME TypeOK, Turns, InCall \/ NewCall
  PROVE  Turns'
<1> USE DEF TypeOK, Turns, Callers, Goes, NoOrder, MainLocations, RunnerLocations
<1>1. CASE PlatformReady
  BY <1>1 DEF PlatformReady
<1>2. CASE RunnerOrders
  BY <1>2 DEF RunnerOrders
<1>3. CASE Return
  BY <1>3 DEF Return
<1>4. CASE RunnerExits
  BY <1>4 DEF RunnerExits
<1>5. CASE Join
  BY <1>5 DEF Join
<1>6. ASSUME NEW t \in Callers, Post(t) \/ AwaitReady(t) \/ Collect(t)
      PROVE  Turns'
  BY <1>6 DEF Post, AwaitReady, Collect
<1>7. ASSUME NEW p \in Phases, Order(p)
      PROVE  Turns'
  BY <1>7 DEF Order, MayCall, Phases
<1>8. CASE RunAsync
  BY <1>8 DEF RunAsync, MayCall, MayFollow
<1>9. CASE StreamWait
  BY <1>9 DEF StreamWait
<1>10. CASE PlatformDestroy
  BY <1>10 DEF PlatformDestroy, MayCall
<1> QED BY <1>1, <1>2, <1>3, <1>4, <1>5, <1>6, <1>7, <1>8, <1>9, <1>10
        DEF InCall, NewCall

-----------------------------------------------------------------------------
(* The token of the two semaphores.                                         *)

LEMMA TokenInit == Init => TokenBalance
<1> SUFFICES ASSUME Init PROVE TokenBalance
  OBVIOUS
<1>1. CASE WorkersStarted
  BY <1>1, CoreZero DEF Init, TokenBalance, FirstCall, InHand, Starting, Callers
<1>2. CASE ~WorkersStarted
  BY <1>2, CoreZero DEF Init, TokenBalance, FirstCall, InHand, Starting, Callers
<1> QED BY <1>1, <1>2

LEMMA TokenWorker ==
  ASSUME TypeOK, TokenBalance, NEW w \in Workers, Worker(w) \/ Abort(w)
  PROVE  TokenBalance'
<1> USE CoreZero DEF TypeOK, TokenBalance, InHand, Starting, At, Released, Goto,
        EnterGate, Silent, callerVars, workerVars
<1>1. CASE Allocate(w)
  BY <1>1 DEF Allocate
<1>2. CASE NotifyStarted(w)
  BY <1>2 DEF NotifyStarted
<1>3. CASE EnterStart(w)
  BY <1>3 DEF EnterStart
<1>4. CASE InitArenas(w)
  BY <1>4 DEF InitArenas
<1>5. CASE TakeOrder(w)
  BY <1>5 DEF TakeOrder
<1>6. CASE EnterOrder(w)
  BY <1>6 DEF EnterOrder
<1>7. CASE ReadPhase(w)
  BY <1>7 DEF ReadPhase
<1>8. CASE Execute(w)
  BY <1>8 DEF Execute
<1>9. CASE EnterDone(w)
  BY <1>9 DEF EnterDone
<1>10. CASE EnterRelease(w)
  BY <1>10 DEF EnterRelease
<1>11. CASE Report(w)
  BY <1>11 DEF Report
<1>12. CASE EndRound(w)
  BY <1>12 DEF EndRound
<1>13. CASE Cleanup(w)
  BY <1>13 DEF Cleanup
<1>14. CASE Abort(w)
  BY <1>14 DEF Abort
<1> QED BY <1>1, <1>2, <1>3, <1>4, <1>5, <1>6, <1>7, <1>8, <1>9, <1>10, <1>11,
           <1>12, <1>13, <1>14 DEF Worker

LEMMA TokenCaller ==
  ASSUME TypeOK, Turns, TokenBalance, InCall \/ NewCall
  PROVE  TokenBalance'
<1> USE DEF TypeOK, Turns, TokenBalance, InHand, Starting, Callers, Goes, workerVars
<1>1. CASE PlatformReady
  BY <1>1 DEF PlatformReady
<1>2. CASE RunnerOrders
  BY <1>2 DEF RunnerOrders
<1>3. CASE Return
  BY <1>3 DEF Return
<1>4. CASE RunnerExits
  BY <1>4 DEF RunnerExits
<1>5. CASE Join
  BY <1>5 DEF Join
<1>6. ASSUME NEW t \in Callers, Post(t)
      PROVE  TokenBalance'
  BY <1>6 DEF Post
<1>7. ASSUME NEW t \in Callers, AwaitReady(t)
      PROVE  TokenBalance'
  BY <1>7 DEF AwaitReady
<1>8. ASSUME NEW t \in Callers, Collect(t)
      PROVE  TokenBalance'
  BY <1>8 DEF Collect
<1>9. ASSUME NEW p \in Phases, Order(p)
      PROVE  TokenBalance'
  BY <1>9 DEF Order
<1>10. CASE RunAsync
  BY <1>10 DEF RunAsync
<1>11. CASE StreamWait
  BY <1>11 DEF StreamWait
<1>12. CASE PlatformDestroy
  BY <1>12 DEF PlatformDestroy
<1> QED BY <1>1, <1>2, <1>3, <1>4, <1>5, <1>6, <1>7, <1>8, <1>9, <1>10, <1>11,
           <1>12 DEF InCall, NewCall

-----------------------------------------------------------------------------
(* The workers when no caller waits: nothing is on its way to any of them.  *)

NobodyWaits == \A t \in Callers : cpc[t] \notin {"boot", "await"}

AtRest ==
  /\ newOrder = 0
  /\ ready = 0
  /\ \A w \in Workers :
       /\ ~Pending(w)
       /\ wpc[w] \notin {"alloc", "exec", "ran", "gate4"}
       /\ wpc[w] \in {"gate1", "gate5"} => w \notin blocked
       /\ wpc[w] = "gate3" => w \in blocked

LEMMA Resting ==
  ASSUME TypeOK, WorkersInStep, TokenBalance, NobodyWaits
  PROVE  AtRest
<1>1. newOrder = 0 /\ ready = 0 /\ ~InHand /\ ~Starting
  BY DEF TokenBalance, NobodyWaits, TypeOK
<1>2. PICK s \in Stretches : InStretch(s)
  BY DEF WorkersInStep
<1>3. Within(0, s)
  BY <1>2, CoreZero DEF InStretch
<1>4. s \in {"absent", "start", "loop"}
  BY <1>1, <1>3 DEF Within, Gate, Free, Stretches, InHand, Starting
<1>5. ASSUME NEW w \in Workers
      PROVE  /\ ~Pending(w)
             /\ wpc[w] \notin {"alloc", "exec", "ran", "gate4"}
             /\ wpc[w] \in {"gate1", "gate5"} => w \notin blocked
             /\ wpc[w] = "gate3" => w \in blocked
  <2>1. Within(w, s)
    BY <1>2 DEF InStretch
  <2> QED BY <1>1, <1>4, <2>1 DEF Within, Gate, Free, Pending, InHand
<1> QED BY <1>1, <1>5 DEF AtRest

(* A caller that writes, posts, collects or starts a call finds that.       *)
LEMMA CallerResting ==
  ASSUME TypeOK, WorkersInStep, TokenBalance, Turns,
         \/ \E t \in Callers : cpc[t] \in {"start", "post", "collect", "exited"}
         \/ cpc["main"] \in {"idle", "closed"} /\ cpc["runner"] \in {"none", "start"}
  PROVE  AtRest
<1>1. NobodyWaits
  BY DEF NobodyWaits, Turns, Callers, TypeOK, MainLocations, RunnerLocations
<1> QED BY <1>1, Resting

-----------------------------------------------------------------------------
(* The rounds.                                                              *)

LEMMA RoundsInit == Init => RoundsCount
<1> SUFFICES ASSUME Init PROVE RoundsCount
  OBVIOUS
<1>1. \A w \in Workers : ~Pending(w)
  BY CoreZero DEF Init, Pending
<1> QED BY <1>1 DEF Init, RoundsCount

(* The gate of the order: who is held there waits for it, who is let go     *)
(* has it.                                                                  *)
LEMMA PendingGate ==
  ASSUME TypeOK, WorkersInStep, NEW w \in Workers, EnterOrder(w),
         NEW v \in Workers
  PROVE  Pending(v)' = Pending(v)
<1>1. InStretch("loop") /\ w \notin blocked
  BY Together, Running, "loop" \in Stretches
  DEF EnterOrder, At, Within, Free, Stretches
<1>2. Within(v, "loop") /\ Within(0, "loop")
  BY <1>1, CoreZero DEF InStretch
<1>3. \A u \in Workers : wpc'[u] = IF u = w THEN "gate3" ELSE wpc[u]
  BY DEF EnterOrder, EnterGate, Goto, TypeOK
<1>4. CASE blocked \cup {w} # Workers /\ blocked' = blocked \cup {w}
  BY <1>1, <1>2, <1>3, <1>4, CoreZero
  DEF Pending, Within, Gate, Free, EnterOrder, At, Silent
<1>5. CASE blocked \cup {w} = Workers /\ blocked' = {}
  BY <1>1, <1>2, <1>3, <1>5, CoreZero
  DEF Pending, Within, Gate, Free, EnterOrder, At, Silent
<1> QED BY <1>4, <1>5, ArriveEffect DEF EnterOrder, EnterGate, TypeOK

LEMMA PendingElsewhere ==
  ASSUME TypeOK, WorkersInStep, NEW w \in Workers,
         \/ Allocate(w) \/ NotifyStarted(w) \/ EnterStart(w) \/ InitArenas(w)
         \/ TakeOrder(w) \/ ReadPhase(w) \/ EnterDone(w) \/ EnterRelease(w)
         \/ Report(w) \/ EndRound(w) \/ Cleanup(w) \/ Abort(w),
         TokenBalance, NEW v \in Workers
  PROVE  Pending(v)' = Pending(v)
<1> USE CoreZero DEF TypeOK, Pending, At, Released, Goto, EnterGate, Silent,
        callerVars, workerVars
<1>1. CASE Allocate(w) \/ EnterStart(w) \/ EnterDone(w) \/ EnterRelease(w)
  <2>1. PICK s \in {"alloc", "start", "exec", "release"} :
           /\ Within(w, s) /\ w \notin blocked
           /\ wpc[w] \notin {"exec", "gate3"}
           /\ EnterGate(w, Gate(s)) /\ newOrder' = newOrder
    BY <1>1, Running
    DEF Allocate, EnterStart, EnterDone, EnterRelease, Within, Free, Gate
  <2>2. InStretch(s)
    BY <2>1, Together DEF Stretches
  <2>3. Within(v, s) /\ Within(0, s)
    BY <2>2 DEF InStretch
  <2>4. \A u \in Workers : wpc'[u] = IF u = w THEN Gate(s) ELSE wpc[u]
    BY <2>1
  <2>5. CASE blocked \cup {w} # Workers /\ blocked' = blocked \cup {w}
    BY <2>1, <2>3, <2>4, <2>5 DEF Within, Gate, Free
  <2>6. CASE blocked \cup {w} = Workers /\ blocked' = {}
    BY <2>1, <2>3, <2>4, <2>6 DEF Within, Gate, Free
  <2> QED BY <2>1, <2>5, <2>6, ArriveEffect
<1>2. CASE NotifyStarted(w)
  BY <1>2 DEF NotifyStarted
<1>3. CASE InitArenas(w)
  BY <1>3 DEF InitArenas
<1>4. CASE TakeOrder(w)
  <2>1. newOrder = 1
    BY <1>4 DEF TakeOrder, TokenBalance
  <2> QED BY <1>4, <2>1 DEF TakeOrder
<1>5. CASE ReadPhase(w)
  BY <1>5 DEF ReadPhase
<1>6. CASE Report(w)
  BY <1>6 DEF Report
<1>7. CASE EndRound(w)
  BY <1>7 DEF EndRound
<1>8. CASE Cleanup(w)
  BY <1>8 DEF Cleanup
<1>9. CASE Abort(w)
  BY <1>9 DEF Abort
<1> QED BY <1>1, <1>2, <1>3, <1>4, <1>5, <1>6, <1>7, <1>8, <1>9

(* A worker that carries an order out is no longer waited for.              *)
LEMMA PendingExecute ==
  ASSUME TypeOK, WorkersInStep, TokenBalance, NEW w \in Workers, Execute(w),
         NEW v \in Workers
  PROVE  /\ Pending(w) /\ ~Pending(w)'
         /\ v # w => Pending(v)' = Pending(v)
<1>1. Within(w, "exec")
  BY Running DEF Execute, At, Within, Free
<1>2. InStretch("exec")
  BY <1>1, Together DEF Stretches
<1>3. Within(0, "exec")
  BY <1>2, CoreZero DEF InStretch
<1>4. InHand
  BY <1>3 DEF Within, Gate, Free, InHand
<1>5. newOrder = 0
  BY <1>4 DEF TokenBalance, TypeOK
<1>6. \A u \in Workers : wpc'[u] = IF u = w THEN "ran" ELSE wpc[u]
  BY DEF Execute, Goto, TypeOK
<1> QED BY <1>3, <1>5, <1>6, CoreZero
        DEF Execute, At, Silent, Pending, Within, Gate, Free

LEMMA RoundsWorker ==
  ASSUME TypeOK, WorkersInStep, TokenBalance, RoundsCount,
         NEW w \in Workers, Worker(w) \/ Abort(w)
  PROVE  RoundsCount'
<1> SUFFICES ASSUME NEW v \in Workers
             PROVE  rounds'[v] + (IF Pending(v)' THEN 1 ELSE 0) = orders'
  BY DEF RoundsCount
<1>1. rounds[v] + (IF Pending(v) THEN 1 ELSE 0) = orders
  BY DEF RoundsCount
<1>2. orders' = orders
  BY DEF Worker, Abort, Allocate, NotifyStarted, EnterStart, InitArenas,
         TakeOrder, EnterOrder, ReadPhase, Execute, EnterDone, EnterRelease,
         Report, EndRound, Cleanup, Silent, callerVars
<1>3. CASE Execute(w)
  <2>1. rounds'[v] = IF v = w THEN rounds[v] + 1 ELSE rounds[v]
    BY <1>3 DEF Execute, TypeOK
  <2> QED BY <1>1, <1>2, <1>3, <2>1, PendingExecute DEF TypeOK
<1>4. CASE ~Execute(w)
  <2>1. rounds' = rounds
    BY <1>4 DEF Worker, Abort, Allocate, NotifyStarted, EnterStart, InitArenas,
         TakeOrder, EnterOrder, ReadPhase, EnterDone, EnterRelease,
         Report, EndRound, Cleanup, workerVars
  <2>2. Pending(v)' = Pending(v)
    BY <1>4, PendingGate, PendingElsewhere DEF Worker
  <2> QED BY <1>1, <1>2, <2>1, <2>2
<1> QED BY <1>3, <1>4

LEMMA RoundsCaller ==
  ASSUME TypeOK, WorkersInStep, TokenBalance, Turns, RoundsCount,
         InCall \/ NewCall
  PROVE  RoundsCount'
<1> USE DEF RoundsCount, Pending, Goes, workerVars
<1>1. ASSUME NEW t \in Callers, Post(t)
      PROVE  RoundsCount'
  <2>1. AtRest
    BY <1>1, CallerResting DEF Post
  <2> QED BY <1>1, <2>1 DEF Post, AtRest, TypeOK
<1>2. CASE UNCHANGED <<newOrder, orders, wpc, blocked, rounds>>
  BY <1>2
<1> QED BY <1>1, <1>2 DEF InCall, NewCall, PlatformReady, RunnerOrders, Return,
    RunnerExits, Join, AwaitReady, Collect, Order, RunAsync, StreamWait,
    PlatformDestroy

-----------------------------------------------------------------------------
(* What each worker did last.                                               *)

LEMMA LastTaskInit == Init => LastTask
  BY DEF Init, LastTask, NoOrder

(* While a worker has still to read the phase, no caller is about to write  *)
(* it or to post another order.                                             *)
LEMMA NobodyWritesAtGate ==
  ASSUME TypeOK, WorkersInStep, TokenBalance, Turns, NEW w \in Workers,
         wpc[w] = "gate3", w \notin blocked
  PROVE  NobodyWrites
<1>1. ~AtRest
  BY DEF AtRest
<1> QED BY <1>1, CallerResting DEF NobodyWrites

LEMMA LastTaskWorker ==
  ASSUME TypeOK, WorkersInStep, TokenBalance, Turns, RoundsCount, LastTask,
         NEW w \in Workers, Worker(w) \/ Abort(w)
  PROVE  LastTask'
<1> USE DEF TypeOK, LastTask, NobodyWrites, At, Released, Goto, EnterGate, Silent,
            callerVars, workerVars, NoOrder
<1>1. CASE Allocate(w)
  BY <1>1, ArriveEffect DEF Allocate
<1>2. CASE NotifyStarted(w)
  BY <1>2 DEF NotifyStarted
<1>3. CASE EnterStart(w)
  BY <1>3, ArriveEffect DEF EnterStart
<1>4. CASE InitArenas(w)
  BY <1>4 DEF InitArenas
<1>5. CASE TakeOrder(w)
  BY <1>5 DEF TakeOrder
<1>6. CASE EnterOrder(w)
  BY <1>6, ArriveEffect DEF EnterOrder
<1>7. CASE ReadPhase(w)
  <2>1. NobodyWrites
    BY <1>7, NobodyWritesAtGate DEF ReadPhase
  <2> QED BY <1>7, <2>1 DEF ReadPhase
<1>8. CASE Execute(w)
  <2>1. rounds[w] + 1 = orders
    BY <1>8 DEF Execute, RoundsCount, Pending
  <2> QED BY <1>8, <2>1 DEF Execute
<1>9. CASE EnterDone(w)
  BY <1>9, ArriveEffect DEF EnterDone
<1>10. CASE EnterRelease(w)
  BY <1>10, ArriveEffect DEF EnterRelease
<1>11. CASE Report(w)
  BY <1>11 DEF Report
<1>12. CASE EndRound(w)
  BY <1>12 DEF EndRound
<1>13. CASE Cleanup(w)
  BY <1>13 DEF Cleanup
<1>14. CASE Abort(w)
  BY <1>14 DEF Abort
<1> QED BY <1>1, <1>2, <1>3, <1>4, <1>5, <1>6, <1>7, <1>8, <1>9, <1>10, <1>11,
           <1>12, <1>13, <1>14 DEF Worker

LEMMA LastTaskCaller ==
  ASSUME TypeOK, WorkersInStep, TokenBalance, Turns, RoundsCount, LastTask,
         InCall \/ NewCall
  PROVE  LastTask'
<1> USE DEF LastTask, NobodyWrites, Goes, workerVars, TypeOK
<1>1. CASE PlatformReady
  BY <1>1 DEF PlatformReady, Callers
<1>2. CASE RunnerOrders
  <2>1. AtRest
    BY <1>2, CallerResting DEF RunnerOrders, Callers
  <2> QED BY <1>2, <2>1 DEF RunnerOrders, AtRest, Callers
<1>3. CASE Return
  BY <1>3 DEF Return, Callers
<1>4. CASE RunnerExits
  BY <1>4 DEF RunnerExits, Callers
<1>5. CASE Join
  BY <1>5 DEF Join, Callers
<1>6. ASSUME NEW t \in Callers, Post(t)
      PROVE  LastTask'
  <2>1. \A w \in Workers : rounds[w] # orders' /\ task[w] # "DESTROY"
    BY <1>6 DEF Post, RoundsCount
  <2> QED BY <1>6, <2>1 DEF Post
<1>7. ASSUME NEW t \in Callers, AwaitReady(t) \/ Collect(t)
      PROVE  LastTask'
  BY <1>7 DEF AwaitReady, Collect, Callers
<1>8. ASSUME NEW p \in Phases, Order(p)
      PROVE  LastTask'
  <2>1. AtRest
    BY <1>8, CallerResting DEF Order, MayCall
  <2>2. \A w \in Workers : task[w] # "DESTROY"
    BY <1>8 DEF Order, MayFollow, NoOrder
  <2> QED BY <1>8, <2>1, <2>2 DEF Order, AtRest, Callers
<1>9. CASE RunAsync
  <2>1. \A w \in Workers : task[w] # "DESTROY"
    BY <1>9 DEF RunAsync, MayFollow, NoOrder
  <2> QED BY <1>9, <2>1 DEF RunAsync, Callers
<1>10. CASE StreamWait
  BY <1>10 DEF StreamWait, Callers
<1>11. CASE PlatformDestroy
  BY <1>11 DEF PlatformDestroy, Callers
<1> QED BY <1>1, <1>2, <1>3, <1>4, <1>5, <1>6, <1>7, <1>8, <1>9, <1>10, <1>11
        DEF InCall, NewCall

-----------------------------------------------------------------------------
(* Buffers, and what a caller has collected.                                *)

LEMMA BuffersStep ==
  ASSUME TypeOK, BuffersHeld, NEW w \in Workers, Worker(w) \/ Abort(w)
  PROVE  BuffersHeld'
  BY DEF TypeOK, BuffersHeld, Worker, Abort, Allocate, NotifyStarted, EnterStart,
     InitArenas, TakeOrder, EnterOrder, ReadPhase, Execute, EnterDone,
     EnterRelease, Report, EndRound, Cleanup, At, Released, Goto, EnterGate,
     workerVars

LEMMA CollectedInit == Init => Collected
  BY WorkersStartedAssumption DEF Init, Collected, FirstCall, Callers

LEMMA CollectedWorker ==
  ASSUME TypeOK, WorkersInStep, TokenBalance, Turns, Collected,
         NEW w \in Workers, Worker(w) \/ Abort(w)
  PROVE  Collected'
<1>1. UNCHANGED callerVars
  BY DEF Worker, Abort, Allocate, NotifyStarted, EnterStart, InitArenas,
         TakeOrder, EnterOrder, ReadPhase, Execute, EnterDone, EnterRelease,
         Report, EndRound, Cleanup, Silent
<1>2. CASE Execute(w)
  <2>1. ~AtRest
    BY <1>2 DEF Execute, At, AtRest
  <2>2. \A t \in Callers : cpc[t] \notin {"collect", "exited"}
    BY <2>1, CallerResting
  <2> QED BY <1>1, <2>2 DEF Collected, callerVars, Callers
<1>3. CASE ~Execute(w)
  <2>1. success' = success
    BY <1>3 DEF Worker, Abort, Allocate, NotifyStarted, EnterStart, InitArenas,
         TakeOrder, EnterOrder, ReadPhase, EnterDone, EnterRelease,
         Report, EndRound, Cleanup, workerVars
  <2> QED BY <1>1, <2>1 DEF Collected, callerVars
<1> QED BY <1>2, <1>3

LEMMA CollectedCaller ==
  ASSUME TypeOK, Turns, Collected, InCall \/ NewCall
  PROVE  Collected'
<1> USE DEF TypeOK, Goes, workerVars
<1>1. ASSUME NEW t \in Callers, AwaitReady(t)
      PROVE  Collected'
  <2>1. \A i \in Workers : ~(i < 0)
    BY CoreSizeAssumption DEF Workers
  <2>2. idx'[t] = 0 /\ acc'[t]
    BY <1>1 DEF AwaitReady
  <2>3. \A u \in Callers : u # t => acc'[u] = acc[u] /\ idx'[u] = idx[u] /\ cpc'[u] = cpc[u]
    BY <1>1 DEF AwaitReady
  <2>4. success' = success /\ cpc'[t] = "collect"
    BY <1>1 DEF AwaitReady
  <2> QED BY <2>1, <2>2, <2>3, <2>4 DEF Collected, Callers
<1>2. ASSUME NEW t \in Callers, Collect(t)
      PROVE  Collected'
  <2>1. idx[t] \in Workers /\ idx[t] \in Nat
    BY <1>2, CoreSizeAssumption DEF Collect, Workers
  <2>2. \A i \in Workers : i < idx[t] + 1 <=> i < idx[t] \/ i = idx[t]
    BY <2>1, CoreSizeAssumption DEF Workers
  <2>3. (acc'[t] <=> acc[t] /\ success[idx[t]]) /\ idx'[t] = idx[t] + 1
    BY <1>2 DEF Collect
  <2>4. acc[t] <=> \A i \in Workers : i < idx[t] => success[i]
    BY <1>2 DEF Collect, Collected
  <2>5. acc'[t] <=> \A i \in Workers : i < idx'[t] => success[i]
    BY <2>1, <2>2, <2>3, <2>4
  <2>6. \A u \in Callers : u # t => acc'[u] = acc[u] /\ idx'[u] = idx[u] /\ cpc'[u] = cpc[u]
    BY <1>2 DEF Collect
  <2>7. success' = success /\ cpc[t] = "collect"
    BY <1>2 DEF Collect
  <2>8. t = "runner" => cpc'["runner"] # "exited"
    BY <1>2 DEF Collect
  <2> QED BY <2>5, <2>6, <2>7, <2>8 DEF Collected, Callers
<1>3. CASE RunnerExits
  <2>1. \A i \in Workers : i < CoreSize
    BY CoreSizeAssumption DEF Workers
  <2> QED BY <1>3, <2>1 DEF RunnerExits, Collected, Callers
<1>4. ASSUME UNCHANGED <<acc, idx, success>>,
             \A t \in Callers : cpc'[t] = "collect" => cpc[t] = "collect",
             cpc'["runner"] = "exited" => cpc["runner"] = "exited"
      PROVE  Collected'
  BY <1>4 DEF Collected
<1>5. ASSUME NEW t \in Callers, Post(t)
      PROVE  Collected'
  BY <1>4, <1>5 DEF Post, Callers
<1>6. ASSUME NEW p \in Phases, Order(p)
      PROVE  Collected'
  BY <1>4, <1>6 DEF Order, Callers
<1>7. CASE \/ PlatformReady \/ RunnerOrders \/ Return \/ Join
           \/ RunAsync \/ StreamWait \/ PlatformDestroy
  BY <1>4, <1>7 DEF PlatformReady, RunnerOrders, Return, Join, RunAsync,
                    StreamWait, PlatformDestroy, Callers
<1> QED BY <1>1, <1>2, <1>3, <1>5, <1>6, <1>7 DEF InCall, NewCall

-----------------------------------------------------------------------------
(* The invariant, and what follows from it.                                 *)

LEMMA Inductive == IInv /\ [Next]_vars => IInv'
<1> SUFFICES ASSUME IInv, [Next]_vars PROVE IInv'
  OBVIOUS
<1> USE DEF IInv
<1>1. ASSUME NEW w \in Workers, Worker(w) \/ Abort(w)
      PROVE  IInv'
  BY <1>1, TypeWorker, InStepWorker, TurnsWorker, TokenWorker, RoundsWorker,
     LastTaskWorker, BuffersStep, CollectedWorker
<1>2. CASE InCall \/ NewCall
  <2>1. UNCHANGED workerVars
    BY <1>2 DEF InCall, NewCall, PlatformReady, RunnerOrders, Return, RunnerExits,
       Join, Post, AwaitReady, Collect, Order, RunAsync, StreamWait,
       PlatformDestroy, Goes
  <2>2. WorkersInStep' /\ BuffersHeld'
    BY <2>1 DEF workerVars, WorkersInStep, InStretch, Within, BuffersHeld
  <2> QED BY <1>2, <2>2, TypeCaller, TurnsCaller, TokenCaller, RoundsCaller,
             LastTaskCaller, CollectedCaller
<1>3. CASE UNCHANGED vars
  BY <1>3 DEF vars, TypeOK, WorkersInStep, InStretch, Within, Turns, TokenBalance,
     InHand, Starting, RoundsCount, Pending, LastTask, NobodyWrites, BuffersHeld,
     Collected
<1> QED BY <1>1, <1>2, <1>3 DEF Next, Stopped

LEMMA Invariance == Spec => []IInv
<1>1. Init => BuffersHeld
  BY WorkersStartedAssumption DEF Init, BuffersHeld
<1>2. Init => IInv
  BY <1>1, TypeInit, InStepInit, TurnsInit, TokenInit, RoundsInit, LastTaskInit,
     CollectedInit DEF IInv
<1> QED BY <1>2, Inductive, PTL DEF Spec

(* One barrier object serves the five barrier calls of drake_ia_thread      *)
(* (lines 204, 210/215, 242/247, 278, 285/294), whatever the core count.    *)
THEOREM InStep == Spec => []WorkersInStep
  BY Invariance, PTL DEF IInv

(* The semaphores new_order and ready carry one token between the caller    *)
(* and worker 0 (lines 209, 241, 287, 454-457).                             *)
THEOREM OneToken == Spec => []TokenBalance
  BY Invariance, PTL DEF IInv

(* A caller reads success only when every worker has left the result of     *)
(* the caller's own order in it (the loops over success, lines 461-464).    *)
THEOREM AnswersComplete == Spec => []AnswerIsComplete
<1>1. IInv => AnswerIsComplete
  <2> SUFFICES ASSUME IInv, NEW t \in Callers, cpc[t] = "collect",
                      NEW w \in Workers
               PROVE  rounds[w] = orders
    BY DEF AnswerIsComplete
  <2>1. AtRest
    BY CallerResting DEF IInv
  <2> QED BY <2>1 DEF IInv, RoundsCount, AtRest, TypeOK
<1> QED BY <1>1, Invariance, PTL

(* A worker that has left its loop carried a DESTROY out, and so did all.   *)
LEMMA Unanimous == IInv => DestroyIsUnanimous
<1> SUFFICES ASSUME IInv, NEW v \in Workers, wpc[v] \in {"cleanup", "exited"},
                    NEW w \in Workers
             PROVE  task[w] = "DESTROY" /\ rounds[w] = orders
  BY DEF DestroyIsUnanimous
<1>1. /\ phase = "DESTROY" /\ NobodyWrites
      /\ rounds[v] = orders /\ v \notin blocked
  BY Running DEF IInv, LastTask
<1>2. InStretch("loop")
  BY <1>1, Together DEF IInv, Within, Free, Stretches
<1>3. Within(v, "loop") /\ Within(w, "loop")
  BY <1>2 DEF InStretch
<1>4. ~Pending(v)
  BY <1>1 DEF IInv, RoundsCount, TypeOK
<1>5. ~Pending(w)
  BY <1>3, <1>4 DEF Pending, Within, Gate, Free
<1>6. rounds[w] = orders
  BY <1>5 DEF IInv, RoundsCount, TypeOK
<1> QED BY <1>1, <1>6 DEF IInv, LastTask, NobodyWrites

(* while(!done): no worker is left at the barrier by one that has gone      *)
(* (lines 235-296).                                                         *)
THEOREM DestroyUnanimous == Spec => []DestroyIsUnanimous
  BY Unanimous, Invariance, PTL

(* drake_platform_destroy destroys the barrier and the semaphores without   *)
(* joining a thread (lines 558-576): none uses them then.                   *)
THEOREM DestroySafe == Spec => []NoUseAfterDestroy
<1>1. IInv => NoUseAfterDestroy
  <2> SUFFICES ASSUME IInv, ~alive, NEW w \in Workers
               PROVE  /\ wpc[w] \in {"gate5", "reported", "cleanup", "exited"}
                      /\ w \notin blocked
    BY DEF NoUseAfterDestroy
  <2>1. cpc["main"] = "closed" /\ phase = "DESTROY" /\ cpc["runner"] = "none"
    BY DEF IInv, Turns, TypeOK
  <2>2. AtRest
    BY <2>1, CallerResting DEF IInv
  <2>3. rounds[w] = orders
    BY <2>2 DEF IInv, RoundsCount, AtRest, TypeOK
  <2>4. task[w] = "DESTROY"
    BY <2>1, <2>3 DEF IInv, LastTask, Callers
  <2>5. PICK s \in Stretches : Within(w, s)
    BY DEF IInv, WorkersInStep, InStretch
  <2>6. wpc[w] \notin {"absent", "alloc", "gate1", "posted", "gate2", "loop", "go"}
    BY <2>4 DEF IInv, LastTask, NoOrder
  <2>7. ~(wpc[w] = "gate3" /\ w \in blocked)
    BY <2>4 DEF IInv, LastTask
  <2> QED BY <2>2, <2>5, <2>6, <2>7 DEF AtRest, Within, Gate, Free, Stretches
<1> QED BY <1>1, Invariance, PTL

(* "Wait for all cores to have their shared memory buffer allocated" (line  *)
(* 203), and nobody frees one that is still in use (lines 300-303).         *)
THEOREM BuffersSafe == Spec => []BuffersOutliveUse
<1>1. IInv => BuffersOutliveUse
  <2> SUFFICES ASSUME IInv, NEW w \in Workers, NEW v \in Workers,
                      \/ wpc[w] \in {"gate2", "gate3", "gate4"} /\ w \notin blocked
                      \/ wpc[w] \in {"exec", "ran"}
               PROVE  v \in buffers
    BY DEF BuffersOutliveUse, IInv, TypeOK
  <2>1. w \notin blocked
    BY Running DEF IInv
  <2>2. PICK s \in {"loop", "exec", "release"} : Within(w, s)
    BY <2>1 DEF Within, Free
  <2>3. Within(v, s)
    BY <2>2, Together DEF IInv, InStretch, Stretches
  <2>4. wpc[v] # "exited"
    <3>1. CASE wpc[w] = "gate2"
      <4>1. task[w] # "DESTROY"
        BY <3>1 DEF IInv, LastTask, NoOrder
      <4> QED BY <4>1, Unanimous DEF DestroyIsUnanimous
    <3>2. CASE wpc[w] # "gate2"
      <4>1. s \in {"exec", "release"}
        BY <2>1, <2>2, <3>2 DEF Within, Free
      <4> QED BY <2>3, <4>1 DEF Within, Gate, Free
    <3> QED BY <3>1, <3>2
  <2>5. wpc[v] \notin {"absent", "alloc"}
    BY <2>2, <2>3 DEF Within, Gate, Free
  <2> QED BY <2>4, <2>5 DEF IInv, BuffersHeld
<1> QED BY <1>1, Invariance, PTL

(* The phase word is unprotected (lines 450, 476, 503, 544 write it, line   *)
(* 251 reads it): it never changes under a worker that was let go for it.   *)
THEOREM PhaseKept == Spec => PhaseStable
<1>1. IInv /\ [Next]_vars =>
        [ phase' # phase =>
            \A w \in Workers :
              /\ wpc[w] \notin {"exec", "ran", "gate4"}
              /\ wpc[w] = "gate3" => w \in blocked ]_vars
  <2> SUFFICES ASSUME IInv, [Next]_vars, phase' # phase
               PROVE  AtRest
    BY DEF AtRest
  <2>1. ASSUME NEW w \in Workers, Worker(w) \/ Abort(w)
        PROVE  phase' = phase
    BY <2>1 DEF Worker, Abort, Allocate, NotifyStarted, EnterStart, InitArenas,
         TakeOrder, EnterOrder, ReadPhase, Execute, EnterDone, EnterRelease,
         Report, EndRound, Cleanup, Silent, callerVars
  <2>2. RunnerOrders \/ \E p \in Phases : Order(p)
    BY <2>1 DEF Next, Stopped, vars, InCall, NewCall, PlatformReady, Return,
       RunnerExits, Join, Post, AwaitReady, Collect, RunAsync, StreamWait,
       PlatformDestroy
  <2> QED BY <2>2, CallerResting
          DEF IInv, RunnerOrders, Order, MayCall, Goes, Callers
<1> QED BY <1>1, Invariance, PTL DEF Spec, PhaseStable

-----------------------------------------------------------------------------
(* The refinement of PhaseOrders.                                           *)

LEMMA RefineInit == Init => Orders!Init
<1> SUFFICES ASSUME Init PROVE Orders!Init
  OBVIOUS
<1>1. OrderBar = NoOrder
  BY WorkersStartedAssumption DEF Init, OrderBar, Outstanding, FirstCall, Callers
<1>2. RanBar = Workers /\ BegunBar = Workers
  BY DEF Init, RanBar, BegunBar
<1> QED BY <1>1, <1>2 DEF Init, Orders!Init

(* An order that a worker has in hand is one a caller waits for.            *)
LEMMA PendingOutstanding ==
  ASSUME IInv, NEW w \in Workers, wpc[w] \in {"gate3", "exec"}, w \notin blocked
  PROVE  Outstanding /\ phase # NoOrder /\ rounds[w] + 1 = orders
<1>1. ~AtRest
  BY DEF AtRest
<1>2. \E t \in Callers : cpc[t] \in {"boot", "await"}
  BY <1>1, Resting DEF IInv, NobodyWaits
<1>3. rounds[w] + 1 = orders
  BY DEF IInv, RoundsCount, Pending
<1>4. cpc["main"] # "boot"
  BY <1>3 DEF IInv, Turns, TypeOK
<1> QED BY <1>2, <1>3, <1>4
        DEF Outstanding, IInv, Turns, Callers, TypeOK, RunnerLocations

LEMMA RefineWorker ==
  ASSUME IInv, NEW w \in Workers, Worker(w) \/ Abort(w)
  PROVE  Orders!Next \/ UNCHANGED Orders!vars
<1>1. UNCHANGED callerVars
  BY DEF Worker, Abort, Allocate, NotifyStarted, EnterStart, InitArenas,
         TakeOrder, EnterOrder, ReadPhase, Execute, EnterDone, EnterRelease,
         Report, EndRound, Cleanup, Silent
<1>2. OrderBar' = OrderBar /\ answer' = answer /\ orders' = orders
  BY <1>1 DEF callerVars, OrderBar, Outstanding
<1>3. CASE ReadPhase(w)
  <2>1. wpc[w] = "gate3" /\ w \notin blocked
    BY <1>3 DEF ReadPhase, Released, At
  <2>2. Outstanding /\ phase # NoOrder /\ rounds[w] + 1 = orders
    BY <2>1, PendingOutstanding
  <2>3. OrderBar = phase
    BY <2>2 DEF OrderBar
  <2>4. rounds' = rounds /\ success' = success
    BY <1>3 DEF ReadPhase
  <2>5. RanBar' = RanBar
    BY <1>2, <2>4 DEF RanBar
  <2>6. w \notin BegunBar
    BY <2>1, <2>2 DEF BegunBar, RanBar, IInv, TypeOK
  <2>7. \A v \in Workers : wpc'[v] = IF v = w THEN "exec" ELSE wpc[v]
    BY <1>3 DEF ReadPhase, Goto, IInv, TypeOK
  <2>8. BegunBar' = BegunBar \cup {w}
    BY <2>5, <2>7 DEF BegunBar
  <2>9. task' = [task EXCEPT ![w] = OrderBar]
    BY <1>3, <2>3 DEF ReadPhase
  <2>10. Orders!Begin(w)
    BY <1>2, <2>2, <2>3, <2>4, <2>5, <2>6, <2>8, <2>9 DEF Orders!Begin
  <2> QED BY <2>10 DEF Orders!Next
<1>4. CASE Execute(w)
  <2>1. wpc[w] = "exec" /\ w \notin blocked
    BY <1>4, Running DEF Execute, At, IInv
  <2>2. rounds[w] + 1 = orders
    BY <2>1, PendingOutstanding
  <2>3. PICK ok \in BOOLEAN : success' = [success EXCEPT ![w] = ok]
    BY <1>4 DEF Execute, Results
  <2>4. \A v \in Workers : rounds'[v] = IF v = w THEN rounds[v] + 1 ELSE rounds[v]
    BY <1>4 DEF Execute, IInv, TypeOK
  <2>5. RanBar' = RanBar \cup {w} /\ w \notin RanBar
    BY <1>2, <2>2, <2>4 DEF RanBar, IInv, TypeOK
  <2>6. \A v \in Workers : wpc'[v] = IF v = w THEN "ran" ELSE wpc[v]
    BY <1>4 DEF Execute, Goto, IInv, TypeOK
  <2>7. BegunBar' = BegunBar /\ w \in BegunBar
    BY <2>1, <2>5, <2>6 DEF BegunBar
  <2>8. task' = task
    BY <1>4 DEF Execute
  <2>9. Orders!Finish(w, ok)
    BY <1>2, <2>3, <2>5, <2>7, <2>8 DEF Orders!Finish
  <2> QED BY <2>9 DEF Orders!Next
<1>5. CASE ~ReadPhase(w) /\ ~Execute(w)
  <2>1. UNCHANGED <<task, success, rounds>>
    BY <1>5 DEF Worker, Abort, Allocate, NotifyStarted, EnterStart, InitArenas,
         TakeOrder, EnterOrder, EnterDone, EnterRelease, Report, EndRound,
         Cleanup, workerVars
  <2>2. \A v \in Workers : wpc'[v] = "exec" <=> wpc[v] = "exec"
    BY <1>5 DEF Worker, Abort, Allocate, NotifyStarted, EnterStart, InitArenas,
         TakeOrder, EnterOrder, EnterDone, EnterRelease, Report, EndRound,
         Cleanup, workerVars, IInv, TypeOK, Goto, EnterGate, At, Released
  <2>3. RanBar' = RanBar
    BY <1>2, <2>1 DEF RanBar
  <2>4. BegunBar' = BegunBar
    BY <2>2, <2>3 DEF BegunBar
  <2> QED BY <1>2, <2>1, <2>3, <2>4 DEF Orders!vars
<1> QED BY <1>3, <1>4, <1>5

(* The answer to an order, by the thread t that collected the results.      *)
LEMMA RefineAnswer ==
  ASSUME IInv, NEW t \in Callers, Outstanding, phase # NoOrder, AtRest,
         acc[t] <=> \A i \in Workers : success[i],
         answer' = acc[t], UNCHANGED <<workerVars, orders>>, ~Outstanding'
  PROVE  Orders!Answer
<1>1. OrderBar = phase /\ OrderBar' = NoOrder
  BY DEF OrderBar
<1>2. RanBar = Workers
  BY DEF RanBar, AtRest, IInv, RoundsCount, TypeOK
<1>3. RanBar' = RanBar /\ BegunBar' = BegunBar /\ task' = task /\ success' = success
  BY DEF RanBar, BegunBar, workerVars
<1>4. answer' = (\A c \in Workers : success[c])
  <2>1. acc[t] \in BOOLEAN
    BY DEF IInv, TypeOK
  <2>2. CASE acc[t] = TRUE
    <3>1. \A c \in Workers : success[c]
      BY <2>2
    <3> QED BY <2>2, <3>1
  <2>3. CASE acc[t] = FALSE
    <3>1. ~\A c \in Workers : success[c]
      BY <2>3
    <3> QED BY <2>3, <3>1
  <2> QED BY <2>1, <2>2, <2>3
<1> QED BY <1>1, <1>2, <1>3, <1>4 DEF Orders!Answer

LEMMA RefineCaller ==
  ASSUME IInv, InCall \/ NewCall
  PROVE  Orders!Next \/ UNCHANGED Orders!vars
<1>1. ASSUME NEW t \in Callers, Post(t)
      PROVE  Orders!Submit(phase) /\ phase \in Phases
  <2>1. AtRest
    BY <1>1, CallerResting DEF IInv, Post, Goes
  <2>2. ~Outstanding /\ Outstanding' /\ phase' = phase /\ phase # NoOrder
    BY <1>1 DEF Post, Goes, Outstanding, IInv, Turns, TypeOK, Callers
  <2>3. OrderBar = NoOrder /\ OrderBar' = phase
    BY <2>2 DEF OrderBar
  <2>4. RanBar' = {}
    BY <1>1 DEF Post, Goes, workerVars, RanBar, IInv, RoundsCount, TypeOK
  <2>5. BegunBar' = {}
    BY <1>1, <2>1, <2>4 DEF BegunBar, AtRest, Post, Goes, workerVars
  <2>6. UNCHANGED <<task, success, answer>>
    BY <1>1 DEF Post, Goes, workerVars
  <2> QED BY <2>2, <2>3, <2>4, <2>5, <2>6 DEF Orders!Submit, IInv, TypeOK
<1>2. CASE Return
  <2>1. AtRest
    BY <1>2, CallerResting DEF IInv, Return, Goes, Callers
  <2>2. acc["main"] <=> \A i \in Workers : success[i]
    <3>1. \A i \in Workers : i < CoreSize
      BY CoreSizeAssumption DEF Workers
    <3> QED BY <1>2, <3>1 DEF Return, Goes, IInv, Collected, Callers
  <2>3. Outstanding /\ ~Outstanding' /\ phase # NoOrder
    BY <1>2 DEF Return, Goes, Outstanding, IInv, Turns, TypeOK, Callers
  <2>4. Orders!Answer
    BY <1>2, <2>1, <2>2, <2>3, RefineAnswer DEF Return, Goes, Callers
  <2> QED BY <2>4 DEF Orders!Next
<1>3. CASE Join
  <2>1. AtRest
    BY <1>3, CallerResting DEF IInv, Join, Callers
  <2>2. Outstanding /\ ~Outstanding' /\ phase # NoOrder
    BY <1>3 DEF Join, Outstanding, IInv, Turns, TypeOK, Callers, NoOrder
  <2>3. Orders!Answer
    BY <1>3, <2>1, <2>2, RefineAnswer DEF Join, Callers, IInv, Collected
  <2> QED BY <2>3 DEF Orders!Next
<1>4. ASSUME UNCHANGED <<workerVars, orders, answer>>,
             Outstanding' <=> Outstanding, Outstanding => phase' = phase
      PROVE  UNCHANGED Orders!vars
  BY <1>4 DEF Orders!vars, OrderBar, RanBar, BegunBar, workerVars
<1> USE DEF Goes, Outstanding, IInv, Turns, TypeOK, Callers
<1>5. ASSUME NEW t \in Callers, AwaitReady(t) \/ Collect(t)
      PROVE  UNCHANGED Orders!vars
  BY <1>4, <1>5 DEF AwaitReady, Collect
<1>6. ASSUME NEW p \in Phases, Order(p)
      PROVE  UNCHANGED Orders!vars
  BY <1>4, <1>6 DEF Order, MayCall
<1>7. CASE PlatformReady
  BY <1>4, <1>7 DEF PlatformReady
<1>8. CASE RunnerOrders
  BY <1>4, <1>8 DEF RunnerOrders
<1>9. CASE RunnerExits
  BY <1>4, <1>9 DEF RunnerExits
<1>10. CASE RunAsync
  BY <1>4, <1>10 DEF RunAsync, MayCall
<1>11. CASE StreamWait
  BY <1>4, <1>11 DEF StreamWait
<1>12. CASE PlatformDestroy
  BY <1>4, <1>12 DEF PlatformDestroy
<1> QED BY <1>1, <1>2, <1>3, <1>5, <1>6, <1>7, <1>8, <1>9, <1>10, <1>11, <1>12
        DEF InCall, NewCall, Orders!Next

(* The stream calls implement PhaseOrders for any number of cores: every    *)
(* core takes each order up once and carries it out, and the call answers   *)
(* the conjunction of the results of that very order (lines 445-556 with    *)
(* lines 235-296).                                                          *)
THEOREM Implements == Spec => OrdersImplemented
<1>1. IInv /\ [Next]_vars => [Orders!Next]_Orders!vars
  <2>1. CASE UNCHANGED vars
    BY <2>1 DEF vars, Orders!vars, OrderBar, Outstanding, RanBar, BegunBar
  <2> QED BY <2>1, RefineWorker, RefineCaller DEF Next, Stopped
<1> QED BY <1>1, RefineInit, Invariance, PTL DEF Spec, OrdersImplemented, Orders!Spec

-----------------------------------------------------------------------------
(* Why every order is answered: the workers' steps towards it are counted,  *)
(* none goes back, and as long as a call waits somebody can go on.          *)

\* The guard of one of the actions of a worker holds.
CanMove(w) ==
  \/ wpc[w] \in {"alloc", "posted", "go", "exec", "ran", "reported", "cleanup"}
  \/ wpc[w] \in {"gate1", "gate2", "gate3", "gate4", "gate5"} /\ w \notin blocked
  \/ wpc[w] = "loop" /\ (w # 0 \/ newOrder > 0)

Closing == phase = "DESTROY" /\ cpc["main"] \in {"collect", "idle", "closed"}

\* No call waits for ready, for a run to be joined or, once the destroy is
\* answered, for workers to end, unless what it waits for is there or somebody
\* goes on.
NobodyStuck ==
  WorkersStarted =>
    /\ (\E t \in Callers : cpc[t] \in {"boot", "await"}) =>
         ready > 0 \/ \E w \in Workers : CanMove(w)
    /\ cpc["main"] = "join" => cpc["runner"] # "none"
    /\ Closing => (\A w \in Workers : wpc[w] = "exited")
                  \/ \E w \in Workers : CanMove(w)

\* How far a worker has come in a round, counted from the task it carried out.
Place(l) ==
  CASE l \in {"absent", "alloc", "ran"}  -> 0
    [] l \in {"gate1", "gate4"}          -> 1
    [] l \in {"posted", "gate5"}         -> 2
    [] l \in {"gate2", "reported"}       -> 3
    [] l \in {"loop", "cleanup"}         -> 4
    [] l \in {"go", "exited"}            -> 5
    [] l = "gate3"                       -> 6
    [] l = "exec"                        -> 7

StepsDone(w) == 8 * rounds[w] + Place(wpc[w])

\* An order costs a worker eight steps at most; then it stands at a barrier.
WorkBounded == \A w \in Workers : StepsDone(w) <= 8 * orders + 6

\* Every step of a worker takes it further, and only its own steps change how
\* far it has come.
OnlyForward ==
  [][ \A w \in Workers :
        /\ Worker(w) => StepsDone(w)' > StepsDone(w)
        /\ StepsDone(w)' # StepsDone(w) => Worker(w) ]_vars

LEMMA PlaceIsSmall ==
  \A l \in WorkerLocations : Place(l) \in 0 .. 7 /\ (Place(l) = 7 <=> l = "exec")
  BY DEF WorkerLocations, Place

(* At most eight steps per order (lines 234-296): no worker goes round      *)
(* without an order.                                                        *)
THEOREM BoundedWork == Spec => []WorkBounded
<1>1. IInv => WorkBounded
  <2> SUFFICES ASSUME IInv, NEW w \in Workers
               PROVE  StepsDone(w) <= 8 * orders + 6
    BY DEF WorkBounded
  <2>1. rounds[w] \in Nat /\ orders \in Nat /\ wpc[w] \in WorkerLocations
    BY DEF IInv, TypeOK
  <2>2. rounds[w] + (IF Pending(w) THEN 1 ELSE 0) = orders
    BY DEF IInv, RoundsCount
  <2>3. wpc[w] = "exec" => Pending(w)
    BY DEF Pending
  <2> DEFINE place == Place(wpc[w])
  <2>4. place \in 0 .. 7 /\ (place = 7 <=> wpc[w] = "exec")
    BY <2>1, PlaceIsSmall
  <2> HIDE DEF place
  <2>5. 8 * rounds[w] + place <= 8 * orders + 6
    BY <2>1, <2>2, <2>3, <2>4
  <2> QED BY <2>5 DEF StepsDone, place
<1> QED BY <1>1, Invariance, PTL

LEMMA WorkerForward ==
  ASSUME TypeOK, NEW w \in Workers, Worker(w)
  PROVE  /\ StepsDone(w)' > StepsDone(w)
         /\ \A v \in Workers : v # w => StepsDone(v)' = StepsDone(v)
<1>1. rounds[w] \in Nat /\ wpc[w] \in WorkerLocations
  BY DEF TypeOK
<1>2. ASSUME NEW l, Goto(w, l), rounds' = rounds, Place(l) > Place(wpc[w]),
             l \in WorkerLocations
      PROVE  /\ StepsDone(w)' > StepsDone(w)
             /\ \A v \in Workers : v # w => StepsDone(v)' = StepsDone(v)
  <2>1. wpc'[w] = l /\ \A v \in Workers : v # w => wpc'[v] = wpc[v]
    BY <1>2 DEF Goto, TypeOK
  <2> DEFINE a == Place(wpc[w])
             b == Place(l)
  <2>2. a \in Nat /\ b \in Nat /\ b > a
    BY <1>1, <1>2, PlaceIsSmall
  <2>3. StepsDone(w) = 8 * rounds[w] + a /\ StepsDone(w)' = 8 * rounds[w] + b
    BY <1>2, <2>1 DEF StepsDone
  <2> HIDE DEF a, b
  <2>4. StepsDone(w)' > StepsDone(w)
    BY <1>1, <2>2, <2>3
  <2> QED BY <1>2, <2>1, <2>4 DEF StepsDone
<1>3. CASE Execute(w)
  <2>1. /\ wpc[w] = "exec" /\ wpc'[w] = "ran" /\ rounds'[w] = rounds[w] + 1
        /\ \A v \in Workers : v # w => wpc'[v] = wpc[v] /\ rounds'[v] = rounds[v]
    BY <1>3 DEF Execute, At, Goto, TypeOK
  <2>2. Place("exec") = 7 /\ Place("ran") = 0
    BY DEF Place
  <2>3. StepsDone(w) = 8 * rounds[w] + 7 /\ StepsDone(w)' = 8 * (rounds[w] + 1) + 0
    BY <2>1, <2>2 DEF StepsDone
  <2>4. StepsDone(w)' > StepsDone(w)
    BY <1>1, <2>3
  <2> QED BY <2>1, <2>4 DEF StepsDone
<1> USE DEF At, Released, EnterGate, Silent, Place, WorkerLocations
<1>4. CASE Allocate(w)
  BY <1>2, <1>4 DEF Allocate
<1>5. CASE NotifyStarted(w)
  BY <1>2, <1>5 DEF NotifyStarted
<1>6. CASE EnterStart(w)
  BY <1>2, <1>6 DEF EnterStart
<1>7. CASE InitArenas(w)
  BY <1>2, <1>7 DEF InitArenas
<1>8. CASE TakeOrder(w)
  BY <1>2, <1>8 DEF TakeOrder
<1>9. CASE EnterOrder(w)
  BY <1>2, <1>9 DEF EnterOrder
<1>10. CASE ReadPhase(w)
  BY <1>2, <1>10 DEF ReadPhase
<1>11. CASE EnterDone(w)
  BY <1>2, <1>11 DEF EnterDone
<1>12. CASE EnterRelease(w)
  BY <1>2, <1>12 DEF EnterRelease
<1>13. CASE Report(w)
  BY <1>2, <1>13 DEF Report
<1>14. CASE EndRound(w)
  BY <1>2, <1>14 DEF EndRound
<1>15. CASE Cleanup(w)
  BY <1>2, <1>15 DEF Cleanup
<1> QED BY <1>3, <1>4, <1>5, <1>6, <1>7, <1>8, <1>9, <1>10, <1>11, <1>12, <1>13,
           <1>14, <1>15 DEF Worker

(* The code of a worker has no way back within its round (lines 156-308).   *)
THEOREM StepsForward == Spec => OnlyForward
<1>1. TypeOK /\ [Next]_vars =>
        [ \A w \in Workers :
            /\ Worker(w) => StepsDone(w)' > StepsDone(w)
            /\ StepsDone(w)' # StepsDone(w) => Worker(w) ]_vars
  <2> SUFFICES ASSUME TypeOK, [Next]_vars, NEW w \in Workers
               PROVE  /\ Worker(w) => StepsDone(w)' > StepsDone(w)
                      /\ StepsDone(w)' # StepsDone(w) => Worker(w)
    OBVIOUS
  <2>1. ASSUME NEW v \in Workers, Worker(v), v # w
        PROVE  StepsDone(w)' = StepsDone(w)
    BY <2>1, WorkerForward
  <2>2. CASE \E v \in Workers : Worker(v)
    BY <2>1, <2>2, WorkerForward
  <2>3. CASE ~\E v \in Workers : Worker(v)
    <3>1. UNCHANGED <<wpc, rounds>>
      BY <2>3 DEF Next, Abort, InCall, NewCall, PlatformReady, RunnerOrders, Return,
         RunnerExits, Join, Post, AwaitReady, Collect, Order, RunAsync, StreamWait,
         PlatformDestroy, Goes, Stopped, vars, workerVars
    <3> QED BY <2>3, <3>1 DEF StepsDone
  <2> QED BY <2>2, <2>3
<1> QED BY <1>1, TypeCorrect, PTL DEF Spec, OnlyForward

(* The threads are there if they were started, and a joined run exists.     *)
Present ==
  /\ WorkersStarted => \A w \in Workers : wpc[w] # "absent"
  /\ cpc["main"] = "join" => cpc["runner"] # "none"

LEMMA PresentStep == TypeOK /\ Present /\ [Next]_vars => Present'
<1> SUFFICES ASSUME TypeOK, Present, [Next]_vars
             PROVE  Present'
  OBVIOUS
<1>1. ASSUME NEW w \in Workers, Worker(w) \/ Abort(w)
      PROVE  Present'
  BY <1>1 DEF TypeOK, Present, Worker, Abort, Allocate, NotifyStarted, EnterStart,
     InitArenas, TakeOrder, EnterOrder, ReadPhase, Execute, EnterDone,
     EnterRelease, Report, EndRound, Cleanup, At, Released, Goto, EnterGate, Silent,
     workerVars, callerVars
<1>2. CASE InCall \/ NewCall
  BY <1>2 DEF TypeOK, Present, InCall, NewCall, PlatformReady, RunnerOrders, Return,
     RunnerExits, Join, Post, AwaitReady, Collect, Order, RunAsync, StreamWait,
     PlatformDestroy, Goes, workerVars, MayCall, Callers, RunnerLocations,
     MainLocations
<1>3. CASE UNCHANGED vars
  BY <1>3 DEF Present, vars
<1> QED BY <1>1, <1>2, <1>3 DEF Next, Stopped

\* A worker that cannot go on has exited, is held by the barrier, or is worker 0
\* without an order; and some worker is not held.
LEMMA NotHeld ==
  ASSUME IInv, Present, WorkersStarted, \A w \in Workers : ~CanMove(w)
  PROVE  \E w \in Workers : \/ wpc[w] = "exited"
                            \/ w = 0 /\ wpc[0] = "loop" /\ ~(newOrder > 0)
<1>1. PICK w \in Workers : w \notin blocked
  BY DEF IInv, TypeOK, WorkersInStep
<1>2. wpc[w] \in WorkerLocations /\ wpc[w] # "absent" /\ ~CanMove(w)
  BY DEF IInv, TypeOK, Present
<1> QED BY <1>1, <1>2 DEF CanMove, WorkerLocations

(* Neither the wait for ready (lines 440, 457, 508) nor the join (538) nor  *)
(* the end of the threads is waited for in vain, whatever the core count.   *)
THEOREM SomebodyGoesOn == Spec => []NobodyStuck
<1>1. IInv /\ Present => NobodyStuck
  <2> SUFFICES ASSUME IInv, Present, WorkersStarted, \A w \in Workers : ~CanMove(w)
               PROVE  /\ (\E t \in Callers : cpc[t] \in {"boot", "await"}) => ready > 0
                      /\ Closing => \A w \in Workers : wpc[w] = "exited"
    BY DEF NobodyStuck, Present
  <2>1. ASSUME NEW w \in Workers, wpc[w] = "exited"
        PROVE  /\ InStretch("loop") /\ ~InHand /\ ~Starting /\ newOrder # 1
               /\ \A v \in Workers : task[v] = "DESTROY"
    <3>1. w \notin blocked /\ InStretch("loop")
      BY <2>1, Running, Together DEF IInv, Within, Free, Stretches
    <3>2. Within(0, "loop") /\ ~CanMove(0)
      BY <3>1, CoreZero DEF InStretch
    <3>3. \A v \in Workers : task[v] = "DESTROY" /\ rounds[v] = orders
      BY <2>1, Unanimous DEF DestroyIsUnanimous
    <3>4. ~Pending(0)
      BY <3>3, CoreZero DEF IInv, RoundsCount, TypeOK
    <3> QED BY <3>1, <3>2, <3>3, <3>4
            DEF Within, Free, Gate, CanMove, InHand, Starting, Pending
  <2>2. ~InHand /\ ~Starting /\ ~(newOrder > 0)
    BY <2>1, NotHeld DEF IInv, TypeOK, TokenBalance, InHand, Starting
  <2>3. ASSUME NEW t \in Callers, cpc[t] \in {"boot", "await"}
        PROVE  ready > 0
    BY <2>2, <2>3 DEF IInv, TypeOK, TokenBalance
  <2>4. ASSUME Closing, NEW w \in Workers
        PROVE  wpc[w] = "exited"
    <3>1. cpc["runner"] = "none"
      BY <2>4 DEF IInv, Turns, TypeOK, Closing, RunnerLocations
    <3>2. AtRest
      BY <2>4, <3>1, CallerResting DEF IInv, Closing, Callers
    <3>3. rounds[w] = orders /\ task[w] = "DESTROY"
      BY <2>4, <3>1, <3>2 DEF IInv, RoundsCount, AtRest, TypeOK, LastTask, Closing, Callers
    <3>4. PICK s \in Stretches : Within(w, s)
      BY DEF IInv, WorkersInStep, InStretch
    <3>5. wpc[w] \notin {"absent", "alloc", "gate1", "posted", "gate2", "loop", "go"}
          /\ ~(wpc[w] = "gate3" /\ w \in blocked)
      BY <3>3 DEF IInv, LastTask, NoOrder
    <3> QED BY <3>2, <3>4, <3>5 DEF AtRest, Within, Gate, Free, Stretches, CanMove
  <2> QED BY <2>3, <2>4
<1>2. Init => Present
  BY WorkersStartedAssumption DEF Init, Present, FirstCall, Callers
<1> QED BY <1>1, <1>2, PresentStep, TypeCorrect, Invariance, PTL DEF Spec
=============================================================================
