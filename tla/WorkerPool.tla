----------------------------- MODULE WorkerPool -----------------------------
(***************************************************************************)
(* The worker threads of the platform (drake_ia_thread in intel-ia.c) and  *)
(* the calls that order them about.  One barrier (work_notify), one        *)
(* semaphore to give an order (new_order), one to say that it was carried  *)
(* out (ready), one shared word naming the order (phase) and one result    *)
(* per worker (success) are all they share.                                *)
(*                                                                         *)
(* A worker is modelled from one wait to the next: an action runs from the *)
(* point where the previous barrier lets the worker go to the next         *)
(* operation on shared state.                                              *)
(***************************************************************************)
EXTENDS Naturals, FiniteSets

CONSTANTS
  CoreSize,        \* core_size: how many workers, and the barrier's count
  MaxOrders,       \* bound: how many orders before only DESTROY is left
  WorkersStarted   \* whether drake_platform_init starts its threads and
                   \* waits for them (lines 436 and 440 are both commented
                   \* out in the source: FALSE is the source as it stands)

ASSUME CoreSizeAssumption == CoreSize \in Nat \ {0}
ASSUME MaxOrdersAssumption == MaxOrders \in Nat
ASSUME WorkersStartedAssumption == WorkersStarted \in BOOLEAN

Workers == 0 .. CoreSize - 1
Phases  == {"CREATE", "INIT", "RUN", "DESTROY"}
NoOrder == "none"

\* The threads that make stream calls: the program's own, and the one that
\* drake_platform_stream_run_async creates.
Callers == {"main", "runner"}

VARIABLES
  wpc,       \* where each worker is
  blocked,   \* the workers held by the barrier work_notify
  task,      \* per worker, the phase it read when it last left the switch
  success,   \* success[core]: what the worker's last task returned
  phase,     \* the phase field: the order, as the caller wrote it
  newOrder,  \* value of the semaphore new_order
  ready,     \* value of the semaphore ready
  cpc,       \* where each caller is
  idx,       \* per caller, how many results it has read
  acc,       \* per caller, the conjunction of those
  answer,    \* what the last stream call returned to the program
  buffers,   \* the workers whose private and shared buffers are allocated
  alive,     \* the platform's barriers and semaphores still exist
  aborted,   \* the process has died in abort() or of a stray pointer
  orders,    \* history: how many orders were posted
  rounds     \* history: per worker, how many orders it carried out

workerVars == <<wpc, blocked, task, success, buffers, rounds>>
callerVars == <<phase, cpc, idx, acc, answer, alive, orders>>
vars == <<wpc, blocked, task, success, phase, newOrder, ready, cpc, idx, acc,
          answer, buffers, alive, aborted, orders, rounds>>

WorkerLocations ==
  {"absent", "alloc", "gate1", "posted", "gate2", "loop", "go", "gate3",
   "exec", "ran", "gate4", "gate5", "reported", "cleanup", "exited"}
MainLocations   == {"boot", "idle", "post", "await", "collect", "join", "closed"}
RunnerLocations == {"none", "start", "post", "await", "collect", "exited"}

-----------------------------------------------------------------------------
(* The state drake_platform_init hands over.  With the threads started, the *)
(* caller still waits for the first post on ready before it returns.        *)

\* Mutant: the thread is started (436) but its first post is not awaited (440).
FirstCallNoWait == "idle"

FirstCall == IF WorkersStarted THEN "boot" ELSE "idle"

Init ==
  /\ wpc = [w \in Workers |-> IF WorkersStarted THEN "alloc" ELSE "absent"]
  /\ blocked = {}
  /\ task = [w \in Workers |-> NoOrder]
  /\ success \in [Workers -> BOOLEAN]
  /\ phase = NoOrder
  /\ newOrder = 0
  /\ ready = 0
  /\ cpc = [t \in Callers |-> IF t = "main" THEN FirstCall ELSE "none"]
  /\ idx = [t \in Callers |-> 0]
  /\ acc = [t \in Callers |-> TRUE]
  /\ answer = FALSE
  /\ buffers = {}
  /\ alive = TRUE
  /\ aborted = FALSE
  /\ orders = 0
  /\ rounds = [w \in Workers |-> 0]

-----------------------------------------------------------------------------
(* pthread_barrier_wait on work_notify: the arrival that makes the count    *)
(* lets everyone go; a worker that was let go is still at its gate, outside *)
(* blocked, until its next step.                                            *)

At(w, loc) == ~aborted /\ wpc[w] = loc

Released(w, gate) == At(w, gate) /\ w \notin blocked

Goto(w, loc) == wpc' = [wpc EXCEPT ![w] = loc]

\* Mutant: the barrier is initialised for one thread too few.
ArriveShort(w) ==
  blocked' = IF Cardinality(blocked \cup {w}) + 1 >= CoreSize
             THEN {} ELSE blocked \cup {w}

Arrive(w) ==
  blocked' = IF Cardinality(blocked \cup {w}) = CoreSize
             THEN {} ELSE blocked \cup {w}

EnterGate(w, gate) == Goto(w, gate) /\ Arrive(w)

\* A step that touches neither semaphore.
Silent == UNCHANGED <<newOrder, ready, aborted, callerVars>>

-----------------------------------------------------------------------------
(* A worker's start.                                                        *)

\* Allocate the buffers, pin the thread, and wait for the others' buffers.
Allocate(w) ==
  /\ At(w, "alloc")
  /\ buffers' = buffers \cup {w}
  /\ EnterGate(w, "gate1")
  /\ UNCHANGED <<task, success, rounds>> /\ Silent

\* Worker 0 tells the thread in drake_platform_init that all are there.
NotifyStarted(w) ==
  /\ w = 0
  /\ Released(w, "gate1")
  /\ ready' = ready + 1
  /\ Goto(w, "posted")
  /\ UNCHANGED <<blocked, task, success, buffers, rounds, newOrder, aborted, callerVars>>

EnterStart(w) ==
  /\ \/ w # 0 /\ Released(w, "gate1")
     \/ w = 0 /\ At(w, "posted")
  /\ EnterGate(w, "gate2")
  /\ UNCHANGED <<task, success, buffers, rounds>> /\ Silent

\* Set up this worker's allocators over the buffers of every core.
InitArenas(w) ==
  /\ Released(w, "gate2")
  /\ Goto(w, "loop")
  /\ UNCHANGED <<blocked, task, success, buffers, rounds>> /\ Silent

-----------------------------------------------------------------------------
(* A worker's loop: one round per order.                                    *)

\* Mutant: core 0 does not wait for an order.
TakeOrderUnasked(w) ==
  /\ w = 0
  /\ At(w, "loop")
  /\ newOrder' = newOrder - 1
  /\ Goto(w, "go")
  /\ UNCHANGED <<blocked, task, success, buffers, rounds, ready, aborted,
                 callerVars>>

TakeOrder(w) ==
  /\ w = 0
  /\ At(w, "loop")
  /\ newOrder > 0
  /\ newOrder' = newOrder - 1
  /\ Goto(w, "go")
  /\ UNCHANGED <<blocked, task, success, buffers, rounds, ready, aborted,
                 callerVars>>

EnterOrder(w) ==
  /\ \/ w # 0 /\ At(w, "loop")
     \/ w = 0 /\ At(w, "go")
  /\ EnterGate(w, "gate3")
  /\ UNCHANGED <<task, success, buffers, rounds>> /\ Silent

\* switch(handler->phase)
ReadPhase(w) ==
  /\ Released(w, "gate3")
  /\ task' = [task EXCEPT ![w] = phase]
  /\ Goto(w, "exec")
  /\ UNCHANGED <<blocked, success, buffers, rounds>> /\ Silent

\* The results of drake_stream_init, _run and _destroy are the framework's;
\* a CREATE always counts as a success.
Results(p) == IF p = "CREATE" THEN {TRUE} ELSE BOOLEAN

Execute(w) ==
  /\ At(w, "exec")
  /\ \E ok \in Results(task[w]) : success' = [success EXCEPT ![w] = ok]
  /\ rounds' = [rounds EXCEPT ![w] = @ + 1]
  /\ Goto(w, "ran")
  /\ UNCHANGED <<blocked, task, buffers>> /\ Silent

\* "Wait for everyone to be done"
EnterDone(w) ==
  /\ At(w, "ran")
  /\ EnterGate(w, "gate4")
  /\ UNCHANGED <<task, success, buffers, rounds>> /\ Silent

\* Mutant: the caller is told before the last barrier, not after it.
EnterReleaseReported(w) ==
  /\ Released(w, "gate4")
  /\ EnterGate(w, "gate5")
  /\ ready' = IF w = 0 THEN ready + 1 ELSE ready
  /\ UNCHANGED <<task, success, buffers, rounds, newOrder, aborted, callerVars>>

EnterRelease(w) ==
  /\ Released(w, "gate4")
  /\ EnterGate(w, "gate5")
  /\ UNCHANGED <<task, success, buffers, rounds>> /\ Silent

\* "Tell master thread everyone is done"
Report(w) ==
  /\ w = 0
  /\ Released(w, "gate5")
  /\ ready' = ready + 1
  /\ Goto(w, "reported")
  /\ UNCHANGED <<blocked, task, success, buffers, rounds, newOrder, aborted, callerVars>>

\* Mutant: the loop looks at the phase again instead of at what was carried out.
EndRoundRereads(w) ==
  /\ \/ w # 0 /\ Released(w, "gate5")
     \/ w = 0 /\ At(w, "reported")
  /\ Goto(w, IF phase = "DESTROY" THEN "cleanup" ELSE "loop")
  /\ UNCHANGED <<blocked, task, success, buffers, rounds>> /\ Silent

\* Mutant: DESTROY does not set done.
EndRoundForever(w) ==
  /\ \/ w # 0 /\ Released(w, "gate5")
     \/ w = 0 /\ At(w, "reported")
  /\ Goto(w, "loop")
  /\ UNCHANGED <<blocked, task, success, buffers, rounds>> /\ Silent

\* while(!done): done was set by the round that carried out a DESTROY.
EndRound(w) ==
  /\ \/ w # 0 /\ Released(w, "gate5")
     \/ w = 0 /\ At(w, "reported")
  /\ Goto(w, IF task[w] = "DESTROY" THEN "cleanup" ELSE "loop")
  /\ UNCHANGED <<blocked, task, success, buffers, rounds>> /\ Silent

Cleanup(w) ==
  /\ At(w, "cleanup")
  /\ buffers' = buffers \ {w}
  /\ Goto(w, "exited")
  /\ UNCHANGED <<blocked, task, success, rounds>> /\ Silent

\* posix_memalign may fail, the rows of private_buffer, shared_buffer,
\* private and shared are pointers nobody set, and what a task allocates may
\* not fit its arena: each ends the whole process.
Abort(w) ==
  /\ At(w, "alloc") \/ Released(w, "gate2") \/ At(w, "exec")
  /\ aborted' = TRUE
  /\ UNCHANGED <<workerVars, newOrder, ready, callerVars>>

Worker(w) ==
  \/ Allocate(w) \/ NotifyStarted(w) \/ EnterStart(w) \/ InitArenas(w)
  \/ TakeOrder(w) \/ EnterOrder(w) \/ ReadPhase(w) \/ Execute(w)
  \/ EnterDone(w) \/ EnterRelease(w) \/ Report(w) \/ EndRound(w)
  \/ Cleanup(w)

-----------------------------------------------------------------------------
(* The calls of the program.  A call writes the phase, posts new_order,     *)
(* waits for ready, reads the results one by one and returns.               *)

\* Caller t goes on, in a call, from one place to the next.
Goes(t, from, to) ==
  /\ ~aborted
  /\ cpc[t] = from
  /\ cpc' = [cpc EXCEPT ![t] = to]
  /\ UNCHANGED <<workerVars, aborted>>

\* sem_wait(&stream->ready), at the end of drake_platform_init
PlatformReady ==
  /\ Goes("main", "boot", "idle")
  /\ ready > 0
  /\ ready' = ready - 1
  /\ UNCHANGED <<newOrder, phase, idx, acc, answer, alive, orders>>

\* The order of calls a program keeps to.  The bound: once MaxOrders orders
\* were given, only the one that ends the stream is left.
MayFollow(p) ==
  /\ \/ phase = NoOrder  /\ p = "CREATE"
     \/ phase = "CREATE" /\ p \in {"INIT", "DESTROY"}
     \/ phase = "INIT"   /\ p \in {"RUN", "DESTROY"}
     \/ phase = "RUN"    /\ p \in {"RUN", "DESTROY"}
  /\ orders < MaxOrders \/ p = "DESTROY" \/ phase = NoOrder

\* A program waits for the run it started before it gives another order.
MayCall == ~aborted /\ cpc["main"] = "idle" /\ cpc["runner"] = "none"

Order(p) ==
  /\ MayCall
  /\ MayFollow(p)
  /\ Goes("main", "idle", "post")
  /\ phase' = p
  /\ UNCHANGED <<newOrder, ready, idx, acc, answer, alive, orders>>

RunAsync ==
  /\ MayCall
  /\ MayFollow("RUN")
  /\ Goes("runner", "none", "start")
  /\ UNCHANGED <<newOrder, ready, phase, idx, acc, answer, alive, orders>>

RunnerOrders ==
  /\ Goes("runner", "start", "post")
  /\ phase' = "RUN"
  /\ UNCHANGED <<newOrder, ready, idx, acc, answer, alive, orders>>

\* Mutant: the call does not wait for ready.
PostNoWait(t) ==
  /\ Goes(t, "post", "collect")
  /\ newOrder' = newOrder + 1
  /\ orders' = orders + 1
  /\ idx' = [idx EXCEPT ![t] = 0]
  /\ acc' = [acc EXCEPT ![t] = TRUE]
  /\ UNCHANGED <<ready, phase, answer, alive>>

Post(t) ==
  /\ Goes(t, "post", "await")
  /\ newOrder' = newOrder + 1
  /\ orders' = orders + 1
  /\ UNCHANGED <<ready, phase, idx, acc, answer, alive>>

\* Mutant: success is not set to 1 before the results are read.
AwaitReadyStale(t) ==
  /\ Goes(t, "await", "collect")
  /\ ready > 0
  /\ ready' = ready - 1
  /\ idx' = [idx EXCEPT ![t] = 0]
  /\ UNCHANGED <<newOrder, phase, acc, answer, alive, orders>>

AwaitReady(t) ==
  /\ Goes(t, "await", "collect")
  /\ ready > 0
  /\ ready' = ready - 1
  /\ idx' = [idx EXCEPT ![t] = 0]
  /\ acc' = [acc EXCEPT ![t] = TRUE]
  /\ UNCHANGED <<newOrder, phase, answer, alive, orders>>

\* success = success && stream->success[i]
Collect(t) ==
  /\ Goes(t, "collect", "collect")
  /\ idx[t] < CoreSize
  /\ acc' = [acc EXCEPT ![t] = @ /\ success[idx[t]]]
  /\ idx' = [idx EXCEPT ![t] = @ + 1]
  /\ UNCHANGED <<newOrder, ready, phase, answer, alive, orders>>

Return ==
  /\ Goes("main", "collect", "idle")
  /\ idx["main"] = CoreSize
  /\ answer' = acc["main"]
  /\ UNCHANGED <<newOrder, ready, phase, idx, acc, alive, orders>>

\* pthread_exit with the status of the run
RunnerExits ==
  /\ Goes("runner", "collect", "exited")
  /\ idx["runner"] = CoreSize
  /\ UNCHANGED <<newOrder, ready, phase, idx, acc, answer, alive, orders>>

\* drake_platform_stream_wait: the call, and what pthread_join brings back
StreamWait ==
  /\ Goes("main", "idle", "join")
  /\ cpc["runner"] # "none"
  /\ UNCHANGED <<newOrder, ready, phase, idx, acc, answer, alive, orders>>

Join ==
  /\ ~aborted
  /\ cpc["main"] = "join"
  /\ cpc["runner"] = "exited"
  /\ answer' = acc["runner"]
  /\ cpc' = [cpc EXCEPT !["main"] = "idle", !["runner"] = "none"]
  /\ UNCHANGED <<workerVars, newOrder, ready, phase, idx, acc, alive, aborted,
                 orders>>

\* Destroys the barrier and the semaphores and frees success without joining
\* a worker.
PlatformDestroy ==
  /\ MayCall
  /\ phase = "DESTROY"
  /\ Goes("main", "idle", "closed")
  /\ alive' = FALSE
  /\ UNCHANGED <<newOrder, ready, phase, idx, acc, answer, orders>>

\* Everything that goes on inside a call, as against the start of one.
InCall ==
  \/ PlatformReady \/ RunnerOrders \/ Return \/ RunnerExits \/ Join
  \/ \E t \in Callers : Post(t) \/ AwaitReady(t) \/ Collect(t)

NewCall ==
  \/ \E p \in Phases : Order(p)
  \/ RunAsync \/ StreamWait \/ PlatformDestroy

Stopped ==
  /\ \/ aborted
     \/ cpc["main"] = "closed" /\ \A w \in Workers : wpc[w] = "exited"
  /\ UNCHANGED vars

Next ==
  \/ \E w \in Workers : Worker(w) \/ Abort(w)
  \/ InCall
  \/ NewCall
  \/ Stopped

\* Threads are scheduled; a call that was made goes on.  Nothing makes the
\* program call.
Fairness ==
  /\ \A w \in Workers : WF_vars(Worker(w))
  /\ WF_vars(InCall)

Spec == Init /\ [][Next]_vars
FairSpec == Spec /\ Fairness

-----------------------------------------------------------------------------
(* Properties.                                                              *)

\* Every variable keeps its type; a semaphore never goes below zero.
TypeOK ==
  /\ wpc \in [Workers -> WorkerLocations]
  /\ blocked \subseteq Workers
  /\ task \in [Workers -> Phases \cup {NoOrder}]
  /\ success \in [Workers -> BOOLEAN]
  /\ phase \in Phases \cup {NoOrder}
  /\ newOrder \in Nat
  /\ ready \in Nat
  /\ cpc \in [Callers -> MainLocations \cup RunnerLocations]
  /\ cpc["main"] \in MainLocations
  /\ cpc["runner"] \in RunnerLocations
  /\ idx \in [Callers -> 0 .. CoreSize]
  /\ acc \in [Callers -> BOOLEAN]
  /\ answer \in BOOLEAN
  /\ buffers \subseteq Workers
  /\ alive \in BOOLEAN
  /\ aborted \in BOOLEAN
  /\ orders \in Nat
  /\ rounds \in [Workers -> Nat]

\* A stretch is what a worker does between two openings of the barrier: Free
\* where it may be, Gate where it waits when it is through.
Stretches == {"absent", "alloc", "start", "loop", "exec", "release"}

Free(s) ==
  CASE s = "absent"  -> {"absent"}
    [] s = "alloc"   -> {"alloc"}
    [] s = "start"   -> {"gate1", "posted"}
    [] s = "loop"    -> {"gate2", "loop", "go", "gate5", "reported", "cleanup",
                         "exited"}
    [] s = "exec"    -> {"gate3", "exec", "ran"}
    [] s = "release" -> {"gate4"}

Gate(s) ==
  CASE s = "absent"  -> "absent"
    [] s = "alloc"   -> "gate1"
    [] s = "start"   -> "gate2"
    [] s = "loop"    -> "gate3"
    [] s = "exec"    -> "gate4"
    [] s = "release" -> "gate5"

Within(w, s) == IF w \in blocked THEN wpc[w] = Gate(s) ELSE wpc[w] \in Free(s)

InStretch(s) == \A w \in Workers : Within(w, s)

\* One barrier object serves five barrier calls of the worker's code (lines
\* 204, 210/215, 242/247, 278, 285/294): no worker is ever at one of them
\* while another is at, or on its way to, a different one.
WorkersInStep ==
  /\ \E s \in Stretches : InStretch(s)
  /\ blocked # Workers

\* The order is with the workers: taken from new_order, not yet reported.
InHand == wpc[0] \in {"go", "gate3", "exec", "ran", "gate4", "gate5"}
Starting == wpc[0] \in {"alloc", "gate1"}

\* The two semaphores carry one token between the caller and worker 0, and
\* nobody waits on ready for a token that is not on its way: the wait at the
\* end of drake_platform_init (line 440) takes the token of line 209.
TokenBalance ==
  newOrder + ready + (IF InHand \/ Starting THEN 1 ELSE 0)
    = (IF \E t \in Callers : cpc[t] \in {"boot", "await"} THEN 1 ELSE 0)

\* When a caller reads success, every worker has carried out every order
\* given, the caller's own included: no result it reads is an older order's.
AnswerIsComplete ==
  \A t \in Callers :
    cpc[t] = "collect" => \A w \in Workers : rounds[w] = orders

\* The phase word is not protected by a lock: it is never written while a
\* worker that was let go for an order has still to carry that order out.
PhaseStable ==
  [][ phase' # phase =>
        \A w \in Workers :
          /\ wpc[w] \notin {"exec", "ran", "gate4"}
          /\ wpc[w] = "gate3" => w \in blocked ]_vars

\* The platform is destroyed without joining a worker: those that still run
\* then no longer use its barrier, its semaphores or success.
NoUseAfterDestroy ==
  ~alive => \A w \in Workers :
              wpc[w] \in {"gate5", "reported", "cleanup", "exited"} /\ w \notin blocked

\* A worker that sets up its arenas, or carries out an order, finds the
\* buffers of every core allocated ("Wait for all cores to have their shared
\* memory buffer allocated") and not yet freed.
BuffersOutliveUse ==
  (\E w \in Workers :
     \/ wpc[w] \in {"gate2", "gate3", "gate4"} /\ w \notin blocked
     \/ wpc[w] \in {"exec", "ran"}) => buffers = Workers

\* A worker leaves its loop only after a DESTROY that every worker carried
\* out, so nobody is left waiting for it at the barrier.
DestroyIsUnanimous ==
  (\E w \in Workers : wpc[w] \in {"cleanup", "exited"}) =>
     \A w \in Workers : task[w] = "DESTROY" /\ rounds[w] = orders

\* Once given, an order is answered, whatever the workers' pace.
EveryOrderAnswered ==
  \A t \in Callers : cpc[t] = "await" ~> cpc[t] \in {"idle", "exited"} \/ aborted

\* After the call that destroys the stream every worker thread ends.
WorkersExit ==
  cpc["main"] = "await" /\ phase = "DESTROY"
    ~> aborted \/ \A w \in Workers : wpc[w] = "exited"

-----------------------------------------------------------------------------
(* The inductive invariant: why the properties above hold.                  *)

\* The two callers take turns, and the platform is closed only after DESTROY.
Turns ==
  /\ cpc["runner"] # "none" => cpc["main"] \in {"idle", "join"}
  /\ cpc["runner"] = "start" => phase \in {"INIT", "RUN"}
  /\ cpc["main"] = "boot" => orders = 0
  /\ \A t \in Callers : cpc[t] \in {"post", "await", "collect"} => phase # NoOrder
  /\ cpc["runner"] \in {"post", "await", "collect", "exited"} => phase = "RUN"
  /\ cpc["main"] = "closed" => phase = "DESTROY"
  /\ alive = (cpc["main"] # "closed")

\* The latest order is on its way to worker w, which has still to carry it out.
Pending(w) ==
  \/ newOrder = 1
  \/ wpc[0] = "go"
  \/ wpc[0] = "gate3" /\ 0 \in blocked
  \/ wpc[w] = "exec"
  \/ wpc[w] = "gate3" /\ w \notin blocked

RoundsCount ==
  \A w \in Workers : rounds[w] + (IF Pending(w) THEN 1 ELSE 0) = orders

\* What a worker did last, by where it is and by the order given last.
NobodyWrites == \A t \in Callers : cpc[t] \notin {"start", "post"}

LastTask ==
  \A w \in Workers :
    /\ wpc[w] = "exec" => task[w] = phase
    /\ rounds[w] = orders /\ (\A t \in Callers : cpc[t] # "post") => task[w] = phase
    /\ wpc[w] \in {"absent", "alloc", "gate1", "posted", "gate2"} => task[w] = NoOrder
    /\ wpc[w] \in {"loop", "go"} \/ (wpc[w] = "gate3" /\ w \in blocked)
         => task[w] # "DESTROY"
    /\ wpc[w] \in {"cleanup", "exited"} => task[w] = "DESTROY"
    /\ task[w] = "DESTROY" =>
         phase = "DESTROY" /\ NobodyWrites /\ (wpc[w] = "exec" \/ rounds[w] = orders)

BuffersHeld ==
  \A w \in Workers : w \notin buffers => wpc[w] \in {"absent", "alloc", "exited"}

\* What a caller has collected so far is the conjunction of current results.
Collected ==
  /\ \A t \in Callers :
       cpc[t] = "collect" => (acc[t] <=> \A i \in Workers : i < idx[t] => success[i])
  /\ cpc["runner"] = "exited" => (acc["runner"] <=> \A i \in Workers : success[i])

IInv ==
  /\ TypeOK
  /\ WorkersInStep
  /\ Turns
  /\ TokenBalance
  /\ RoundsCount
  /\ LastTask
  /\ BuffersHeld
  /\ Collected

-----------------------------------------------------------------------------
(* The stream calls keep the promise of PhaseOrders.                        *)

Outstanding ==
  \/ cpc["main"] \in {"await", "collect"}
  \/ cpc["runner"] \in {"await", "collect", "exited"}

OrderBar == IF Outstanding THEN phase ELSE NoOrder
RanBar   == {w \in Workers : rounds[w] = orders}
BegunBar == RanBar \cup {w \in Workers : wpc[w] = "exec"}

Orders == INSTANCE PhaseOrders WITH
            Cores <- Workers, order <- OrderBar, begun <- BegunBar,
            ran <- RanBar, did <- task, result <- success

\* Every core takes each order up once, and the answer is the conjunction of
\* the results of that very order.
OrdersImplemented == Orders!Spec

=============================================================================
