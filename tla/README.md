# Verification of drake-intel-ia

TLA+ models of the Intel platform backend of the Drake streaming framework, the
TLC runs that check them, and TLAPS proofs about them. The code is C, in
`src/src/`: `intel-ia.c` (the platform), `cpu_manager.c` (the machine's cpus),
`sysfs.c` (files of the kernel), `msr.c` (turbo boost registers). Line numbers
below are those of `intel-ia.c` unless another file is named.

The models follow the build the Makefile configures: `MANAGE_CPU`,
`SCALE_FREQUENCY`, `DISABLE_UNUSED_CORES`, `MONITOR_POWER` and
`MANAGE_TURBO_BOOST` are on, `USE_USLEEP` and `RAW_RAPL` are not.

## The system

A program initialises the platform once, gives its worker threads orders
(create, init, run, destroy a stream), may measure power meanwhile, and destroys
the platform.

| component | state | operations | interacts through |
|---|---|---|---|
| worker threads (156-308) | per thread: position, phase last read; `success[]`, the buffers | one round per order | one barrier `work_notify`, semaphores `new_order` and `ready`, plain fields `phase`, `success` |
| stream calls (445-556) | the caller's position, its own thread for `run_async` | create, init, run, run_async, wait, destroy | the same |
| platform (382-443, 558-576) | barriers, semaphores, tables | init, destroy | creates and ends all others |
| power tracker (1131-1404, 1502-1515) | thread, semaphore `run`, readings | init, begin, end, destroy | `run`; hotplug files shared with the core calls |
| core and sleep calls (309-378) | none of their own | enable or disable a core or idle states | hotplug, cpuidle and msr files |
| cpu manager (`cpu_manager.c`) | tables of files; core numbering | init, destroy | the kernel's state, which outlives the process |
| msr (`msr.c`) | old content of a register | open, disable, enable, close | register, possibly one per package |
| sysfs (`sysfs.c`) | open files, values to write | open, read, write, close; list parser | files |
| frequency (940-1003) | field `read_freq` | set with polling wait, get | scaling and current frequency files |
| memory (594-743), local barriers (744-771) | one arena per core, seen by each core through a queue of its own | malloc, calloc, aligned_alloc; barrier alloc, wait, destroy | arenas of pelib |
| global barrier, mutex (809-825) | pthread objects | wait; begin, end | |
| time (1011-1129), queries, printing (1406-1500) | none | | |

What makes it hard: threads that only a reusable barrier and two semaphores keep
apart; fields read and written without locks; a destroy that joins nobody; a
measuring thread and the program that both write the hotplug files; kernel state
that survives a crash; arrays indexed now by core, now by online cpu, now by
present cpu; a wait that ends when a pair of numbers compares the right way;
cores that share memory without telling each other where it is.

What makes each component correct:

- workers and calls: every order is carried out once by every worker, its answer
  is made of its own results, no worker is left behind at a barrier, nothing is
  used after it was freed or destroyed;
- tracker: it leaves cores as drake wants them, reads only packages that are
  awake, measures what happened between its two calls;
- cpu manager: one cpu per physical core stays on, cores are numbered package by
  package, a core's calls reach that core's cpu, everything is restored;
- list parser: what the kernel lists is read as what it means, and a text that is
  refused is refused at the character that does not fit;
- frequency: a core runs at the frequency it asked for when the call returns, and
  the call does not return much later than that;
- memory: all cores get the same addresses for the same calls, blocks never
  overlap, what was written stays, a local barrier is initialised before it is used.

`PROJECT.json` lists the hazards with the line where each bites.

## Modules

| module | models | extends or instantiates |
|---|---|---|
| `PhaseOrders` | what the stream calls promise, without threads | |
| `WorkerPool` | workers, stream calls, platform creation and destruction | instantiates `PhaseOrders` |
| `MCWorkerPool` | the instance for TLC | `WorkerPool` |
| `WorkerPoolProofs` | its theorems | `WorkerPool`, `TLAPS` |
| `PowerTracker` | measuring thread, power calls, core calls | |
| `MCPowerTracker` | a machine of two packages | `PowerTracker` |
| `PowerTrackerProofs` | its theorems | `PowerTracker`, `TLAPS` |
| `CpuManager` | `cpu_manager_init` and `_destroy`, msr, core and sleep calls, crashes | |
| `MCCpuManager` | three machines | `CpuManager` |
| `CpuManagerProofs` | its theorems | `CpuManager`, `TLAPS` |
| `FrequencyTable` | the cutting of the kernel's list of frequencies into levels | |
| `FrequencyScaling` | setting a frequency, waiting for it, reading it back | `FrequencyTable` |
| `DataInduction` | no part of the system: induction over numbers, for the proofs | |
| `MCFrequencyScaling` | a table of two frequencies | `FrequencyScaling` |
| `FrequencyScalingProofs` | its theorems | `FrequencyScaling`, `DataInduction`, `TLAPS` |
| `SharedHeap` | arenas, local barriers, the global barrier | |
| `MCSharedHeap` | the programs of the instance | `SharedHeap` |
| `SharedHeapProofs` | its theorems | `SharedHeap`, `TLAPS` |
| `SimpleSetParser` | the parser of cpu lists | |
| `MCSimpleSetParser` | the texts of the instance | `SimpleSetParser` |
| `SimpleSetParserProofs` | its theorems | `SimpleSetParser`, `DataInduction`, `TLAPS` |

Definitions marked "Mutant" in a comment are variants of the definition that
follows, each with a plausible bug; the specifications do not use them.
`PROJECT.json` says which property each one breaks.

### WorkerPool

`wpc[w]` is a worker's place; a step runs from the point where the barrier lets a
worker go to its next operation on shared state. The barrier is the set
`blocked`: the arrival that makes it complete empties it, and a worker that was
let go remains at its gate outside of `blocked` until it is scheduled again, so
that fast workers can be a whole stretch ahead of it. `gate1` to `gate5` are the
barrier calls 204, 210/215, 242/247, 278 and 285/294, all on the same object. `task[w]` is what
the worker read in `switch(handler->phase)`, and with it the local variable `done`.
`success` begins as any value, as freshly allocated memory does.

The callers are `main` and `runner`, the thread of `drake_platform_stream_run_async`.
A call writes the phase, posts `new_order`, waits for `ready`, resets its own
result, reads `success[i]` one at a time and returns: `Order`, `Post`,
`AwaitReady`, `Collect`, `Return`. The assumptions on the program are
`MayFollow` (create before init before run, destroy last) and `MayCall` (it
waits for a run it started before it gives another order); no code enforces
either. `Abort` stands for every way in which a worker brings the process down: a
failing allocation, the row pointers 174-230 use without having been set, an
arena that is full.

`WorkersStarted` decides whether `drake_platform_init` creates the threads and
waits for the first post. In the source both lines (436, 440) are commented out.
`FALSE` is the source as it stands, in which no worker code runs at all; `TRUE` is
the source with both lines active, the configuration the rest of the
code is written for, and the subject of the run `pool` and of the proofs.

The state the semaphores and barrier leave after `sem_destroy` and
`pthread_barrier_destroy` is not modelled; `alive` records the moment, and
`NoUseAfterDestroy` says where workers may be then.

### PhaseOrders

An order begins with nobody having taken it up; each core begins and finishes it
once; the answer is the conjunction of all results. `WorkerPool` implements it
under the mapping at its end: a core has begun when it has read the phase and
finished when it has counted the round.

### PowerTracker

`hot` is what the hotplug files say and `wanted` what the program last wrote to
them, so `hot = wanted` means that the tracker's writes are undone. The thread's
reads and writes of one file are separate steps. Energy counters are the amount
of `work` the program has done; `atCall` remembers it at the two calls. The
package count of `rapl_get_topology` and of `get_num_rapl_nodes_pkg` is one
constant. A program uses a tracker once: init, begin, end, destroy. Other
threads of it may work and switch cores during the join.

`drake_platform_power_destroy` (1502-1515) would end a running measurement
first, but nothing ever sets `running`: `PowerDestroy` frees the tracker before,
during or after a measurement. Of the thread that still uses it the model says
what undefined behaviour leaves open: at every step it may go on as before, die
(`UseFreed`), or pass a `sem_wait` without a post (`Wait`). No property
promises a measurement then. That its thread harms no core holds in these
states too.

`SwitchesAnyTime` tells whether the program may switch a core during a reading.
Nothing tells a program when the first reading, which happens after
`power_begin` has returned, is over; so the quiet mode is an assumption about
what happens, not a rule a program can follow. The run `tracker_race` shows what
the assumption keeps out.

### CpuManager

The machine (`hot`, `governor`, `polling`, `boost`) survives the process; the
rest is the memory of one process. `Crash` may come between any two turns of a loop, and
`Start` begins the next run on the machine as it was left. A cpu that is off has
no topology directory (the kernel removes it), which is what `"lost"` is about:
`sysfs_attr_open_ro` aborts. Writes to the files and registers of a cpu that is
off fail and change nothing. Turbo boost is taken to be one setting per package,
the harder case for the order in which old values are read and new ones written.
`Bit` is the shift as the processor does it, modulo the width of an int.

Failures that the code handles by going on are choices, at most `MaxFailures` of
them in a run: a directory of idle states that does not open (277-278: `cstate[i]`
stays unwritten, `unopened`) and a register that cannot be read (`msr.c` 26-29:
`state_boost` is what `malloc` left there, `unread`). A register that does not open
is a null pointer that the next loop follows (`DisableNone`). What the process
does with memory it never wrote is undefined: it may die (`StrayCall`,
`StrayReads`, `Restore`) or go on without an effect on the machine. A content that
was never read may be refused by the register or change the bit of turbo boost
(`Written`).
`hotplug[0]` is such memory too: where cpu 0 is not the first core, some other
core has `vid` 0, and its calls follow it.

`stuck` stands for what the comment at 366 says: "sysfs permission will not allow
changing the cpuidle settings of this core anymore". The files of idle states were
opened before the cpu was switched off; with the cpu they go away, and those made when
it comes back are others, with the permissions of the kernel. A process started later
opens the new ones, and only that is taken to succeed. The governor's file is
taken to be writable, since no comment says otherwise.

The mutual exclusion of `PowerTracker` and `CpuManager` on a core's hotplug file
is the subject of `PowerTracker`; `CpuManager` has no tracker. How the lists of
cpus and frequencies are read is the subject of `SimpleSetParser` and
`FrequencyTable`; `CpuManager` has the sets themselves.

### FrequencyTable and FrequencyScaling

`FrequencyTable` is the loop of `cpu_manager.c` 189-205 as a recursive function over
the kernel's text, a sequence of frequencies, spaces and a line's end. The order
of its two tests decides whether the text's last separator begins an empty level.

`FrequencyScaling` has a clock `now` that goes on by units, `Second` of them to a
second, and per core the call it is in: the write, the reading of the clock, the
turns of the polling loop. The cpu does what it was told within `Latency`
(`Switch`, forced by `Tick`). `Wakeup` is the code's deadline, which it carries over to
the next second as soon as nanoseconds plus latency pass a second *less* a latency;
its nanoseconds are then negative. `Waiting` is the loop's condition, which
compares seconds and nanoseconds apart: a core that is kept away from the clock
while the condition is false finds its nanoseconds wrapped and waits in the next
second again. No assumption keeps the scheduler from that. `Gap` bounds how long a core
goes without a step and `LastKept` until when; both are bounds of the run, and the theorems hold
for any values. `prompt[c]` is the moment since which core c has read the clock at
least once per latency: the stamp itself for a core that was never kept away.
`NotMuchLate` tells the two apart.

A write to `scaling_setspeed` that the kernel refuses is printed and ignored
(`sysfs.c` 264-269): then `level[c]` is `None`, nothing changes at the cpu, and the call waits and
returns as after any other write.

`drake_platform_get_frequency` reads eight bytes into the field `read_freq`, which all
cores share, and compares them with the strings of the table. Nothing moves the
offset of the file back, so every read after the first finds the end of the
file and leaves the field alone; the stray reads of `cpu_manager.c` 319-320 have
already read the files of the first two cpus (`ReadAtInit`). Levels are counted from
the end of the table when set (946) and from its start when read back (993).

### SharedHeap

Every core has a queue of its own for every arena (`queue[c][a]`), all over the same
buffer. The cores carry out one program of allocations, barriers and uses, each at
its own pace and with private allocations in between at any moment. `Sound` says what
a program has to observe: a global barrier between the allocation of a block and its
use, no use of a barrier after its destruction. No code enforces that, and nothing else
makes the code right: the owner of a local barrier initialises it and tells nobody,
and each core's `calloc` clears the block that all of them have.

The queue is pelib's, which the repository only calls; it is taken to hand out
ascending, aligned addresses and to give none back. An allocation that does not
fit, or a private one that finds no room, ends the process.

### SimpleSetParser

A turn of the loop reads one character. Four kinds of characters besides the digits
are all the code tells apart. `Listing` is what the kernel writes for a set of cpus:
maximal ranges, in ascending order, a comma between them and a line's end behind the
last. It is put together number by number: of a number of the set the kernel writes
something where a range begins or ends there (`Piece`). The bound `Largest` keeps cpu
numbers to two digits. The lines
80-84, under the comment "End of input, do nothing", are never reached, since the
test before them ends the process for every character that is no digit
(`EndOfInputAccepted`, finding 6; `RefusedAtFault` takes neither side and
leaves that one character out). An interval that ends
below its start makes the set smaller or gives `realloc` a negative size
(`AddInterval`).

## Runs

| run | instance | states | what it shows |
|---|---|---|---|
| `pool` | 3 workers, 4 orders, fair | 75,275 | type, step, token, answer, destroy and buffer invariants; `PhaseStable`; the refinement; orders are answered, workers end |
| `pool_as_committed` | 2 workers, threads not started | small | **violated**: the first call waits for ever |
| `tracker_quiet` | 2 packages of 2 cpus, 3 switches, 3 steps of work | 55,314 | the tracker's invariants, `EndReturns` |
| `tracker_race` | the same, switches at any time | small | **violated**: the tracker switches off a core just enabled |
| `cpu_manager` | 2 cores and 1 core x 2 threads, cpu 0 is core 1; one crash, one failure, two runs, two calls | 666,237 | numbering, switching, restoring |
| `cpu_manager_polling` | the same machine, one run, no crash and no failure | small | **violated**: a cpu that was switched off and on polls for ever |
| `cpu_manager_paired` | 2 cores x 2 threads, siblings adjacent | small | **violated**: initialisation aborts |
| `cpu_manager_wide` | 34 cores | small | **violated**: the 33rd core is taken for a hyperthread |
| `parser` | all sets out of nine cpus; all texts of up to 4 of 7 characters, and lists of a number and an interval | 15,072 | lists are read as they are meant, other texts refused where they are at fault |
| `parser_end` | the same texts | small | **violated**: an empty list is refused |
| `frequency` | 2 cores, 2 levels, 2 calls around the end of a second, fair | 166,134 | frequencies in force on return, bounded waits, level numbers |
| `shared_heap` | 2 cores, 2 levels, 1296 programs of 6 or 7 calls | 340,112 | equal addresses, disjoint blocks, kept data, barriers ready and kept |

Bounds. Three workers are the least with one that is neither core 0 nor the last
to arrive; four orders allow create, init, run, destroy, two runs, and a
destroy after each phase. `MaxOrders` does not forbid the last destroy, so runs end. Two packages
are the least with a loop that goes on after restoring the first cpu. Three
switches allow off, on, off around a reading. One crash and two runs suffice to
begin on what a crash left behind. The machine of
`cpu_manager` has a package of two cores, for the order in a package and for a register
that two cpus share, one of one core, for the order of packages, and a cpu 0 in the middle of the order.
One failure per run shows what it does to the other cpus.

The clock of `frequency` has 6 units to a second and a latency of 2, so that a call may
begin in every position towards the end of a second, with and without carry; calls begin in
the first second. Until the moment 6 a core may be kept for 3 units, a latency and a half, which is
enough for one that stamps the clock at 2 to look at 3 and then at 6, past its whole window of 4 and 5, and
to wait for the window of the next second; then once per latency is the rule, and all waits are
over by the moment 11, before the 14 that `LastTick` allows. Two cores share `read_freq`. The numbers of
`parser` have one and two digits and its sets ranges across both; the short texts contain
every sequence of up to four kinds of characters. The programs of `shared_heap` allocate
twice, synchronise, use a block, allocate again, synchronise and use a block again;
arenas of 4 and 5 bytes are filled to the last byte, and overfilled, by some of them. 288 more
wait at a local barrier after the first synchronisation and destroy it at once, with no global barrier
between the wait and the destruction.

Deadlock is checked in every run but `pool_as_committed`, whose subject is a wait
without end. `Stopped` marks the states in which a program is over.

Fairness. `WF_vars(Worker(w))` and `WF_vars(InCall)`: threads are scheduled and a
call once made goes on, which the operating system provides; semaphore and
barrier waits need no more, since no two threads compete for one token. No
fairness is assumed of `NewCall`: the program need not call. Nor of `Abort` and `Crash`. For the tracker, the thread and
`pthread_join` are fair, the program's other steps are not. In `FrequencyScaling` time
passes, cpus switch and cores in a call make steps; no call need be made. The
tracker's thread is scheduled fairly while it has its tracker: a freed semaphore may hold it for ever. The parser,
the heap and the cpu manager have no liveness properties: a loop over a file that has
an end, and programs that a barrier holds back only while others are on their way.

Limits of the properties. `BoostRestored` is about packages that are not `spoiled`: a
process that died after it began to change a register leaves the disabled setting, which the next run takes
for the old one and "restores"; and of a register that could not be read nothing is known.
`Restored` leaves out the idle states that the process cannot write; whether they should be
is what `PowerSavingRestored` asks (finding 5).
`MeasuredWithinCalls` says that the readings follow their calls, not how soon: when the
thread is late the measurement begins late, and what is counted may be less or more than what was done
between the calls. `CoresKept`, `WokenGoBack` and `ReadsAwake` are checked and proved for programs that
switch no core during a reading; for the others finding 2 stands. `CoresKept` allows
cpus to be on that drake does not want on: the second loop (1305-1312) wakes
cpus and leaves them on. `WaitEnds` is about a core that is not kept from the clock
again and again, since one that misses every second's window waits for ever.
`NumbersRead` leaves out texts with descending intervals, which the code neither
always refuses nor reads. `DataKept` and `BarrierReady` are about programs that
observe `Sound`.

## Findings

1. Lines 436 and 440 are commented out, so no worker runs and the first stream
   call never returns (`pool_as_committed`).
2. The tracker reads a hotplug file (1268) and acts on it later (1290); a core
   enabled in between is switched off (`tracker_race`).
3. `cpu_manager.c` 245 and 253 read the topology of cpu `i` where `i` is an index of
   the cpus that are on (`cpu_manager_paired`).
4. `cpu_manager.c` 140 and 142 keep core ids in an int (`cpu_manager_wide`).
5. `cpu_manager_destroy` restores "reasonnable power saving settings" (363 of `cpu_manager.c`) by
   writing files that, for a cpu that was switched off and on meanwhile, cannot be written any more, as
   the caution at 366 says: with `poll_at_idle` that cpu polls for ever (`cpu_manager_polling`).
6. `sysfs.c` 76 refuses every character that is no digit where a number may begin, so that
   80-84, "End of input, do nothing", is dead code and an empty list an error (`parser_end`). The two
   lists the program reads are never empty.

Also read off the model, but not the subject of a run: `drake_platform_get_frequency` (993) compares eight
bytes of the kernel's file, which end in a newline, with a string that `cpu_manager.c` 192 ends with
a NUL: it finds no level and always returns `nb_freq`. Three more faults are behind this one: levels
read back are counted from the other end than levels set, every read but the first of a file
is at its end, and all cores share one field. And a tracker destroyed before its measurement
has ended is freed under its thread (1502-1515).

Restoring line 436 alone, without 440, is not enough: the token of line 209
would answer the first call before it was carried out (the mutant
`FirstCallNoWait`).

Not a fault, but visible in the model: the barrier call 278 is followed by that of
285/294 with nothing in between, and between 204 and 210/215 there is only
worker 0's post, which nobody but the thread in `drake_platform_init` waits for. They
are modelled as they stand.

## Proofs

All theorems hold for every value of the constants under the named assumptions
of their module.

`WorkerPoolProofs`: `IInv` is the inductive invariant. The properties alone are
not inductive: that workers keep in step says nothing of which order they are
at, and the token balance says nothing of who may write the phase. `IInv` adds

- `Turns`: the two callers never are in calls at the same time;
- `RoundsCount`: a worker has carried out all orders given, or all but one, and
  then the last one is `Pending` for it, on its way from the semaphore to that worker;
- `LastTask`: what a worker read last is the present phase whenever it has
  counted the last order, and a worker in the loop never had a destroy;
- `BuffersHeld` and `Collected`: who holds buffers, and what a caller's partial
  conjunction stands for.

`Invariance` proves it action by action, with one lemma for the barrier: an arrival either
leaves the stretch as it is or opens the next one for all. From it follow
`TypeCorrect`, `InStep`, `OneToken`, `AnswersComplete`, `DestroyUnanimous`,
`DestroySafe`, `BuffersSafe`, `PhaseKept`, and `Implements`, the refinement of
`PhaseOrders`. They cover `WorkersStarted = FALSE` too, where workers never move.

Three further theorems are what liveness rests on, for any number of workers.
`StepsDone` counts how far a worker has come. `StepsForward`: each step of a worker takes it further,
and nothing else changes it. `BoundedWork`: an order costs a worker eight steps at most.
`SomebodyGoesOn`: while a call waits for `ready`, the token is there or the guard of some worker's
action holds (`CanMove`); the same after a destroy until all threads have ended. So threads
that are scheduled fairly use up their steps, and when they have, the call
goes on. That last argument is not a formal one: it needs fairness and `ENABLED`, and the
liveness properties themselves are checked by TLC on the instance `pool`.

`PowerTrackerProofs`: `Tokens` counts the posts of `run` against the thread's
waits, `Readings` orders each reading between the calls, `Awakened` says which
cpu the thread has changed. `TypeCorrect` and `MeasuresCalls` hold in
both modes; `KeepsCores`, `WokenBack` and `AwakeReads` assume
`~SwitchesAnyTime`.
Three theorems say why `power_end` returns, on any number of packages: a measurement is
at most 6 * `NbNodes` + 3 steps long (`BoundedMeasurement`), each step of the thread brings
`StepsLeft` down and no other step puts it up but the thread's creation (`ForwardOnly`), and while
the program is in `pthread_join` the thread's waits find their posts (`FedWhenJoined`).

`CpuManagerProofs`: `IInv` is `TypeOK`, `Restored` and five strengthenings. `Hotplug` says
how far the loops over all cpus have come, which no property mentions: while cpus are
being switched off, `active` holds the bits of those passed and the others are on, and
afterwards exactly the first cpu of each bit (`Firsts`) is on. `Numbering` says that
the cpus listed are these and that, once numbered, no number is missing: a number
stands for the cpu with that many lesser ids. It rests on the lemma `Ranks` (distinct
numbers of a finite set have all ranks from 0 up). `Reached` ties `hot` to the
program's calls, `Settings` bounds what a crash leaves behind by what
`cpu_manager_destroy` visits, and `Boosts` has the order in which old values are read and
written, for the packages that are not spoiled. `TypeCorrect`, `RestoresMachine`, `RestoresBoost`, `SwitchesCores` and
`OrdersCores` hold on every machine, with any number of crashes and failures. The other three need an
assumption on the machine, each shown necessary by a finding or by the code: `KeepsOnePerCore` that ids
are below the width of an int (`NarrowIds`, finding 4), `FindsTopology` that no cpu left on comes after one
switched off (`SiblingsLast`, finding 3), `KeepsBootCore` that cpu 0 has the least id
(`BootCpuLeast`): then core 0, which no call switches, is cpu 0, and no call follows
`hotplug[0]`.

`FrequencyScalingProofs`: arithmetic of the two-part clock first (`Apart`: an
earlier second is at least a second earlier), then that the loop never lets a core go early
(`NeverEarly`), and that a core which was told to wait is less than two latencies past its stamp or has
not passed the end of a second since it was last kept away (`Polling`). `SwitchPending` and `Times`
add when each core wrote, stamped and last looked. `TypeCorrect`, `Scaled` and
`InTime` hold for any latency of up to half a second and however long the scheduler keeps a core. `RanksLevels` is about the table: of a
text of any length that lists frequencies from the highest to the lowest (`HighestFirst`,
which `MCFrequencyScaling` assumes of the text of the run, so that TLC evaluates it),
the loop of `FrequencyTable` finds one level per frequency, at the odd places
(`LevelsListed`), and the level counted from its end is a frequency's rank (`Ranks`).

`SharedHeapProofs`: a core's queues are a function of how many calls it has finished, the
history `layout`, which only grows (`Layouts`); that is why addresses agree and blocks are
disjoint. `Lockstep` says that a barrier lets all cores go or none, so that whoever uses a block
knows that all have allocated it (`HeldByAll`) and that the owner has initialised it
(`ReadyOnceMade`). `TypeCorrect`, `AddressesAgree`, `Disjoint`, `NothingLost` and
`ReadyInTime` hold for any number of cores, any arenas and any sound programs.
`NobodyLeftBehind` is progress without fairness: a core is held back at the call of whoever comes
next to a barrier (`AtOneCall`), and at the same place (`AtOnePlace`, from the equal addresses), so the
last one to come frees all (`SomebodyFree`), and a core held back keeps the others from finishing.
The deadlock check of the run `shared_heap` would not tell a core that waits for one that has
finished, since a finished core may still allocate privately.

`SimpleSetParserProofs`: all for texts of any length. `Behind` says what the parser's state
tells of the characters behind it; with it go `TypeCorrect` and `RefusesAtFault`.
`ReadsList` is about every set of cpus up to `Largest`: the invariant is that what is still to
be read is the rest of the listing from some number on, and that the set so far is what the
listing has below that number (or, inside of a range, that `min` is where the range began).
`ReadsNumbers` is about all other texts too: `SoFar` says that the set so far is the union
of the parts that were passed (`Gathered`), that `value` is the number whose digits end here, and
that `min` is the number before the part's one dash (`Dashed`).

`DataInduction` states induction over numbers of sets and functions instead of
predicates, since the library's induction theorems take an operator that the installed
provers cannot instantiate: a set of numbers that is not empty has a least one; a set that
has 0, and n + 1 with n, has all; the same downwards; a function may be defined by how it
goes on. The recursive functions over texts (`LevelsFrom`, the listing, `NumberAt`) are
each shown to obey their equation once, and nothing else is used of them.

Every safety invariant and action property of the passing runs is the subject of a theorem.
Only model-checked is liveness (`EveryOrderAnswered`, `WorkersExit`, `EndReturns`, `WaitEnds`),
which the prover cannot handle.

## Not modelled

- Buffer sizes and the layout of memory, among them two allocations that are too
  short (`sysfs.c` 67 and 202): the models have no addresses of the C heap.
- Time stamps, their difference, and the division by the elapsed time (1340); printing
  of samples. Conversions without state of their own.
- `drake_platform_exclusive_begin` and `_end`, which pass on to one mutex.
- A latency that the kernel does not know (`ETERNAL`), numbers beyond an int, and
  frequencies of fewer than seven digits, whose eight bytes would hold more than
  one string.
- The null pointers `drake_platform_aligned_alloc` returns for another core's private memory
  and for a size of 0.
- That a tracker which wakes a cpu and puts it back makes that cpu's idle states unwritable too:
  `CpuManager` has no tracker.
- `num_cores`, queries that return constants, stubs.
- Configuration, build and installation scripts.
- What tasks compute: `drake_stream_*` belong to the framework and return anything.

## Plan

1. `WorkerPool`, `PhaseOrders`, `PowerTracker`, `CpuManager` (done).
2. `SimpleSetParser`, `FrequencyScaling`, `SharedHeap` (done).
3. Proofs of all of them (done but for liveness).
4. An abstract specification of the cpu manager, a machine borrowed and given back, with
   `CpuManager` as its implementation.
5. `CpuManager` composed with `PowerTracker` over one set of hotplug files: which idle states
   are lost because the tracker wakes a cpu and switches it off again.
