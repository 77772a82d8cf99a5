# redisq in TLA+

TLA+ models of redisq, a Go library that keeps varmq's job queues in Redis, with the TLC
configurations that check them on small instances and TLAPS proofs for every instance. Paths
such as `queue.go` are relative to the root of the repository.

## 1. The system

A *queue key* lives in Redis. Any number of *Queue objects*, in any number of processes, work on
it at once. What they share is the data in Redis, which they change by Lua scripts that Redis runs
one at a time, and two kinds of pub/sub channel: a wake channel per object and one control channel
per queue. Each object has goroutines of its own: callers, a sweep every second, a reader of the
subscription, a nudge every second, and a loop that calls hooks.

| Component | State | Operations | Source |
|---|---|---|---|
| Acknowledged list queue | list, `:nacked`, `:timeouts`; per object `ackSeq`, `retryPop` | Enqueue, Dequeue, DequeueWithAckId, DequeueBatchWithAckIds, Acknowledge, Reject, PrepareForFutureAck, Remove, Purge, RequeueNackedItems, Close | `queue.go` |
| Failure detector | `:heartbeats`, its clock, `:presence`, who is subscribed | start, sweep (tickBody), the beat of each pop, resubscription | `queue.go` |
| Cached pause and hooks | `:paused`; per object `paused`, `gen`, `kick`, `recheck`, pauseLoop | Pause, Resume, control messages, observe, OnPauseChange | `pause.go` |
| Wakes | `:idle`; per object the idle flag, the subscription, the nudge | Subscribe, Len, pops that miss, wake, nudge, leave, Stop | `notification.go`, `distributed.go` |
| Pop sizing | `popLen`, `popRun` | DequeueBatchWithAckIds | `queue.go` |
| Dedupe | one key per id | EnqueueOnce, SetDedupWindow | `queue.go` |
| Job Records | `:started`, `:attempts`, `:stats`, `:jobs`, `:completed`, `:failed` | finish, trim, Jobs, QueueStats | `queue.go`, `inspect.go` |
| Priority queue | ZSET, `:seq`, `:prio` | the list queue's calls with a priority | `priority.go`, `distributed_priority.go` |
| Instance Records | `{instances}`, `:beats` | ReportInstance, RemoveInstance, Instances | `instances.go` |
| Clients and names | options, key names | New, NewQueue..., Close | `queues.go` |
| Diagram keyframes and pool | keyframes of a track; idle workers and lifetimes | `kf`, `merge`, `flash`, `ring`, `bar`, `states`; `Pool.take`, `release`, `rows` | `gen/kfu.py` |
| Acknowledgement story | list, rows, pops, acks, the tracks | `build` | `gen/gen_ack.py` |
| Wake story | list, `:idle`, consumers, event heap, logs | `simulate`, `build` | `gen/gen_wake.py` |
| Close story | list, pending, `:idle`, consumers' slots, event heap, logs | `Sim`, `build` | `gen/gen_close.py` |
| Dead story | list, pending, heartbeats, presence, clock of two rows | `simulate`, `facts`, `build` | `gen/gen_dead.py` |
| Frame export | none | runs a browser | `gen/frames.py` |

`gen/` is `assets/diagrams/gen/`: Python programs that draw the README's animated pictures. Each of
the four stories simulates what the library does (Lua scripts, wakes, nudges, sweeps, Close) with an
event queue, asserts over the logs what its text says, and turns the logs into keyframe tracks with
`kfu.py`.

How they interact. A pop checks the pause inside its script, sets its owner's heartbeat, and joins
the idle set when it misses; all in one step. A sweep renews its own heartbeat, finds late items,
lapsed heartbeats and owners that lost their subscription, moves their items back, reports the
pause, and then, in a second call, wakes consumers for what it moved. Pause and Resume change the
key and publish in one step and set the caller's cache afterwards. Close leaves the idle set,
releases the object's items, wakes others, and drops the subscription.

What is hard. go-redis re-sends a command whose reply was lost, so a pop or an acknowledgement can
run twice, and a copy can run after its call returned, after Close, or after another process took
the owner for dead. Sweeps of several processes interleave with pops, finishes and reconnects.
Redis may stall. Replies about the pause overtake control messages. A wake may reach somebody who
cannot use it. In the generators: events of two consumers meet in orders that the one scenario they
are run with does not have; several statements write keyframes of one square, which `kf` then sorts;
spans overlap, follow each other within a rise and a fall, or start while a fade still runs; real
time is stretched and squeezed before it is drawn.

What makes each component correct, and the property that says so:

| Component | Correct when | Property |
|---|---|---|
| List queue | a job is in the queue or pending, once, until it is finished, removed, purged or taken raw | `Conserved` |
| | whatever is lost, re-sent or late, its users see jobs that wait, are held by one consumer, and end for good | `KeepsPromise` |
| | a retried pop never hands an item to a second consumer | `HandedOutOnce` |
| | an acknowledgement finishes only the job it is for | `FinishedWasAcked` |
| | what a pop took can come back without its consumer, and does | `Recoverable`, `Unstuck` |
| | new jobs keep their order, requeued ones go first | `NewJobsInOrder` |
| | a paused queue hands out nothing | `PauseHolds` |
| Failure detector | a dead consumer's jobs are back in time | `RecoveredInTime` |
| | a live one keeps its jobs through reconnects and stalls | `LiveKeepsJobs`, `NoStaleMarks` |
| Cached pause | every change reaches the hooks | `HookOwed` |
| | newer knowledge is not undone by an older reply; what is lost is mended | `QuietAgrees`, `Converges` |
| Wakes | no consumer sleeps in the idle set while items wait and nobody comes | `WakeOwed` |
| | a busy consumer is not in the idle set | `BusyNotIdle` |
| | a lost wake only delays | `Served` |
| Priority queue | jobs are served lowest first, and in order of submission within a priority | `ServedInTurn` |
| Job Records | counters, attempts and records agree with what happened to the jobs | `StatsAddUp`, `AttemptsTold` |
| | nothing is kept of a job that is gone, and every record is where a trim finds it | `NoLeftovers`, `RecordsTrimmable`, `Retained` |
| Diagram pool | no worker is given two jobs at once | `OneJobEach` |
| Diagram keyframes | bars, glow, status, pulses and rows tell what the pool did | `WorkShown`, `CountsShown` |
| Stories | jobs move as JobLife says | `KeepsJobs` |
| | a job's square makes one move after the other | `SquaresMoveInOrder` |
| | what the picture shows is what the simulation did | `AckDeadlinesTold`, `WakeIdleTold`, `CloseShown`, `DeadShown` |
| | the simulated library keeps its promises in every order of events | `WakeServes`, `CloseClosedLetsGo`, `DeadDeadInTime`, `DeadLiveKept` |

## 2. Modules

                ListQueue (instance)
                   │
    Scripts ─┬─ AckQueue ── MCAckQueue                 PauseCache ── MCPauseCache
             │     └── AckQueue_proofs                     └── PauseCache_proofs
             ├─ Scripts_proofs                         Wake ── MCWake
             │   (used by both)                            └── Wake_proofs
             └─ FailureDetector ── MCFailureDetector   PriorityJobs ── MCPriorityJobs
                   └── FailureDetector_proofs              └── PriorityJobs_proofs

    Keyframes ──┬── AckStory, WakeStory, CloseStory, DeadStory ──┐
    EventQueue ─┘   (instances)                                  │
    JobLife (instances) ─────────────────────────────────────────┼── Diagrams ── MCDiagrams
       └── JobLife_proofs                                        │
    Keyframes, WorkerPool ── Drawings ───────────────────────────┘
                  └── WorkerPool_proofs

**Scripts** has no variables. A *store* is a record of what Redis holds for one list key, and each
Lua script is an operator from a store to the next store, or to the set of stores it may leave where
the script's order depends on HKEYS or on the random ack ID prefixes. `AckPop` is all three pop
scripts of a list (popScript, popOneHead and popOneLenHead differ only in how many IDs they take
and how they reply): the re-send guard, then the pause, then the pop. `Ticks` is tickBody, in its
order: stall shift, clock, own heartbeat, late items, dead owners, release. `Move` is moveFn.
Jobs are submission numbers, so two pushes of equal bytes are two jobs. A sweep takes up to 100
lapsed owners and counts the subscribers of up to 1000 live ones; the model has fewer than either.

**AckQueue** is one key with the Queue objects on it. A pop call is *reserved* (`ReserveFresh`,
`ReserveKept`, `SetAside` and `PutBack` are the branches of reserve, with its Swap and its
CompareAndSwap as separate steps because two goroutines meet there), its copies are in `net` and
run in `RunPop` at any later time, and the call ends with a reply or in `FailPop`. `BeginFinish`
and `RunFinish` do the same for Acknowledge and Reject. `Start`, `Tick`, `Close`, `Release`,
`Crash`, `Disconnect` and `Reconnect` are the life of an object. `fate`, `acked` and `tried` are
history variables that only properties read.

**ListQueue** is the abstract specification of that key: what `queue.go` promises the programs that
use it. It has no ack ID, deadline, heartbeat, sweep or copy of a command, only the jobs that wait in
order, how far each job has come, who holds it and whether the queue is paused. `Take` gives a
consumer the first jobs in one step, `PutBack` puts any held jobs, of any consumers, ahead of the
others, `Finish` ends one. AckQueue maps to it (`Promise`): `StageIn` reads a job's stage off the list
and `:nacked`, `HolderIn` its holder off its ack ID. A live job that is in neither, or in both, has
the stage "lost", which no step of ListQueue allows. A pop whose reply never came is a `Take` all the
same, by the consumer whose ack ID it used; the second run of a pop, a finish that finds nothing,
reservations and clocks change nothing there.

**FailureDetector** uses the same scripts with a clock: each object sweeps when it starts and once a
period, time cannot pass a due sweep unless Redis is stalled, consumers die with or without their
connection being dropped.

**PauseCache** is one Queue object. Every atomic operation, channel operation and Redis call of its
goroutines is a step: `thread[t]` is where goroutine t is and the `gen` and state in its local
variables, `loop` the same for pauseLoop. `Remote` is the other processes; `Lose` and `Forge` are
the faults of pub/sub.

**Wake** is the consumers of one distributed list queue, with the items counted. `WakeUp` is the Lua
function `wake`, `PopScript` and `PopReply` the two halves of a pop, `NudgeSend`, `NudgeScript` and
`Poke` the three of a nudge, `SweepMove` and `WakeForRequeued` the two calls of a sweep.
`lost` records that a wake was lost in a way the code's comments leave to the nudge: a consumer that
reconnects is dropped, one that is closing or dead took it, a raw Dequeue missed and joined later,
a Subscribe or a failed second call came between.

**PriorityJobs** is a priority queue's storage and the data kept about its jobs, which lists and
ZSETs share: one action per script. `Pop` is zsetAckPop and zsetPopOne, `Requeue` the loop of
zsetRequeue and of moveFn with the ZSET's repush, `Finish` and `Trim` are finishScript and
trimScript. Time is a choice: a requeue moves any pending items in any order, and any of the oldest
records may be too old. `keep` is the retention of each Queue object, which its finishes and trims
use. `given`, `handed`, `left`, `prepared` and `uncounted` are history.

**Keyframes** is `kfu.py` without its text: a track is the sequence of keyframes that `kf` leaves
after padding, rounding to hundredths of a percent of the loop, sorting and dropping what a later
keyframe at the same place overwrites; `Shown` is what the browser shows of it at a time. `Merge`,
`Flash`, `Ring`, `Bar` and `State` are the helpers of the same names. **WorkerPool** is `Pool`: `Reuse` and
`Spawn` are the branches of `take`, `Keep` and `Retire` those of `release`; which worker is asked
for when is the environment's choice. **Drawings** draws each behaviour of the pool with the helpers.
**EventQueue** is the heap of the simulations, ordered by time and then by arrival.

**AckStory**, **WakeStory**, **CloseStory** and **DeadStory** are the stories. `sc` is a scenario: the
constants at the head of the script, which the generator fixes, and the picks of SPOP. `world` is
the simulation's variables and logs. A step takes the next event and runs its handler (AckStory: the
next statement of `build`); the last step evaluates the assertions of `build` or `facts`, and
`status` becomes "drawn" or "refused". The tracks are operators of the logs, as in the code. Python's
dictionaries are functions, its closures operators from world to world. A dot's walk is its flight
time, which the logs depend on, as the path's length over its speed.

**JobLife** is the abstract specification of all four: a job is new, waits in the list, is held by a
consumer or is done. **Diagrams** is one specification with a generator chosen at the start, and
maps each story's list and pending jobs to JobLife's two variables; `KeepsJobs` says that the stories
implement it. A statement of the acknowledgement story pops a job and acknowledges it at once, which is
JobLife's `Serve`.

MC modules give TLC the values that a configuration cannot write. Definitions named as a mutant of
another are a plausible bug each; they are used by no specification, and show that the property
they are listed with in PROJECT.json fails when the bug is there.

## 3. Runs

Every run exhausts its instance. All but `Diagrams_all` and `Wake_live` check deadlock: in each of
them some action is always enabled. A script ends, and both consumers of `Wake_live` may die.

| Run | Instance | Checks |
|---|---|---|
| `AckQueue_faults` | a consumer that may close, crash or disconnect, a second object that sweeps, 2 jobs, 1 reservation of up to 2 IDs, 2 copies, clock to 4 | `TypeOK`, `Conserved`, `Recoverable`, `Unstuck` |
| `AckQueue_resend` | 2 goroutines of one object, 3 reservations, 2 jobs, 2 copies each, retries kept and put back, sweeps; timeouts above the re-send window (`Prompt`), no re-sent finish | `HandedOutOnce`, `FinishedWasAcked` |
| `AckQueue_calls` | all other calls around a batch pop, 3 jobs | `NewJobsInOrder`, `PauseHolds`, `KeepsPromise` |
| `FailureDetector_sweeps` | one consumer that may die, another process, the code's times in quarter seconds, reconnects, one stall of 1 or 2.5 s (the theorems have any number of consumers and stalls) | `TypeOK`, `RecoveredInTime`, `NoStaleMarks`, `LiveKeepsJobs` |
| `PauseCache_live` | a call of this object, one of another, a fault, a sweep | `TypeOK`, `HookOwed`, `QuietAgrees`, `Converges` |
| `Wake_owed` | 2 consumers, 2 items, everything but nudges, reconnects and manual requeues (the theorem has the first two) | `TypeOK`, `WakeOwed` |
| `Wake_live` | 2 consumers, 1 item, nudges, reconnects, manual requeues, raw Dequeue, crashes | `Served` |
| `PriorityJobs_calls` | 3 jobs of 2 priorities, two of them with one id, 2 pops of up to 2, up to 2 records kept per state, trims of 1 by two objects, one Dequeue, Remove, Purge, late pop or retention that an object changes | `TypeOK`, `NoLeftovers`, `StatsAddUp`, `RecordsTrimmable`, `AttemptsTold`, `ServedInTurn`, `Retained` |
| `Diagrams_all` | a pool of 2 workers, one idle at first, with 3 jobs; 63 scenarios of the acknowledgement story, 1020 of the wake story, 324 of the close story, 30 of the dead story | `OneJobEach`, `WorkShown`, `CountsShown`, `SquaresMoveInOrder`, `AckDeadlinesTold`, `WakeServes`, `WakeIdleTold`, `CloseClosedLetsGo`, `CloseShown`, `DeadDeadInTime`, `DeadLiveKept`, `DeadShown`, `KeepsJobs` |
| `AckQueue_ackresend`, `FailureDetector_stall`, `Wake_busy` | the smallest instance that shows it | a violation, see section 5 |

`AckQueue_calls` checks `KeepsPromise` where `AckQueue_faults` checks `Conserved`: the refinement says
more, since it has a job that is lost or doubled as "lost" and also tells which steps may move a job,
in which order, and who holds it after. The instance of `AckQueue_faults` keeps the promise too.

**Bounds.** `MaxSeq`, `MaxWant`, `MaxCalls`, `MaxCopies`, `MaxAckCopies`, `MaxPrepared`, `MaxTime`,
`PopUntil` (AckQueue), `LastEvent`, `MaxTime` (FailureDetector), `MaxCalls`, `MaxRemote`,
`MaxFaults` (PauseCache), `MaxPushes` (Wake), `MaxKeep`, `MaxRare`, `MaxCalls`, `MaxWant` and
`MaxHandOuts` (PriorityJobs) and the `Moments` of the pool cap what would grow without end, each in
the guard of the action it bounds. A batch of two is the smallest with a leading and a trailing item; two copies
are the smallest with a re-send; two goroutines and three reservations are what the put-back race
takes; two time units of visibility against one of heartbeat put the recovery paths in either
order. The failure detector runs with the code's own ratios (sweep 1 s, gap 2 s, grace 2.5 s,
heartbeat 5 s) and a clock that runs past the last event by the longest recovery. Its unit is a
quarter second, so that a sweep can come less than half a second after another and leave the clock
and the marks to the next. A trim of one
record stands for one of 1000, so that a lowered retention takes several. Two Queue objects trim and
finish with a retention each, and one of them changes its own (`Setters`); the objects are alike, so
nothing is gained by letting the other. `Wake_live` has a single item: a consumer that took it and
whose item another object requeues, while it works, stands for one that works on a first of two.
Leaving, sweeps and wakes at once with them are in `Wake_owed` only, where `lost` excuses the first.
The deductions in section 4 hold without any of these bounds.

**The stories' scenarios.** Each set contains the constants the generator has. The others shift
enqueues, nudges, sweeps, job lengths, the start of C1, the Close and the death so that two of them
change order or meet. A simulation has no choice but its scenario, so a set covers all its orders
only as far as its times produce them. Many shifted scenarios are refused by an assertion, as the
script would refuse them: what is said of the simulation (`WakeServes`, `CloseClosedLetsGo`,
`DeadDeadInTime`, `DeadLiveKept`, `KeepsJobs`) is checked on these too, what is said of the drawing
on those that are drawn. Times are integers, 10,000 units to the second (milliseconds in the
simulation of the dead story, as in the code), so that no rounding but that of the code takes place.
The pool's changes come at moments between 0.05 and 1.1 s (`Moments`), so that distances lie on either
side of the fades of 0.08 to 0.6 s, and a slot may show its ghost between two lives; `MaxJobs` is one
more than the workers, so that one is reused.

**What the drawing properties leave out.** Two changes of a status at one instant, if they are at or
after the moment looked at: sorted by time and then by state, the last is not always the one that
holds. Moves of one square that overlap, which `kf` mixes: a job B of the acknowledgement story that
has not landed in the list when the list moves up for A (an enqueue at 1.10 instead of the script's
time), and jobs of the close story that are released while C2's pops are still drawn. No assertion
looks at them, the generator's own constants do not meet them, and they are stated as the
antecedents of `MovesInOrder` and `MovesInTurn`. Of a run that ends between Close and the exit only that the consumer stays out of `:idle`. A
slot taken again less than 0.2 s after its worker was gone, and a worker spawned in the first 0.1 s of the loop: in both the helpers draw a
wrong opacity for a moment. The guards in the properties name them. No story uses `Pool`, so the last
two can only meet diagrams that other users of `kfu.py` draw.

**Pops in PauseCache.** `PauseCache_live` has a sweep as the one goroutine that reads the key. A pop
does the same, but reports nothing when the queue is not paused, as a sweep whose reply is lost
(`NoAnswer`). `HooksAreTold` is proved for pops and sweeps alike.

**Not the identity.** A push of equal bytes, a re-sent push and a push after a lost reply each
store a job of their own, as the code does; a re-sent `PrepareForFutureAck` is not modelled.

**Fairness.** `AckQueue!Fairness`: the clock advances and the objects outside `Mortal` start and
sweep, as `sweep`'s ticker makes them; no consumer has to acknowledge and no message has to arrive.
`PauseCache!Fairness`: goroutines run, Redis calls return, the subscription is read, the sweep comes
every second; nobody has to pop, pause or resume. `PriorityJobs!LiveSpec`: an object whose retention
may be lower trims once a minute; the others need not. `Wake!Fairness`: the nudge comes every second,
a pop that was sent runs and returns, and a raw Dequeue that missed gets to its markIdle; no wake has
to arrive. `Served` ends in an item, an empty or paused queue, or a consumer that is gone, since a
queue that is paused or emptied by others has nothing for the consumer. All of it is weak fairness of
single steps. The diagrams state none: their properties are safety.

## 4. Proofs

TLAPS checks, for all values of the constants under the modules' `ASSUME`s:

| Theorem | States | Where |
|---|---|---|
| `TypeCorrect` | `Spec => []TypeOK` | AckQueue_proofs |
| `JobsConserved` | `Spec => []Conserved` | |
| `AlwaysRecoverable` | `Spec => []Recoverable` | |
| `OneConsumer` | `Spec => []HandedOutOnce` | |
| `NothingPopsWhilePaused` | `Spec => PauseHolds` | |
| `NewJobsKeepOrder` | `Spec => []NewJobsInOrder` | |
| `OnlyAckedFinish` | `AcksHold => (Spec => []FinishedWasAcked)` | |
| `QueueKeepsPromise` | `Spec => KeepsPromise` | |
| `JobsEndForGood` | `Spec => Promise!EndsForGood` | |
| `NeverHandedOver` | `Spec => Promise!NoHandover` | |
| `DetectorTypes` | `Spec => []TypeOK` | FailureDetector_proofs |
| `MarksAreFresh` | `Spec => []NoStaleMarks` | |
| `LiveConsumersKeepJobs` | `StallsTolerated => (Spec => []LiveKeepsJobs)` | |
| `DeadAreRecovered` | `SweepsSuffice => (Spec => []RecoveredInTime)` | |
| `PauseTypes` | `Spec => []TypeOK` | PauseCache_proofs |
| `HooksAreTold` | `Spec => []HookOwed` | |
| `QuietAgreement` | `Spec => []QuietAgrees` | |
| `WakeTypes` | `Spec => []TypeOK` | Wake_proofs |
| `NobodyOversleeps` | `"manual" \notin Uses => (Spec => []WakeOwed)` | |
| `PriorityTypes` | `Spec => []TypeOK` | PriorityJobs_proofs |
| `NothingLeftOver` | `Spec => []NoLeftovers` | |
| `RecordsInTheirLists` | `Spec => []RecordsTrimmable` | |
| `CountersAddUp` | `Spec => []StatsAddUp` | |
| `LowestFirst` | `Spec => ServedInTurn` | |
| `RecordsTellAttempts` | `Spec => []AttemptsTold` | |
| `OneJobAtATime` | `Spec => []OneJobEach` | WorkerPool_proofs |
| `EachJobInOnePlace` | `Spec => []OnePlace` | JobLife_proofs |
| `DoneForGood` | `Spec => DoneStays` | |

The assumptions are types of the constants, that `NoOwner` is not an owner (`OwnersAssumption`), that
priorities are integers (`PriorityAssumption`) and that the ack ID, the envelope ids and the absence
of an id cannot be mistaken for each other (`IdAssumption`); `FDAssumption` says that there are
finitely many jobs and no visibility timeouts. Four theorems have a hypothesis about the deployment:

* `AcksHold`: no copy of a pop outlives the stay of its items in pending (`Prompt`), a finish is not
  re-sent, nobody purges. `AckQueue_resend` satisfies it; `AckQueue_ackresend` differs from it in the
  second part only, and TLC finds a job finished that nobody was handed.
* `StallsTolerated`: for a stall of d with d no longer than `SweepGap`, d and one period fit within
  the grace and within each heartbeat timeout; and they do without a stall. A stall that is longer
  than `SweepGap` needs nothing, as the sweeps move the heartbeats on by it. The stalls and times of
  `FailureDetector_sweeps` satisfy it; those of `FailureDetector_stall` do not.
* `SweepsSuffice`: a period and `MinTick` fit within `SweepGap`, so that processes that sweep never
  move the heartbeats on, and every consumer has a heartbeat timeout (there are no visibility
  timeouts here). The code's 1 s, 0.5 s and 2 s satisfy it, as does `FailureDetector_sweeps`.
* `"manual" \notin Uses`: nobody calls RequeueNackedItems, which wakes nobody (section 5).

*Scripts_proofs* shows what one script does to a store that is `Sound`: well-typed (`StoreOK`), each
job in one place (`Exclusive`), deadlines and heartbeats where the timeouts call for them (`Covered`).
Requeues, sweeps, releases, pauses and hand-backs `Keep` the jobs: same jobs, no new ack ID, and the
queue is the old one behind jobs that were pending (`Requeued`). A fresh pop moves a prefix of the
queue under IDs that were not pending (`Popped`); `PopFreshSound` needs exactly what the re-send
guard checks. A push, a finish, a removal and a raw pop add or remove exactly one job. The step that
took most work is `MoveSound`: pushing the items of any ordering of the IDs to the front keeps the
queue injective.

*AckQueue_proofs*. `Conserved` alone is not inductive: a finish and PrepareForFutureAck need the
types of the handles, an `Enqueue` needs that the next number is unborn, and PrepareForFutureAck
needs that its ID is unused. `JobsInv` adds `StoreOK`, the history's types, `Recoverable` and
`CallerIdsUsed`; `Inv` adds the clients' types. `HandedOutOnce` needs `HandInv`: reservation numbers
in use or in a handle are at most `ackSeq`, so a fresh one meets nothing. `AllInv` is both. There is
one lemma per action and conjunct, and `NextInv` puts them together. `PauseHolds` follows from `Inv`
and one lemma about a step of a paused queue. `OrderInv` adds to `NewJobsInOrder` that what is
pending or was taken raw has been tried, so that a requeue puts only tried jobs ahead, and that what
was tried has been pushed, so that a push is not. `AckInv` adds to `FinishedWasAcked` that an ack ID
is with one consumer or finish call (`OneEach`), with none that a reservation in use could reply with
(`Free`), that it was given out before (`IdsGiven`), and `Sealed`: it holds its consumer's job, or
none, and then no copy of its pop is left to put another one there.

The refinement, `QueueKeepsPromise`, rests on the same invariant. `Conserved` says that the store and
the history `Agree`, so that a job's stage is "queue" or "pending" exactly when it is in the list or
in `:nacked` (`StageFacts`), and `Exclusive` that it is there under one ID, so that its holder is that
ID's owner (`HolderFacts`). Then there is one lemma per kind of step. A pop that runs (`RunPopSeen`)
either hands back what its first run took, which changes neither the list nor `:nacked`, or finds
nothing, or takes a prefix of the queue (`Popped`), which is a `Take`. Sweeps, releases and requeues
`Keep` the jobs, and what they moved is the set `S` of a `PutBack` (`PutsBack`): the new front is some
sequence of exactly these jobs, without repetition, because the queue is injective before and after.
A push, finish, removal, raw pop or PrepareForFutureAck moves one job and leaves the place of every
other alone (`OneJobSeen`). That no script but Pause's and Resume's touches the pause is shown for
each (`SamePause`, in *Scripts_proofs*). `StepSeen` puts them together: every step is a step of
ListQueue or changes none of its variables. What ListQueue promises of its own steps (`PromiseStep`)
then holds of the queue's: a job that ended never comes back (`JobsEndForGood`), and a pending one
changes its holder only by way of the queue (`NeverHandedOver`).

*FailureDetector_proofs* follows the times of a store through each part of a sweep: the shift, the
own renewal, the marks, the release. `LiveInv` says of a live holder that its heartbeat ends later
than its next sweep by more than a stall can take (`Fresh`), that nobody swept before the clock
started (`Started`), that the key's clock is behind by no more than a period and the stall (`InTime`),
and what a stall in progress can still cost (`Stalled`).

`RecoverInv` is about the dead. A sweep less than `MinTick` after another looks at the heartbeats
only, so two sweeps that count subscribers can be `Between`, just under 1.5 s, apart (`OnTime`).
`Unseen` says that the first of them after a kill begins the grace, `Marked` that the last did not
find it over; so a killed consumer's jobs are back within the grace and twice `Between`. That is at
most 5.5 s; the README's 3-4 s leave out the sweeps that skip the count. `Lasting` bounds a heartbeat by the death and the timeout, and by the next
sweep of whoever runs. When nobody was left, the first process to start moves heartbeats on by
the time since the last sweep, so the time from there to the death is added (`orphans`).

*PauseCache_proofs*. `HookInv` adds to `HookOwed` only that every goroutine has a frame. A step
that changes the cache leaves a thread about to kick or the loop past its take; a kick of a channel
that is full is the same kick because the loop reads the cache after it took it. `TypeInv` bounds
`gen` by the messages that can still arrive. `QuietInv` says that a goroutine about to act on a reply
has the key's state or will find that `gen` has moved (`ReadsFresh`, `Ahead`), which messages tell
what the key was last (`LastResumed`), and that the cache has the key's state unless somebody is busy
or a recheck is due (`Settled`).

*Wake_proofs*. `WakeOwed` is not inductive: a consumer that has joined the idle set does not sleep
until it has read its reply. `OwedInv` says the same of all that joined and have no signal
(`Sleepers`), and counts as coming only those outside the idle set (`Bound`): a wake takes its
consumer out of the set, so each wake adds one to the count that a push adds one to. `LeavesNothing`
says that a consumer that is leaving owes no wakes. The sum of the wakes still owed is the size of a
set of pairs (`Announced`).

*PriorityJobs_proofs*. The sorted set is a set of members, so its proofs begin with `LowestFacts`:
the members of rank 1 to n are a sequence, lowest first. `TypeInv` makes the members distinct in
their numbers; `NoLeftovers` is inductive with it, and so is `RecordsTrimmable`. `StatsAddUp` counts
what each step moves. `ServedInTurn` needs `PlaceInv`: each job is in one place (`Placed`), one that
was never handed out is not pending (`Taken`), waits at the priority it was given and in the order of
its push (`Ranked`, `InOrder`). `AttemptsTold` needs what the hash and the record say of each job in
every place it can be (`Told`).

*WorkerPool_proofs*. `OneJobEach` says who is idle, who has a job and who lives, and is inductive
with the types: reuse needs that the idle are without a job, a spawn that only those idle or at work
live, and both need that the idle are distinct, so that one leaves the list when it is taken.

*JobLife_proofs*. `OnePlace`, that the list has each waiting job once and nothing else, is inductive
with the types; the lemmas are about sequences without repetition: one added at the end, the first n
dropped, a block put in front. With `KeepsJobs` of `Diagrams_all` both theorems hold of the stories.

The inductive invariants of all these proofs have been checked by TLC on the runs' instances.

Only model-checked:

* The properties of the drawings and stories, with the refinement `KeepsJobs`: they fold over data,
  and the stories are deterministic, so the run says all of a scenario.
* The liveness properties `Unstuck`, `Converges`, `Served` and `Retained`, which rest on fairness and
  ENABLED and are out of the prover's reach, as is whatever would need induction over data or a
  recursive operator.

## 5. Where the code and its documentation differ

* `AckQueue_ackresend`. README.md says of a re-sent Acknowledge that it "finds the job finished and
  does nothing". An ack ID can come back: a copy of the pop that arrives after the
  job was acknowledged finds none of its IDs pending and pops the next job under the same ID; the
  re-sent Acknowledge then finishes that job, which nobody was handed. The same late copy lets
  an Acknowledge of a purged item, which `queue.go:337` says does nothing, finish another job.
* `FailureDetector_stall`. README.md says a process that still sweeps is never taken for gone and that
  a stall of Redis does not count. A stall of 1.5 to 2 s is below `sweepGap`, so no grace is
  moved on, and it can make up the grace of a consumer that was reconnecting when it began.
* `Wake_busy`. `notification.go:73` says a busy consumer is not put back in the idle set. A nudge
  carries the flag from before the reply of a pop that has just taken an item.
* `queue.go:1098` says that sweeps land 1 s apart, so that a gone owner is reaped on the third one
  after the first that sees it unsubscribed. Those of several processes land up to twice as often,
  and then it takes five; `RecoveredInTime` holds either way.
* `notification.go:15` says each requeue wakes consumers. RequeueNackedItems wakes none; `Wake_owed`
  leaves it out of the calls, and `Wake_live` shows that the nudge makes up for it.

## 6. Not modelled, and the plan

Not modelled for good: formats (JSON envelopes, key names, ack ID digits beyond their sort order),
logging, `queues.go`, which only configures, `event.go`, which nothing calls, and the examples. Of the
diagram generators: `frames.py` (a browser and files), markup, legends, texts and descriptions,
`Path` (segments added up), `motion_json`, which reads the finished stylesheet back, the dots' walks
but for the time they take, the trains of nudge pulses, owner tags and fades of whole consumers, the
bars of the heartbeat and the grace. varmq itself is external: Wake assumes a worker that pops again
after each item and ignores signals while it is busy.

Left out of the modules so far: queue expiration (PEXPIRE drops the whole list), timeouts
changed in mid-flight, re-sent PrepareForFutureAck, batch pops in Wake, hooks added and removed in
PauseCache, PauseRefusals.

Planned, in this order:

1. ListQueue with duplicates: pushes and PrepareForFutureAck that are re-sent, which AckQueue runs
   once per call.
2. PriorityJobs: re-sent finishes and PrepareForFutureAck; its own refinement of ListQueue, with
   priorities for the order; the distributed variant as Wake over its storage.
3. `Dedup`: EnqueueOnce with re-sends against the window.
4. `PopSizing`: popLen and popRun under replies out of order. `Instances`: reports, pruning, Close.

Each new property starts as a TLC run with a mutant that breaks it; a theorem follows once the
inductive strengthening has itself been checked by TLC.
