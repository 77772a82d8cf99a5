----------------------------- MODULE WorkerPool -----------------------------
(***************************************************************************)
(* kfu.Pool (assets/diagrams/gen/kfu.py): the workers a diagram shows,     *)
(* spawned when a job needs one, up to a limit, kept idle or retired when  *)
(* a job is done, the last idle one reused first.  A worker's lifetimes    *)
(* are what its row in the picture is drawn from.                          *)
(*                                                                         *)
(* The simulation that uses the pool is the environment: it dispatches a   *)
(* job when a worker can be had and reports when it is done.               *)
(***************************************************************************)
EXTENDS Integers, FiniteSets, Sequences

CONSTANTS
  Limit,      \* workers at most
  IdleFirst,  \* workers idle at the start
  ExitIn,     \* a retired worker is gone this long after its job
  Moments,    \* bound: the times, besides 0, at which something happens
  MaxJobs     \* bound: jobs dispatched

ASSUME PoolAssumption ==
  /\ Limit \in Nat /\ IdleFirst \in Nat /\ IdleFirst <= Limit /\ ExitIn \in Nat
  /\ Moments \subseteq Nat /\ MaxJobs \in Nat

Workers == 0..(Limit - 1)
Open == -1   \* the end of a lifetime that has none yet

VARIABLES
  idle,     \* the idle workers, the next to be reused last
  alive,    \* alive[w]: the lifetimes <<start, end>> of worker w
  working,  \* working[w]: when the jobs w was given and has not done started
  runs,     \* history: runs[w], the <<start, end>> of the jobs w finished
  counts,   \* history: the <<time, jobs running>> after each change
  now,
  jobs      \* jobs dispatched so far

vars == <<idle, alive, working, runs, counts, now, jobs>>

Init ==
  /\ idle = [i \in 1..IdleFirst |-> i - 1]
  /\ alive = [w \in Workers |-> IF w < IdleFirst THEN <<<<0, Open>>>> ELSE <<>>]
  /\ working = [w \in Workers |-> <<>>]
  /\ runs = [w \in Workers |-> {}]
  /\ counts = {<<0, 0>>}
  /\ now = 0 /\ jobs = 0

Lives(w) == alive[w] # <<>> /\ alive[w][Len(alive[w])][2] = Open

Busy == {w \in Workers : working[w] # <<>>}

Pass ==
  /\ \E m \in Moments : now < m /\ now' = m
  /\ UNCHANGED <<idle, alive, working, runs, counts, jobs>>

Dispatched(w) ==
  /\ jobs < MaxJobs /\ jobs' = jobs + 1
  /\ working' = [working EXCEPT ![w] = Append(@, now)]
  /\ counts' = counts \cup {<<now, Cardinality(Busy) + 1>>}
  /\ UNCHANGED <<runs, now>>

(* take: the last idle worker.                                             *)
Reuse ==
  /\ idle # <<>>
  /\ idle' = SubSeq(idle, 1, Len(idle) - 1)
  /\ Dispatched(idle[Len(idle)])
  /\ UNCHANGED alive

(* take with no worker idle: the first slot without a living worker.       *)
SpawnIn(w) ==
  /\ idle = <<>>
  /\ alive' = [alive EXCEPT ![w] = Append(@, <<now, Open>>)]
  /\ Dispatched(w)
  /\ UNCHANGED idle

(* Mutant of Spawn: into a slot whose worker lives.                        *)
SpawnAny == \E w \in Workers : (\A u \in Workers : u < w => Lives(u)) /\ SpawnIn(w)
Spawn ==
  \E w \in Workers :
    /\ ~Lives(w) /\ \A u \in Workers : u < w => Lives(u)
    /\ SpawnIn(w)

Done(w) ==
  /\ working[w] # <<>> /\ Head(working[w]) < now
  /\ working' = [working EXCEPT ![w] = Tail(@)]
  /\ runs' = [runs EXCEPT ![w] = @ \cup {<<Head(working[w]), now>>}]
  /\ counts' = counts \cup {<<now, Cardinality(Busy) - 1>>}
  /\ UNCHANGED <<now, jobs>>

(* release: the worker stays idle, or retires.                             *)
Keep(w) ==
  /\ Done(w)
  /\ idle' = Append(idle, w)
  /\ UNCHANGED alive

Retire(w) ==
  /\ Done(w)
  /\ alive' = [alive EXCEPT ![w][Len(alive[w])][2] = now + ExitIn]
  /\ UNCHANGED idle

Next == Pass \/ Reuse \/ Spawn \/ \E w \in Workers : Keep(w) \/ Retire(w)

Spec == Init /\ [][Next]_vars

-----------------------------------------------------------------------------
(* Properties.                                                             *)

(* No worker is given two jobs at once: the idle workers are distinct and  *)
(* without a job, and the workers that live are those idle and those with  *)
(* a job, so neither a reused worker nor a spawned one has a job already   *)
(* (Pool.take, Pool.release).                                              *)
OneJobEach ==
  /\ \A w \in Workers : Len(working[w]) <= 1
  /\ \A i, k \in 1..Len(idle) : idle[i] = idle[k] => i = k
  /\ \A i \in 1..Len(idle) : idle[i] \notin Busy
  /\ \A w \in Workers : Lives(w) <=> (w \in Busy \/ \E i \in 1..Len(idle) : idle[i] = w)

=============================================================================
