-------------------------- MODULE FailureDetector ---------------------------
(***************************************************************************)
(* How the sweeps (queue.go, sweep and tickBody) find dead consumers, with *)
(* the time it takes.  Every Queue object subscribes to its wake channel,  *)
(* sweeps when it starts and then once every Period, and its sweep and its *)
(* pops renew its heartbeat.  A consumer holds one job and never finishes  *)
(* it, so the job stays pending until some sweep takes the consumer for    *)
(* dead.  There is no visibility timeout here (VT is 0).                   *)
(*                                                                         *)
(* Time is in half or quarter seconds in the instances: in half seconds,   *)
(* MinTick 1, Period 2, SweepGap 4, PresenceGrace 5, HBT 10 (minHeartbeat).*)
(***************************************************************************)
EXTENDS Scripts

CONSTANTS
  Period,       \* the ticker of Queue.sweep
  Holders,      \* the Queue objects that take a job, and may die
  Stalls,       \* how long a stall of Redis may last
  LastEvent,    \* bound: the last time at which something starts, dies or stalls
  MaxTime       \* bound: Redis's clock

ASSUME FDAssumption ==
  /\ Holders \subseteq Owners /\ Jobs # {} /\ IsFiniteSet(Jobs)
  /\ Period \in Nat \ {0} /\ Stalls \subseteq Nat /\ LastEvent \in Nat /\ MaxTime \in Nat \ {0}
  /\ VT = [o \in Owners |-> 0]

VARIABLES
  redis,      \* what Redis holds for the key
  now,        \* Redis's clock
  subs,       \* owners whose wake channel Redis sees subscribed
  state,      \* state[o]: "new", "alive", "killed" or "lost" (its host is)
  due,        \* due[o]: when o's ticker fires next
  stall,      \* until when Redis runs nothing
  took,       \* the holders that have popped their job
  since,      \* history: since[o] when o died, or when the first process to
              \* survive it started, if that was later
  orphans     \* history: the owners that such a process found dead

vars == <<redis, now, subs, state, due, stall, took, since, orphans>>

(* Every variable holds what its comment says.                             *)
TypeOK ==
  /\ StoreOK(redis)
  /\ now \in 1..MaxTime
  /\ subs \subseteq Owners
  /\ state \in [Owners -> {"new", "alive", "killed", "lost"}]
  /\ due \in [Owners -> 0..MaxTime + Period]
  /\ stall \in Nat
  /\ took \subseteq Holders
  /\ since \in [Owners -> Nat]
  /\ orphans \subseteq Owners

Init ==
  /\ redis = [EmptyStore EXCEPT !.queue = SetToSeq(Jobs)]
  /\ now = 1
  /\ subs = {}
  /\ state = [o \in Owners |-> "new"]
  /\ due = [o \in Owners |-> 0]
  /\ stall = 0 /\ took = {}
  /\ since = [o \in Owners |-> 0] /\ orphans = {}

Alive(o) == state[o] = "alive"
Running == stall <= now

(* Queue.start: subscribe, sweep at once, and start the ticker.            *)
Start(o) ==
  /\ state[o] = "new" /\ Running /\ now <= LastEvent
  /\ state' = [state EXCEPT ![o] = "alive"]
  /\ subs' = subs \cup {o}
  /\ redis' \in Ticks(redis, o, now, subs')
  /\ due' = [due EXCEPT ![o] = now + Period]
  /\ since' = [q \in Owners |->
                 IF \E p \in Owners : Alive(p) THEN since[q] ELSE now]
  /\ orphans' = IF \E p \in Owners : Alive(p) THEN orphans
                ELSE {q \in Owners : state[q] # "new"}
  /\ UNCHANGED <<now, stall, took>>

(* A pop that takes one job and sets the heartbeat.                        *)
Pop(o) ==
  LET r == [owner |-> o, start |-> 1, want |-> 1] IN
  /\ Alive(o) /\ o \in Holders \ took /\ Running
  /\ redis.queue # <<>>
  /\ took' = took \cup {o}
  /\ redis' = AckPop(redis, r, now)
  /\ UNCHANGED <<now, subs, state, due, stall, since, orphans>>

(* Mutant of Sweep: it misses a period.                                    *)
SweepEveryOther(o) ==
  /\ Alive(o) /\ Running /\ due[o] <= now
  /\ redis' \in Ticks(redis, o, now, subs)
  /\ due' = [due EXCEPT ![o] = now + 2 * Period]
  /\ UNCHANGED <<now, subs, state, stall, took, since, orphans>>

(* The ticker fired.  One that fired again while the sweep was stuck is    *)
(* dropped or leads to a second sweep at the same instant, which changes   *)
(* nothing.                                                                *)
Sweep(o) ==
  /\ Alive(o) /\ Running /\ due[o] <= now
  /\ redis' \in Ticks(redis, o, now, subs)
  /\ due' = [due EXCEPT ![o] = CHOOSE t \in now + 1 .. now + Period :
                                  (t - due[o]) % Period = 0]
  /\ UNCHANGED <<now, subs, state, stall, took, since, orphans>>

(* The process dies and Redis drops its connection, or its host is lost    *)
(* and Redis keeps it.                                                     *)
Die(o, how) ==
  /\ Alive(o) /\ o \in Holders /\ now <= LastEvent
  /\ state' = [state EXCEPT ![o] = how]
  /\ subs' = IF how = "killed" THEN subs \ {o} ELSE subs
  /\ since' = [since EXCEPT ![o] = now]
  /\ UNCHANGED <<redis, now, due, stall, took, orphans>>

(* The pub/sub connection of a live object drops and comes back.           *)
Unsubscribe(o) ==
  /\ Alive(o) /\ o \in Holders \cap subs
  /\ subs' = subs \ {o}
  /\ UNCHANGED <<redis, now, state, due, stall, took, since, orphans>>

Resubscribe(o) ==
  /\ Alive(o) /\ o \notin subs /\ Running
  /\ subs' = subs \cup {o}
  /\ UNCHANGED <<redis, now, state, due, stall, took, since, orphans>>

(* Redis stalls, once: a failover, a restart, a pause.                     *)
Stall(d) ==
  /\ stall = 0 /\ now <= LastEvent
  /\ stall' = now + d
  /\ UNCHANGED <<redis, now, subs, state, due, took, since, orphans>>

(* Time passes.  A sweep that is due runs before it does, unless Redis is  *)
(* stalled.  The clock stops at its bound.                                 *)
Advance ==
  /\ Running => \A o \in Owners : Alive(o) => due[o] > now
  /\ now' = IF now < MaxTime THEN now + 1 ELSE now
  /\ UNCHANGED <<redis, subs, state, due, stall, took, since, orphans>>

Next ==
  \/ \E o \in Owners :
       \/ Start(o) \/ Pop(o) \/ Sweep(o) \/ Unsubscribe(o) \/ Resubscribe(o)
       \/ \E how \in {"killed", "lost"} : Die(o, how)
  \/ \E d \in Stalls : Stall(d)
  \/ Advance

Spec == Init /\ [][Next]_vars

-----------------------------------------------------------------------------
(* Properties.                                                             *)

Holds(o) == OwnedBy(redis, {o}) # {}

(* A consumer that sweeps whenever Redis lets it keeps its jobs, whatever  *)
(* happens to its pub/sub connection (tickBody: "a process that still      *)
(* sweeps is never taken for gone"; SetHeartbeatTimeout: "A stall of Redis *)
(* itself, such as a failover, doesn't count").                            *)
LiveKeepsJobs == \A o \in took : Alive(o) => Holds(o)

(* A presence mark goes with its heartbeat: no mark from before an owner   *)
(* was taken for dead is left to shorten the grace of its next pop         *)
(* (tickBody drops both; only a live heartbeat is marked).                 *)
NoStaleMarks == DOMAIN redis.presence \subseteq DOMAIN redis.heartbeats

(* The longest time between two sweeps that look at the subscriptions: one *)
(* that comes within MinTick of another leaves the clock and the marks     *)
(* alone (tickBody: "ticked").                                             *)
Between == Period + MinTick - 1

(* While some process sweeps and Redis has not stalled, a killed consumer  *)
(* that a sweep has seen subscribed gets its jobs requeued within the      *)
(* grace and the time to the sweeps that start it and that find it over    *)
(* (README: "about 3-4 s"), and any other dead consumer within its         *)
(* heartbeat timeout and one sweep (README: "the heartbeat timeout (30 s)  *)
(* + ~1 s"), counted from its death or from when the first process after   *)
(* it started.  What that process finds moves on by the time since the     *)
(* last sweep, so that the time from there to the death comes on top.      *)
RecoveredInTime ==
  \A o \in took :
    ~Alive(o) /\ Holds(o) /\ stall = 0 /\ (\E p \in Owners : Alive(p)) =>
    now - since[o] <= IF state[o] = "killed" /\ o \in DOMAIN redis.presence
                      THEN PresenceGrace + 2 * Between
                      ELSE HBT[o] + Period + IF o \in orphans THEN Between ELSE 0

=============================================================================
