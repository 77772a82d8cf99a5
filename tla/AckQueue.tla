------------------------------ MODULE AckQueue ------------------------------
(***************************************************************************)
(* One list queue key and the Queue objects on it (queue.go): pops with    *)
(* acknowledgement and their reservations, finishes, requeues, sweeps,     *)
(* Close, crashes, and a network that loses replies and runs a command     *)
(* again or late.                                                          *)
(*                                                                         *)
(* go-redis re-sends a command whose reply was lost, with the same         *)
(* arguments, so a copy can reach Redis long after the call returned.  All *)
(* copies a call may send are put in the network when it starts; each one  *)
(* runs at some later step, or is lost.  A call may run out of attempts at *)
(* any time, whatever its copies do afterwards.                            *)
(***************************************************************************)
EXTENDS Scripts

CONSTANTS
  MaxSeq,        \* bound: reservations per Queue object
  MaxWant,       \* bound: items one pop asks for (maxPop in the code)
  MaxCalls,      \* bound: goroutines of one object inside a pop call
  MaxCopies,     \* bound: copies of one pop that have not run yet
  MaxAckCopies,  \* bound: copies of one Acknowledge or Reject
  MaxPrepared,   \* bound: ack IDs given to PrepareForFutureAck
  MaxTime,       \* bound: Redis's clock
  PopUntil,      \* bound: the last time at which a pop runs
  Consumers,     \* the Queue objects that pop with acknowledgement
  Mortal,        \* the Queue objects that may close or crash
  Uses,          \* the optional calls the clients make, see AllUses
  Prompt         \* no copy of a pop outlives the stay of its items in pending

AllUses == {"reject", "dequeue", "prepare", "remove", "purge", "requeue",
            "pause", "close", "crash", "disconnect", "putback"}

ASSUME BoundsAssumption ==
  /\ MaxSeq \in Nat /\ MaxWant \in Nat \ {0} /\ MaxCalls \in Nat
  /\ MaxCopies \in Nat \ {0} /\ MaxAckCopies \in Nat \ {0} /\ MaxPrepared \in Nat
  /\ MaxTime \in Nat /\ PopUntil \in Nat
ASSUME UsesAssumption ==
  Consumers \subseteq Owners /\ Mortal \subseteq Owners /\ Uses \subseteq AllUses /\ Prompt \in BOOLEAN

VARIABLES
  redis,      \* what Redis holds for the key
  now,        \* Redis's clock
  subs,       \* owners whose wake channel Redis sees subscribed
  phase,      \* phase[o]: the life of Queue object o
  ackSeq,     \* ackSeq[o]: last reservation number handed out
  retryPop,   \* retryPop[o]: the reservation kept from a failed pop, or NoResv
  aside,      \* reservations swapped out of retryPop that did not fit a call
  calls,      \* reservations of the pop calls in progress
  net,        \* net[r]: copies of r's pop that have not run
  held,       \* (ack ID, job) pairs that pop calls returned
  acks,       \* finish calls with copies that have not run
  prepared,   \* ack IDs given to PrepareForFutureAck so far
  submitted,  \* jobs pushed so far
  fate,       \* history: what became of each job
  acked,      \* history: jobs their consumer acknowledged or rejected
  tried       \* history: jobs that were ever taken from the head of the queue

clients == <<subs, phase, ackSeq, retryPop, aside, calls, net, held, acks>>
history == <<prepared, submitted, fate, acked, tried>>
vars == <<redis, now, clients, history>>

Resv == [owner : Owners, start : 1..MaxSeq, want : 1..MaxWant]
NoResv == [owner |-> NoOwner, start |-> 0, want |-> 0]
UserId(k) == [owner |-> NoOwner, start |-> 0, index |-> k]
Handles == [id : AckIds, job : Jobs]
Kinds == {"completed", "failed"}
Finishes == [id : AckIds, job : Jobs, kind : Kinds, left : 1..MaxAckCopies]
Phases == {"new", "open", "closing", "closed", "dead"}

(* "live": in the queue or pending; "taken": with the caller of Dequeue;   *)
(* "gone": removed or purged.                                              *)
Fates == {"unborn", "live", "taken", "gone"} \cup Kinds

ClientsOK ==
  /\ now \in Nat \ {0}
  /\ subs \subseteq Owners
  /\ phase \in [Owners -> Phases]
  /\ ackSeq \in [Owners -> 0..MaxSeq]
  /\ retryPop \in [Owners -> Resv \cup {NoResv}]
  /\ aside \subseteq Resv
  /\ calls \subseteq Resv
  /\ net \in [Resv -> 0..MaxCopies]
  /\ held \subseteq Handles
  /\ acks \subseteq Finishes

HistoryOK ==
  /\ prepared \in Nat
  /\ submitted \in Nat
  /\ fate \in [Jobs -> Fates]
  /\ acked \subseteq Jobs
  /\ tried \subseteq Jobs

(* Every variable holds what its comment above says; in particular every   *)
(* ack ID that reaches Redis is one that reserve or a caller made, and     *)
(* reservation numbers start at 1 (ackSeq.Add(1)).                         *)
TypeOK == StoreOK(redis) /\ ClientsOK /\ HistoryOK

Init ==
  /\ redis = EmptyStore
  /\ now = 1
  /\ subs = {}
  /\ phase = [o \in Owners |-> "new"]
  /\ ackSeq = [o \in Owners |-> 0]
  /\ retryPop = [o \in Owners |-> NoResv]
  /\ aside = {} /\ calls = {}
  /\ net = [r \in Resv |-> 0]
  /\ held = {} /\ acks = {}
  /\ prepared = 0 /\ submitted = 0
  /\ fate = [j \in Jobs |-> "unborn"]
  /\ acked = {} /\ tried = {}

-----------------------------------------------------------------------------
(* Under Prompt an item goes back to the queue only when no copy of the    *)
(* pop that took it is left in the network: what the timeouts are for when *)
(* they are set above go-redis's re-send window.                           *)
PromptMoves ==
  Prompt => \A r \in Resv :
    net[r] > 0 => Ids(r) \cap DOMAIN redis.nacked \subseteq DOMAIN redis'.nacked

(* retryPop.CompareAndSwap(nil, r).                                        *)
KeepForRetry(r) ==
  IF retryPop[r.owner] = NoResv THEN [retryPop EXCEPT ![r.owner] = r] ELSE retryPop

-----------------------------------------------------------------------------
(* Queue objects come and go.                                              *)

(* newQueue: start subscribes the object and sweeps once.                  *)
Start(o) ==
  /\ phase[o] = "new"
  /\ phase' = [phase EXCEPT ![o] = "open"]
  /\ subs' = subs \cup {o}
  /\ redis' \in Ticks(redis, o, now, subs')
  /\ PromptMoves
  /\ UNCHANGED <<now, ackSeq, retryPop, aside, calls, net, held, acks, history>>

(* A sweep.  One that was sent before Close may still run during it.       *)
Tick(o) ==
  /\ phase[o] \in {"open", "closing"}
  /\ redis' \in Ticks(redis, o, now, subs)
  /\ PromptMoves
  /\ UNCHANGED <<now, clients, history>>

(* Close cancels the context: from here on the object starts no call.      *)
Close(o) ==
  /\ "close" \in Uses /\ o \in Mortal
  /\ phase[o] = "open"
  /\ phase' = [phase EXCEPT ![o] = "closing"]
  /\ UNCHANGED <<redis, now, subs, ackSeq, retryPop, aside, calls, net, held,
                 acks, history>>

(* Close then releases the object's items, unless it never reserved an ack *)
(* ID or the call fails, and drops the subscription.                       *)
Release(o) ==
  /\ phase[o] = "closing"
  /\ phase' = [phase EXCEPT ![o] = "closed"]
  /\ subs' = subs \ {o}
  /\ \/ ackSeq[o] > 0 /\ redis' \in CloseReleases(redis, o) /\ PromptMoves
     \/ UNCHANGED redis
  /\ UNCHANGED <<now, ackSeq, retryPop, aside, calls, net, held, acks, history>>

(* The process dies, or loses its host: Redis drops the subscription with  *)
(* a dead process's connection, but keeps a lost host's.  Copies that are  *)
(* already in the network still run.                                       *)
Crash(o) ==
  /\ "crash" \in Uses /\ o \in Mortal
  /\ phase[o] \in {"open", "closing"}
  /\ phase' = [phase EXCEPT ![o] = "dead"]
  /\ subs' \in {subs, subs \ {o}}
  /\ retryPop' = [retryPop EXCEPT ![o] = NoResv]
  /\ aside' = {r \in aside : r.owner # o}
  /\ calls' = {r \in calls : r.owner # o}
  /\ held' = {m \in held : m.id.owner # o}
  /\ UNCHANGED <<redis, now, ackSeq, net, acks, history>>

(* Redis drops a connection (a lost host's by TCP keepalive), and a live   *)
(* object resubscribes.                                                    *)
Disconnect(o) ==
  /\ "disconnect" \in Uses
  /\ o \in subs
  /\ subs' = subs \ {o}
  /\ UNCHANGED <<redis, now, phase, ackSeq, retryPop, aside, calls, net, held,
                 acks, history>>

Reconnect(o) ==
  /\ phase[o] = "open" /\ o \notin subs
  /\ subs' = subs \cup {o}
  /\ UNCHANGED <<redis, now, phase, ackSeq, retryPop, aside, calls, net, held,
                 acks, history>>

Advance ==
  /\ now < MaxTime
  /\ now' = now + 1
  /\ UNCHANGED <<redis, clients, history>>

-----------------------------------------------------------------------------
(* Pops with acknowledgement.                                              *)

(* The pop call of reservation r goes out, with every copy it may send.    *)
Send(r) ==
  /\ calls' = calls \cup {r}
  /\ net' = [net EXCEPT ![r] = MaxCopies]

MayPop(o) ==
  /\ phase[o] = "open" /\ o \in Consumers
  /\ Cardinality({r \in calls \cup aside : r.owner = o}) < MaxCalls

(* Mutants of ReserveFresh: the number before the increment, and no        *)
(* increment at all.                                                       *)
ReserveFreshFromZero(o, want) ==
  /\ MayPop(o)
  /\ retryPop[o] = NoResv
  /\ ackSeq[o] < MaxSeq
  /\ ackSeq' = [ackSeq EXCEPT ![o] = @ + 1]
  /\ calls' = calls \cup {[owner |-> o, start |-> ackSeq[o], want |-> want]}
  /\ UNCHANGED <<redis, now, subs, phase, retryPop, aside, net, held, acks, history>>
ReserveFreshNoIncrement(o, want) ==
  /\ MayPop(o)
  /\ retryPop[o] = NoResv
  /\ Send([owner |-> o, start |-> ackSeq[o] + 1, want |-> want])
  /\ UNCHANGED <<redis, now, subs, phase, ackSeq, retryPop, aside, held, acks, history>>

(* reserve with nothing kept: the next reservation number.  popLen makes   *)
(* want anything up to the call's room.                                    *)
ReserveFresh(o, want) ==
  /\ MayPop(o)
  /\ retryPop[o] = NoResv
  /\ ackSeq[o] < MaxSeq
  /\ ackSeq' = [ackSeq EXCEPT ![o] = @ + 1]
  /\ Send([owner |-> o, start |-> ackSeq[o] + 1, want |-> want])
  /\ UNCHANGED <<redis, now, subs, phase, retryPop, aside, held, acks, history>>

(* Mutant of ReserveKept: Load for Swap.                                   *)
ReserveKeptLoad(o) ==
  /\ MayPop(o)
  /\ retryPop[o] # NoResv
  /\ Send(retryPop[o])
  /\ UNCHANGED <<redis, now, subs, phase, ackSeq, retryPop, aside, held, acks, history>>

(* reserve with a kept reservation that fits: its IDs are used again.      *)
ReserveKept(o) ==
  /\ MayPop(o)
  /\ retryPop[o] # NoResv
  /\ retryPop' = [retryPop EXCEPT ![o] = NoResv]
  /\ Send(retryPop[o])
  /\ UNCHANGED <<redis, now, subs, phase, ackSeq, aside, held, acks, history>>

(* reserve with a kept reservation that is too large, after its Swap and   *)
(* before its CompareAndSwap.                                              *)
SetAside(o) ==
  /\ "putback" \in Uses
  /\ MayPop(o)
  /\ retryPop[o] # NoResv /\ retryPop[o].want > 1
  /\ retryPop' = [retryPop EXCEPT ![o] = NoResv]
  /\ aside' = aside \cup {retryPop[o]}
  /\ UNCHANGED <<redis, now, subs, phase, ackSeq, calls, net, held, acks, history>>

(* The CompareAndSwap, which drops r when another failure was kept         *)
(* meanwhile, and then a reservation of its own.                           *)
PutBack(r, want) ==
  /\ r \in aside /\ want < r.want
  /\ ackSeq[r.owner] < MaxSeq
  /\ aside' = aside \ {r}
  /\ retryPop' = KeepForRetry(r)
  /\ ackSeq' = [ackSeq EXCEPT ![r.owner] = @ + 1]
  /\ Send([owner |-> r.owner, start |-> ackSeq[r.owner] + 1, want |-> want])
  /\ UNCHANGED <<redis, now, subs, phase, held, acks, history>>

(* A copy of r's pop runs in Redis, at once or long after its call.  If    *)
(* the call still waits its reply may reach it: its consumer then holds    *)
(* the items.                                                              *)
RunPop(r) ==
  /\ net[r] > 0 /\ now <= PopUntil
  /\ net' = [net EXCEPT ![r] = @ - 1]
  /\ redis' = AckPop(redis, r, now)
  /\ tried' = tried \cup (Range(redis.queue) \ Range(redis'.queue))
  /\ \/ UNCHANGED <<calls, held>>
     \/ /\ r \in calls
        /\ calls' = calls \ {r}
        /\ held' = held \cup Reply(redis', r)
  /\ UNCHANGED <<now, subs, phase, ackSeq, retryPop, aside, acks, prepared,
                 submitted, fate, acked>>

(* A copy is lost.  Only PromptMoves tells it from one that never runs.    *)
LoseCopy(r) ==
  /\ Prompt
  /\ net[r] > 0
  /\ net' = [net EXCEPT ![r] = @ - 1]
  /\ UNCHANGED <<redis, now, subs, phase, ackSeq, retryPop, aside, calls, held,
                 acks, history>>

(* The call gives up: its IDs are kept for the next call, if none are.     *)
FailPop(r) ==
  /\ r \in calls
  /\ calls' = calls \ {r}
  /\ retryPop' = KeepForRetry(r)
  /\ UNCHANGED <<redis, now, subs, phase, ackSeq, aside, net, held, acks, history>>

-----------------------------------------------------------------------------
(* Acknowledge and Reject.                                                 *)

(* A consumer finishes the job it holds, once, through its queue object,   *)
(* or any open one for an ID of its own.                                   *)
BeginFinish(m, kind) ==
  /\ m \in held
  /\ kind = "completed" \/ "reject" \in Uses
  /\ \E o \in Owners : phase[o] = "open" /\ m.id.owner \in {o, NoOwner}
  /\ held' = held \ {m}
  /\ acks' = acks \cup {[id |-> m.id, job |-> m.job, kind |-> kind,
                         left |-> MaxAckCopies]}
  /\ acked' = acked \cup {m.job}
  /\ UNCHANGED <<redis, now, subs, phase, ackSeq, retryPop, aside, calls, net,
                 prepared, submitted, fate, tried>>

(* The finish with one copy fewer still to come.                           *)
OneLess(a) ==
  (acks \ {a}) \cup (IF a.left > 1 THEN {[a EXCEPT !.left = @ - 1]} ELSE {})

RunFinish(a) ==
  /\ a \in acks
  /\ acks' = OneLess(a)
  /\ redis' = Finish(redis, a.id)
  /\ fate' = IF a.id \in DOMAIN redis.nacked
             THEN [fate EXCEPT ![redis.nacked[a.id]] = a.kind] ELSE fate
  /\ UNCHANGED <<now, subs, phase, ackSeq, retryPop, aside, calls, net, held,
                 prepared, submitted, acked, tried>>

-----------------------------------------------------------------------------
(* The other calls, each a single run in Redis.                            *)

SomeOpen == \E o \in Owners : phase[o] = "open"

(* A push that stores an item; one that go-redis re-sent stores another.   *)
Enqueue ==
  /\ SomeOpen
  /\ submitted + 1 \in Jobs
  /\ submitted' = submitted + 1
  /\ redis' = Push(redis, submitted + 1)
  /\ fate' = [fate EXCEPT ![submitted + 1] = "live"]
  /\ UNCHANGED <<now, clients, prepared, acked, tried>>

(* Dequeue takes the head out of Redis, whether or not its reply arrives.  *)
Dequeue ==
  /\ "dequeue" \in Uses
  /\ SomeOpen /\ redis.paused = Absent /\ redis.queue # <<>>
  /\ redis' = RawPop(redis)
  /\ fate' = [fate EXCEPT ![Head(redis.queue)] = "taken"]
  /\ tried' = tried \cup {Head(redis.queue)}
  /\ UNCHANGED <<now, clients, prepared, submitted, acked>>

(* PrepareForFutureAck of an item from Dequeue under an ack ID the caller  *)
(* has not used before.                                                    *)
Prepare(o, job) ==
  /\ "prepare" \in Uses /\ prepared < MaxPrepared
  /\ phase[o] = "open" /\ fate[job] = "taken"
  /\ prepared' = prepared + 1
  /\ redis' = PrepareAck(redis, UserId(prepared + 1), job, VT[o], now)
  /\ held' = held \cup {[id |-> UserId(prepared + 1), job |-> job]}
  /\ fate' = [fate EXCEPT ![job] = "live"]
  /\ UNCHANGED <<now, subs, phase, ackSeq, retryPop, aside, calls, net, acks,
                 submitted, acked, tried>>

RemoveItem(i) ==
  /\ "remove" \in Uses /\ SomeOpen
  /\ i \in 1..Len(redis.queue)
  /\ redis' = ListRemove(redis, i)
  /\ fate' = [fate EXCEPT ![redis.queue[i]] = "gone"]
  /\ UNCHANGED <<now, clients, prepared, submitted, acked, tried>>

PurgeAll ==
  /\ "purge" \in Uses /\ SomeOpen
  /\ redis' = Purge(redis)
  /\ fate' = [j \in Jobs |-> IF fate[j] = "live" THEN "gone" ELSE fate[j]]
  /\ UNCHANGED <<now, clients, prepared, submitted, acked, tried>>

RequeueNackedItems(o) ==
  /\ "requeue" \in Uses /\ phase[o] = "open"
  /\ redis' \in Requeues(redis, VT[o], now)
  /\ PromptMoves
  /\ UNCHANGED <<now, clients, history>>

(* Pause and Resume, as far as the key's scripts see them.                 *)
Pause ==
  /\ "pause" \in Uses /\ SomeOpen
  /\ redis' = PauseKey(redis, now)
  /\ UNCHANGED <<now, clients, history>>

Resume ==
  /\ "pause" \in Uses /\ SomeOpen
  /\ redis' = ResumeKey(redis)
  /\ UNCHANGED <<now, clients, history>>

-----------------------------------------------------------------------------
Next ==
  \/ \E o \in Owners :
       \/ Start(o) \/ Tick(o) \/ Close(o) \/ Release(o) \/ Crash(o)
       \/ Disconnect(o) \/ Reconnect(o)
       \/ ReserveKept(o) \/ SetAside(o) \/ RequeueNackedItems(o)
       \/ \E want \in 1..MaxWant : ReserveFresh(o, want)
       \/ \E job \in Jobs : Prepare(o, job)
  \/ \E r \in Resv :
       \/ RunPop(r) \/ LoseCopy(r) \/ FailPop(r)
       \/ \E want \in 1..MaxWant : PutBack(r, want)
  \/ \E m \in held, kind \in Kinds : BeginFinish(m, kind)
  \/ \E a \in acks : RunFinish(a)
  \/ \E i \in 1..Len(redis.queue) : RemoveItem(i)
  \/ Enqueue \/ Dequeue \/ PurgeAll \/ Pause \/ Resume
  \/ Advance

Spec == Init /\ [][Next]_vars

-----------------------------------------------------------------------------
(* Properties.                                                             *)

(* No job is lost and none is in two places, whatever is re-sent, runs     *)
(* late, crashes or closes: a job that was submitted and not finished,     *)
(* removed, purged or taken raw is in the queue once or pending under one  *)
(* ack ID, never both (popHead: "an item is always in the queue or in the  *)
(* pending hash").                                                         *)
Conserved ==
  /\ Exclusive(redis)
  /\ \A j \in Jobs : fate[j] = "live" <=> j \in InRedis(redis)
  /\ \A j \in Jobs : fate[j] = "unborn" <=> j > submitted

(* Every item a pop took can come back without its consumer: it has a      *)
(* deadline if its owner set a visibility timeout, and its owner has a     *)
(* heartbeat entry for a sweep to find lapsed or gone if it set a          *)
(* heartbeat timeout, even when the pop ran after Close or after another   *)
(* process took the owner for dead (beatFn).  No deadline outlives its     *)
(* item.                                                                   *)
Recoverable == Covered(redis)

(* One pop, one consumer: while a reservation is in a call, kept for a     *)
(* retry or set aside, it is in only one of these places, and none of its  *)
(* ack IDs is with a consumer, so no item a consumer holds is handed out   *)
(* to a second one by a retry (reserve, retryPop).                         *)
InUse == calls \cup aside \cup ({retryPop[o] : o \in Owners} \ {NoResv})
HandedOutOnce ==
  /\ calls \cap aside = {}
  /\ \A o \in Owners : retryPop[o] \notin calls \cup aside
  /\ \A r, q \in InUse : r.owner = q.owner /\ r.start = q.start => r = q
  /\ \A r \in InUse, m \in held : m.id \notin Ids(r)

(* A job is finished only when a consumer that was handed that very job    *)
(* acknowledged or rejected it: an ack ID that a re-sent pop used again    *)
(* never finishes another job (Acknowledge, popHead's re-send guard).      *)
FinishedWasAcked ==
  \A j \in Jobs : fate[j] \in Kinds => j \in acked

(* Jobs that were never taken stay in the order they were pushed, and a    *)
(* requeued job is ahead of all of them: requeues push to the front        *)
(* (listRequeue: "ahead of newer work").                                   *)
NewJobsInOrder ==
  \A i, k \in DOMAIN redis.queue :
    i < k /\ redis.queue[i] \notin tried =>
      redis.queue[k] \notin tried /\ redis.queue[i] < redis.queue[k]

TakesNothing ==
  \A j \in Range(redis.queue) : j \in Range(redis'.queue) \/ fate'[j] = "gone"

(* While the queue is paused no job leaves it but by Remove or Purge: the  *)
(* pause is checked inside each pop script (pausedOne, pausedBatch,        *)
(* listRawPop), so a pop sent before the pause takes nothing after it.     *)
PauseHolds == [][redis.paused # Absent => TakesNothing]_vars

(* What a user of the queue sees: how far each job has come and who holds  *)
(* it.  A job that the calls so far left alive and that Redis does not     *)
(* hold in one place alone is lost.                                        *)
StageIn(s, f) ==
  [j \in Jobs |->
     IF f[j] # "live" THEN f[j]
     ELSE IF j \in Range(s.queue) \ Range(s.nacked) THEN "queue"
     ELSE IF j \in Range(s.nacked) \ Range(s.queue) THEN "pending"
     ELSE "lost"]
HolderIn(s) ==
  [j \in Jobs |->
     IF j \in Range(s.nacked)
     THEN (CHOOSE id \in DOMAIN s.nacked : s.nacked[id] = j).owner ELSE NoOwner]

(* The scripts, copies, sweeps, deaths and closes show their users a plain *)
(* queue: jobs leave it from the head, in one step with their consumer,    *)
(* come back only from a consumer and to the front, and end once (queue.go *)
(* as a whole).                                                            *)
Promise == INSTANCE ListQueue WITH
  waiting <- redis.queue,
  stage <- StageIn(redis, fate),
  holder <- HolderIn(redis),
  paused <- redis.paused # Absent,
  Holders <- Owners,
  Nobody <- NoOwner
KeepsPromise == Promise!Spec

(* No pending item is stuck: with a visibility timeout, every item that a  *)
(* pop took leaves pending again, also when its reply was lost, its        *)
(* consumer died, closed or never acknowledges it, as long as some object  *)
(* stays open to sweep every second (start, sweep, tickBody).              *)
Unstuck ==
  \A o \in Consumers : OwnedBy(redis, {o}) # {} ~> OwnedBy(redis, {o}) = {}

Fairness ==
  /\ WF_vars(Advance)
  /\ \A o \in Owners \ Mortal : WF_vars(Start(o)) /\ WF_vars(Tick(o))

LiveSpec == Spec /\ Fairness

=============================================================================
