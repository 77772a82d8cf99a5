---------------------------- MODULE PriorityJobs ----------------------------
(***************************************************************************)
(* A priority queue key and the data kept about its jobs (priority.go, and *)
(* finishScript, trimScript and requeued() in queue.go): the ZSET with its *)
(* sequence numbers, the priorities and start times of pending jobs, the   *)
(* attempt counts, the :stats counters, and the Job Records with their     *)
(* retention.                                                              *)
(*                                                                         *)
(* Every action is one script or command.  Time is left out: which pending *)
(* jobs a requeue, sweep or Close moves, and which records are too old, is *)
(* any choice that Redis's clock could make.  AckQueue has those rules, as *)
(* well as re-sends, the pause and the processes.                          *)
(***************************************************************************)
EXTENDS Integers, FiniteSets, Sequences, SequencesExt

CONSTANTS
  Jobs,         \* submission numbers
  Priorities,   \* what Enqueue is given; a requeue falls back on 1
  Envs,         \* envelope ids
  NoEnv,        \* the envelope id of an item that has none
  EnvOf,        \* the envelope id of each job; two jobs may share one
  Objects,      \* the Queue objects of this key, each with its own retention
  TrimMax,      \* records that one trim takes for each reason (1000)
  Setters,      \* bound: the objects whose retention is changed
  MaxKeep,      \* bound: records an object keeps of a state
  MaxRare,      \* bound: calls of Dequeue, Remove, Purge and the retention's
                \* setters, and late copies of pops, in all
  MaxCalls,     \* bound: pop calls
  MaxWant,      \* bound: items one pop asks for
  MaxHandOuts   \* bound: how often one job is handed out

ASSUME PriorityAssumption == Jobs \subseteq Nat \ {0} /\ 1 \in Priorities /\ Priorities \subseteq Int
ASSUME EnvAssumption == NoEnv \notin Envs /\ EnvOf \in [Jobs -> Envs \cup {NoEnv}]
ASSUME BoundAssumption ==
  /\ Setters \subseteq Objects
  /\ TrimMax \in Nat \ {0} /\ MaxKeep \in Nat /\ MaxRare \in Nat
  /\ MaxCalls \in Nat /\ MaxWant \in Nat \ {0} /\ MaxHandOuts \in Nat

VARIABLES
  waiting,    \* ZSET <key>: [job, score, seq]
  seq,        \* <key>:seq
  nacked,     \* HASH <key>:nacked, ack ID -> job
  prio,       \* HASH <key>:prio, ack ID -> the score the job was popped at
  started,    \* the ack IDs in HASH <key>:started
  attempts,   \* HASH <key>:attempts, envelope id -> requeues of it
  stats,      \* HASH <key>:stats
  records,    \* HASH <key>:jobs, job id -> its record
  done,       \* ZSETs <key>:completed and :failed: job ids, oldest first
  keep,       \* how many records of each state an object keeps (0: none)
  rare,       \* how much of MaxRare is used
  calls,      \* pop calls begun
  given,      \* history: the priority of each job, once it is pushed
  handed,     \* history: how often each job was taken from the queue
  left,       \* history: jobs that Dequeue or Remove took
  prepared,   \* history: jobs given to PrepareForFutureAck
  uncounted   \* history: jobs that went by other ways than finish, less those
              \* that came by other ways than a push, since the last Purge

pending == <<nacked, prio, started>>
recordVars == <<records, done, stats>>
history == <<given, handed, left, prepared, uncounted>>
vars == <<waiting, seq, pending, attempts, recordVars, keep, rare, calls, history>>

States == {"completed", "failed"}
Other(state) == CHOOSE s \in States : s # state
AckIds == (1..MaxCalls) \X (1..MaxWant)
UserId == <<0, 0>>   \* the ack ID given to PrepareForFutureAck

(* Envelope ids are random, and no ack ID is one.                          *)
ASSUME IdAssumption == (Envs \cup {NoEnv}) \cap (AckIds \cup {UserId}) = {}

Member(job, score, n) == [job |-> job, score |-> score, seq |-> n]

(* A record's id: the envelope id, else the ack ID.                        *)
RecordId(job, id) == IF EnvOf[job] = NoEnv THEN id ELSE EnvOf[job]

EmptyMap == [x \in {} |-> 0]
Drop(f, S) == [x \in DOMAIN f \ S |-> f[x]]
Put(f, x, v) == [y \in DOMAIN f \cup {x} |-> IF y = x THEN v ELSE f[y]]
IsMap(f, S, T) == DOMAIN f \subseteq S /\ \A x \in DOMAIN f : f[x] \in T

(* Every variable holds what its comment says: a priority comes back as it *)
(* went in, and jobs without an envelope id are not counted in attempts.   *)
TypeOK ==
  /\ waiting \subseteq [job : Jobs, score : Priorities, seq : 1..seq]
  /\ seq \in Nat
  /\ IsMap(nacked, AckIds \cup {UserId}, Jobs)
  /\ IsMap(prio, AckIds, Priorities)
  /\ started \subseteq AckIds \cup {UserId}
  /\ IsMap(attempts, Envs, Nat \ {0})
  /\ stats \in [States \cup {"submitted"} -> Nat]
  /\ IsMap(records, Envs \cup AckIds \cup {UserId}, [state : States, attempts : Nat \ {0}])
  /\ \A s \in States : IsInjective(done[s])
  /\ keep \in [Objects -> [States -> 0..MaxKeep]]
  /\ IsMap(given, Jobs, Priorities) /\ handed \in [Jobs -> Nat]
  /\ left \subseteq Jobs /\ prepared \subseteq left /\ uncounted \in Int

Init ==
  /\ waiting = {} /\ seq = 0
  /\ nacked = EmptyMap /\ prio = EmptyMap /\ started = {}
  /\ attempts = EmptyMap
  /\ stats = [s \in States \cup {"submitted"} |-> 0]
  /\ records = EmptyMap /\ done = [s \in States |-> <<>>]
  /\ keep = [o \in Objects |-> [s \in States |-> MaxKeep]] /\ rare = 0
  /\ calls = 0
  /\ given = EmptyMap /\ handed = [j \in Jobs |-> 0]
  /\ left = {} /\ prepared = {} /\ uncounted = 0

Rarely == rare < MaxRare /\ rare' = rare + 1

-----------------------------------------------------------------------------
(* The ZSET.                                                               *)

(* Members sort by score and then by their bytes, which begin with the     *)
(* sequence number.                                                        *)
Before(a, b) == a.score < b.score \/ (a.score = b.score /\ a.seq < b.seq)

(* ZPOPMIN of up to n members, first the first.                            *)
Lowest(n) ==
  LET rank == [m \in waiting |-> 1 + Cardinality({k \in waiting : Before(k, m)})]
      size == IF Cardinality(waiting) < n THEN Cardinality(waiting) ELSE n
  IN [i \in 1..size |-> CHOOSE m \in waiting : rank[m] = i]

(* zsetPush.                                                               *)
Enqueue(job, p) ==
  /\ job \notin DOMAIN given /\ \A j \in Jobs : j < job => j \in DOMAIN given
  /\ waiting' = waiting \cup {Member(job, p, seq + 1)}
  /\ seq' = seq + 1
  /\ stats' = [stats EXCEPT !["submitted"] = @ + 1]
  /\ given' = Put(given, job, p)
  /\ UNCHANGED <<pending, attempts, records, done, keep, rare, calls,
                 handed, left, prepared, uncounted>>

(* The jobs of members ms are handed out.                                  *)
HandsOut(ms) ==
  /\ handed' = [j \in Jobs |-> handed[j] + Cardinality({i \in DOMAIN ms : ms[i].job = j})]
  /\ \A j \in Jobs : handed'[j] <= MaxHandOuts

(* zsetRawPop, of a queue that is not empty.                               *)
Dequeue ==
  /\ Rarely
  /\ waiting # {}
  /\ LET m == Lowest(1)[1] IN
     /\ waiting' = waiting \ {m}
     /\ left' = left \cup {m.job}
  /\ HandsOut(Lowest(1))
  /\ uncounted' = uncounted + 1
  /\ UNCHANGED <<seq, pending, attempts, recordVars, keep, calls, given, prepared>>

(* zsetRemove.                                                             *)
RemoveItem(m) ==
  /\ Rarely
  /\ waiting' = waiting \ {m}
  /\ left' = left \cup {m.job}
  /\ uncounted' = uncounted + 1
  /\ UNCHANGED <<seq, pending, attempts, recordVars, keep, calls,
                 given, handed, prepared>>

(* zsetAckPop and zsetAckPopOne, by the next pop call, or by a copy of an  *)
(* earlier one that reaches Redis late.  A run that finds one of its IDs   *)
(* pending hands back what is there and changes nothing kept here.         *)
Pop(call, want) ==
  LET ms == Lowest(want)
      ids == {<<call, i>> : i \in 1..want}
      new == {<<call, i>> : i \in DOMAIN ms}
  IN /\ \/ call = calls + 1 /\ calls' = call /\ rare' = rare
        \/ call <= calls /\ calls' = calls /\ Rarely
     /\ ids \cap DOMAIN nacked = {}
     /\ waiting # {} /\ waiting' = waiting \ Range(ms)
     /\ nacked' = [id \in DOMAIN nacked \cup new |->
                     IF id \in new THEN ms[id[2]].job ELSE nacked[id]]
     /\ prio' = [id \in DOMAIN prio \cup new |->
                   IF id \in new THEN ms[id[2]].score ELSE prio[id]]
     /\ started' = started \cup new
     /\ HandsOut(ms)
     /\ UNCHANGED <<seq, attempts, recordVars, keep, given, left, prepared, uncounted>>

(* prepareAck, for an item that Dequeue returned.                          *)
PrepareForFutureAck(job) ==
  /\ job \in left \ prepared /\ handed[job] > 0
  /\ UserId \notin DOMAIN nacked
  /\ nacked' = Put(nacked, UserId, job) /\ started' = started \cup {UserId}
  /\ prepared' = prepared \cup {job}
  /\ uncounted' = uncounted - 1
  /\ UNCHANGED <<waiting, seq, prio, attempts, recordVars, keep, rare, calls,
                 given, handed, left>>

-----------------------------------------------------------------------------
(* Requeues.                                                               *)

(* requeued(): another attempt for each item that has an envelope id.      *)
Requeued(ids) ==
  LET times == [e \in Envs |-> Cardinality({i \in DOMAIN ids : EnvOf[nacked[ids[i]]] = e})]
      had(e) == IF e \in DOMAIN attempts THEN attempts[e] ELSE 0
  IN [e \in DOMAIN attempts \cup {e \in Envs : times[e] > 0} |-> had(e) + times[e]]

(* Mutants of Score: the priority is dropped before it is read, and an     *)
(* item without one comes back ahead of all others.                        *)
ScoreOne(id) == 1
ScoreZero(id) == IF id \in DOMAIN prio THEN prio[id] ELSE 0

(* The kept priority, or 1.                                                *)
Score(id) == IF id \in DOMAIN prio THEN prio[id] ELSE 1

(* Mutant of Requeue: without requeued(), and without the HDEL of :prio.   *)
RequeueUncounted(ids) ==
  /\ waiting' = waiting \cup {Member(nacked[ids[i]], Score(ids[i]), seq + i) : i \in DOMAIN ids}
  /\ seq' = seq + Len(ids)
  /\ nacked' = Drop(nacked, Range(ids)) /\ prio' = Drop(prio, Range(ids))
  /\ started' = started \ Range(ids)
  /\ UNCHANGED <<attempts, recordVars, keep, rare, calls, history>>
RequeueKeepPrio(ids) ==
  /\ waiting' = waiting \cup {Member(nacked[ids[i]], Score(ids[i]), seq + i) : i \in DOMAIN ids}
  /\ seq' = seq + Len(ids)
  /\ nacked' = Drop(nacked, Range(ids)) /\ prio' = prio
  /\ started' = started \ Range(ids)
  /\ attempts' = Requeued(ids)
  /\ UNCHANGED <<recordVars, keep, rare, calls, history>>

(* zsetRequeue, zsetTick or zsetRelease moves these IDs in this order.     *)
Requeue(ids) ==
  /\ waiting' = waiting \cup {Member(nacked[ids[i]], Score(ids[i]), seq + i) : i \in DOMAIN ids}
  /\ seq' = seq + Len(ids)
  /\ nacked' = Drop(nacked, Range(ids)) /\ prio' = Drop(prio, Range(ids))
  /\ started' = started \ Range(ids)
  /\ attempts' = Requeued(ids)
  /\ UNCHANGED <<recordVars, keep, rare, calls, history>>

-----------------------------------------------------------------------------
(* Job Records.                                                            *)

(* ZREM.                                                                   *)
Without(z, x) == IF x \in Range(z) THEN RemoveAt(z, CHOOSE i \in DOMAIN z : z[i] = x) ELSE z

Least(a, b) == IF a < b THEN a ELSE b

(* trim: how many of the oldest of n records go when `old' of them are too *)
(* old and k may stay.  Each reason takes at most TrimMax.                 *)
Cut(n, k, old) ==
  LET over == IF n > k THEN n - k ELSE 0
      aged == IF k = 0 THEN n ELSE old
  IN Least(TrimMax, IF aged > over THEN aged ELSE over)

(* Mutant of Finish: the id stays in the other state's ZSET.               *)
FinishKeepOther(o, id, state, old) ==
  LET job == nacked[id]  e == EnvOf[job]  rid == RecordId(job, id)
      tries == 1 + IF e \in DOMAIN attempts THEN attempts[e] ELSE 0
      kept == keep[o][state] > 0
      z == IF kept THEN Append(Without(done[state], rid), rid) ELSE done[state]
      rs == IF kept THEN Put(records, rid, [state |-> state, attempts |-> tries])
            ELSE Drop(records, {rid})
      n == Cut(Len(z), keep[o][state], old)
  IN /\ old < Len(z) \/ old = 0
     /\ nacked' = Drop(nacked, {id}) /\ prio' = Drop(prio, {id}) /\ started' = started \ {id}
     /\ attempts' = Drop(attempts, {e})
     /\ stats' = [stats EXCEPT ![state] = @ + 1]
     /\ done' = [done EXCEPT ![state] = SubSeq(z, n + 1, Len(z))]
     /\ records' = Drop(rs, Range(SubSeq(z, 1, n)))
     /\ UNCHANGED <<waiting, seq, keep, rare, calls, history>>

(* finishScript, for an ack ID that is pending; otherwise it does nothing. *)
(* Each Queue object gives it its own retention.                           *)
(* The record it writes is not too old itself.                             *)
Finish(o, id, state, old) ==
  LET job == nacked[id]  e == EnvOf[job]  rid == RecordId(job, id)
      tries == 1 + IF e \in DOMAIN attempts THEN attempts[e] ELSE 0
      kept == keep[o][state] > 0
      z == IF kept THEN Append(Without(done[state], rid), rid) ELSE done[state]
      rs == IF kept THEN Put(records, rid, [state |-> state, attempts |-> tries])
            ELSE Drop(records, {rid})
      n == Cut(Len(z), keep[o][state], old)
  IN /\ old < Len(z) \/ old = 0
     /\ nacked' = Drop(nacked, {id}) /\ prio' = Drop(prio, {id}) /\ started' = started \ {id}
     /\ attempts' = Drop(attempts, {e})
     /\ stats' = [stats EXCEPT ![state] = @ + 1]
     /\ done' = [done EXCEPT ![state] = SubSeq(z, n + 1, Len(z)),
                             ![Other(state)] = Without(@, rid)]
     /\ records' = Drop(rs, Range(SubSeq(z, 1, n)))
     /\ UNCHANGED <<waiting, seq, keep, rare, calls, history>>

(* Mutant of Trim: only one state is trimmed.                              *)
TrimCompleted(o, old) ==
  LET n == Cut(Len(done["completed"]), keep[o]["completed"], old["completed"]) IN
  /\ old["completed"] <= Len(done["completed"])
  /\ records' = Drop(records, Range(SubSeq(done["completed"], 1, n)))
  /\ done' = [done EXCEPT !["completed"] = SubSeq(@, n + 1, Len(@))]
  /\ UNCHANGED <<waiting, seq, pending, attempts, stats, keep, rare, calls, history>>

(* trimScript, once a minute.                                              *)
Trim(o, old) ==
  LET n == [s \in States |-> Cut(Len(done[s]), keep[o][s], old[s])] IN
  /\ \A s \in States : old[s] <= Len(done[s])
  /\ records' = Drop(records, UNION {Range(SubSeq(done[s], 1, n[s])) : s \in States})
  /\ done' = [s \in States |-> SubSeq(done[s], n[s] + 1, Len(done[s]))]
  /\ UNCHANGED <<waiting, seq, pending, attempts, stats, keep, rare, calls, history>>

(* SetCompletedRetention and SetFailedRetention.                           *)
SetRetention(o, state, k) ==
  /\ Rarely
  /\ keep[o][state] # k /\ keep' = [keep EXCEPT ![o][state] = k]
  /\ UNCHANGED <<waiting, seq, pending, attempts, recordVars, calls, history>>

(* Mutant of Purge: the counters stay.                                     *)
PurgeKeepStats ==
  /\ Rarely
  /\ waiting' = {} /\ seq' = 0
  /\ nacked' = EmptyMap /\ prio' = EmptyMap /\ started' = {} /\ attempts' = EmptyMap
  /\ records' = EmptyMap /\ done' = [s \in States |-> <<>>]
  /\ uncounted' = 0
  /\ UNCHANGED <<stats, keep, calls, given, handed, left, prepared>>

(* Purge's DEL.                                                            *)
Purge ==
  /\ Rarely
  /\ waiting' = {} /\ seq' = 0
  /\ nacked' = EmptyMap /\ prio' = EmptyMap /\ started' = {} /\ attempts' = EmptyMap
  /\ stats' = [s \in States \cup {"submitted"} |-> 0]
  /\ records' = EmptyMap /\ done' = [s \in States |-> <<>>]
  /\ uncounted' = 0
  /\ UNCHANGED <<keep, calls, given, handed, left, prepared>>

-----------------------------------------------------------------------------
Orders(S) == {ids \in [1..Cardinality(S) -> S] : IsInjective(ids)}
Ages == 0..Cardinality(Jobs)

Next ==
  \/ \E j \in Jobs, p \in Priorities : Enqueue(j, p)
  \/ Dequeue \/ \E m \in waiting : RemoveItem(m)
  \/ \E c \in 1..MaxCalls, want \in 1..MaxWant : Pop(c, want)
  \/ \E j \in Jobs : PrepareForFutureAck(j)
  \/ \E S \in SUBSET DOMAIN nacked \ {{}} : \E ids \in Orders(S) : Requeue(ids)
  \/ \E o \in Objects, id \in DOMAIN nacked, state \in States, old \in Ages :
       Finish(o, id, state, old)
  \/ \E o \in Objects, old \in [States -> Ages] : Trim(o, old)
  \/ \E o \in Setters, state \in States, k \in 0..MaxKeep : SetRetention(o, state, k)
  \/ Purge

Spec == Init /\ [][Next]_vars

(* Every open Queue object trims once a minute (sweep); the trims of those *)
(* that may keep fewer than MaxKeep are enough.                            *)
LiveSpec ==
  Spec /\ \A o \in Setters : WF_vars(\E old \in [States -> Ages] : Trim(o, old))

-----------------------------------------------------------------------------
(* Properties.                                                             *)

(* "Lowest first", and in order of submission within a priority: no job is *)
(* handed out while a more urgent one waits, or an earlier one as urgent,  *)
(* if neither has been handed out before; through requeues, late pops, and *)
(* the restart of :seq after a Purge.  Items prepared by hand come back at *)
(* priority 1 and are left out.                                            *)
ServedInTurn ==
  [][\A j \in Jobs : handed'[j] > handed[j] =>
       \A k \in {m.job : m \in waiting'} \ prepared : j \notin prepared =>
         /\ given[j] <= given[k]
         /\ given[j] = given[k] /\ handed[j] = 0 /\ handed[k] = 0 => j < k]_vars

(* Nothing is kept about an item that is not there: priorities and start   *)
(* times belong to pending items, attempt counts to jobs still unfinished  *)
(* (those that Dequeue or Remove took leave theirs behind).                *)
NoLeftovers ==
  /\ DOMAIN prio \subseteq DOMAIN nacked /\ started = DOMAIN nacked
  /\ \A e \in DOMAIN attempts : \E j \in Jobs :
       EnvOf[j] = e /\ j \in {m.job : m \in waiting} \cup Range(nacked) \cup left

(* The counters add up: every job submitted since the last Purge waits, is *)
(* pending, was finished once, or left by Dequeue or Remove (QueueStats).  *)
StatsAddUp ==
  stats["submitted"] =
    Cardinality(waiting) + Cardinality(DOMAIN nacked)
      + stats["completed"] + stats["failed"] + uncounted

(* Every record is in the ZSET of its state and in no other, so that a     *)
(* trim will find it, whatever jobs share its id and however the retention *)
(* was changed between them.                                               *)
RecordsTrimmable ==
  /\ \A x \in DOMAIN records : x \in Range(done[records[x].state])
  /\ Range(done["completed"]) \cap Range(done["failed"]) = {}

(* A record tells how often its job was handed out, if no other job has    *)
(* its id.                                                                 *)
AttemptsTold ==
  \A j \in Jobs \ prepared :
    /\ EnvOf[j] \in DOMAIN records
    /\ \A k \in Jobs : EnvOf[k] = EnvOf[j] => k = j
    => records[EnvOf[j]].attempts = handed[j]

(* However many records a lowered retention leaves over, the trims bring   *)
(* each state within it, TrimMax at a time, also while another object      *)
(* keeps more: within the retention of every object, so the least one.     *)
Within(s) == \A o \in Objects : Len(done[s]) <= keep[o][s]
Retained == \A s \in States : ~Within(s) ~> Within(s)

=============================================================================
