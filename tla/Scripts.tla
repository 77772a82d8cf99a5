------------------------------- MODULE Scripts -------------------------------
(***************************************************************************)
(* The Lua scripts of a list queue (queue.go, pause.go) as operators on    *)
(* what Redis holds for one queue key.  Redis runs a script, or a single   *)
(* command, atomically, so each operator maps a store to the store after   *)
(* the call; an operator whose name is a plural is the set of stores the   *)
(* script may leave.                                                       *)
(*                                                                         *)
(* A store is a record:                                                    *)
(*   queue       the list <key>, head first                                *)
(*   nacked      HASH <key>:nacked, ack ID -> the job pending under it     *)
(*   timeouts    ZSET <key>:timeouts, ack ID -> visibility deadline        *)
(*   heartbeats  ZSET <key>:heartbeats, owner -> when its heartbeat ends   *)
(*   clock       <key>:heartbeats:clock, the last sweep (Absent: no key)   *)
(*   presence    ZSET <key>:presence, owner -> Subscribed or since when no *)
(*               sweep has seen it subscribed                              *)
(*   paused      <key>:paused, since when the queue is paused (Absent: not)*)
(*                                                                         *)
(* A job is a token: two pushes of equal bytes are two jobs.  An owner is  *)
(* the ack ID prefix of a Queue object (128 random bits, newID).           *)
(***************************************************************************)
EXTENDS Integers, FiniteSets, Sequences, SequencesExt

CONSTANTS
  Owners,         \* Queue objects on the key, by ack ID prefix
  Jobs,           \* submission numbers: job j is the j-th push that stored an item
  NoOwner,        \* the prefix of an ack ID that PrepareForFutureAck was given
  VT,             \* visibility timeout of each Queue object (0: none)
  HBT,            \* heartbeat timeout of each Queue object (0: none)
  SweepGap,       \* sweepGap: longest normal gap between sweeps of the key
  PresenceGrace,  \* presenceGrace: how long an owner may go unsubscribed
  MinTick         \* the half second below which a sweep leaves the clock

ASSUME OwnersAssumption == NoOwner \notin Owners
ASSUME JobsAssumption == Jobs \subseteq Nat \ {0}
ASSUME TimeoutAssumption ==
  /\ VT \in [Owners -> Nat] /\ HBT \in [Owners -> Nat]
  /\ SweepGap \in Nat /\ PresenceGrace \in Nat /\ MinTick \in Nat

Absent == 0       \* no such key; Redis's clock itself is never 0
Subscribed == 0   \* the presence score of an owner last seen subscribed

AckIds == [owner : Owners \cup {NoOwner}, start : Nat, index : Nat]

(* The ack IDs <prefix>:<start>:0001 .. <start>:<want> of one pop call.    *)
Reservations == [owner : Owners, start : Nat \ {0}, want : Nat \ {0}]
IdOf(r, i) == [owner |-> r.owner, start |-> r.start, index |-> i]
Ids(r) == {IdOf(r, i) : i \in 1..r.want}

IsPartial(f, S, T) == DOMAIN f \subseteq S /\ f \in [DOMAIN f -> T]

IsStore(s) ==
  s = [queue |-> s.queue, nacked |-> s.nacked, timeouts |-> s.timeouts,
       heartbeats |-> s.heartbeats, clock |-> s.clock,
       presence |-> s.presence, paused |-> s.paused]

StoreOK(s) ==
  /\ IsStore(s)
  /\ s.queue \in Seq(Jobs)
  /\ IsPartial(s.nacked, AckIds, Jobs) /\ IsFiniteSet(DOMAIN s.nacked)
  /\ IsPartial(s.timeouts, AckIds, Nat)
  /\ IsPartial(s.heartbeats, Owners, Nat)
  /\ IsPartial(s.presence, Owners, Nat)
  /\ s.clock \in Nat
  /\ s.paused \in Nat

(* The jobs a store holds, and that it holds each of them once.            *)
InRedis(s) == Range(s.queue) \cup Range(s.nacked)
Exclusive(s) ==
  /\ IsInjective(s.queue) /\ IsInjective(s.nacked)
  /\ Range(s.queue) \cap Range(s.nacked) = {}

(* Deadlines belong to pending items, and every item a pop took has the    *)
(* deadline and the heartbeat entry that its owner's timeouts call for.    *)
Covered(s) ==
  /\ DOMAIN s.timeouts \subseteq DOMAIN s.nacked
  /\ \A id \in DOMAIN s.nacked : id.owner \in Owners =>
       /\ VT[id.owner] > 0 => id \in DOMAIN s.timeouts
       /\ HBT[id.owner] > 0 => id.owner \in DOMAIN s.heartbeats

EmptyMap == [x \in {} |-> 0]
EmptyStore ==
  [queue |-> <<>>, nacked |-> EmptyMap, timeouts |-> EmptyMap,
   heartbeats |-> EmptyMap, clock |-> Absent, presence |-> EmptyMap,
   paused |-> Absent]

(* HSET or ZADD of v under every key of S, and HDEL or ZREM of S.          *)
Put(f, S, v) == [x \in DOMAIN f \cup S |-> IF x \in S THEN v ELSE f[x]]
Drop(f, S) == [x \in DOMAIN f \ S |-> f[x]]

-----------------------------------------------------------------------------
(* Pushes and pops without acknowledgement.                                *)

(* listPush: RPUSH.                                                        *)
Push(s, job) == [s EXCEPT !.queue = Append(@, job)]

(* listRawPop of a queue that is neither paused nor empty: LPOP.           *)
RawPop(s) == [s EXCEPT !.queue = Tail(@)]

(* LREM of one item: i is the place of its first copy from the head.       *)
ListRemove(s, i) == [s EXCEPT !.queue = RemoveAt(@, i)]

(* Purge's one DEL: the jobs and their deadlines go, the heartbeats, the   *)
(* presence, the clock and a pause stay.                                   *)
Purge(s) ==
  [s EXCEPT !.queue = <<>>, !.nacked = EmptyMap, !.timeouts = EmptyMap]

(* pauseScript and resumeScript: SET NX and DEL of :paused.                *)
PauseKey(s, now) == [s EXCEPT !.paused = IF @ = Absent THEN now ELSE @]
ResumeKey(s) == [s EXCEPT !.paused = Absent]

-----------------------------------------------------------------------------
(* Pops with acknowledgement: popHead .. popTail, and popOneHead ..        *)
(* popOneTail, which is the same script for a reservation of one ID.       *)

(* beat(): a pop that hands out items sets its owner's heartbeat.          *)
Beat(s, o, now) ==
  [s EXCEPT !.heartbeats = IF HBT[o] > 0 THEN Put(@, {o}, now + HBT[o]) ELSE @]

(* The leading IDs of r that are pending: what a pop replies with.         *)
Leading(s, r) ==
  {i \in 1..r.want : \A j \in 1..i : IdOf(r, j) \in DOMAIN s.nacked}

(* An earlier run of the call popped: its leading items are handed back    *)
(* and their deadlines raised to this run's.                               *)
HandBack(s, r, now) ==
  LET run == {IdOf(r, i) : i \in Leading(s, r)}
      dl == now + VT[r.owner]
      raised == {id \in run : id \notin DOMAIN s.timeouts \/ s.timeouts[id] < dl}
      t == [s EXCEPT !.timeouts =
              IF VT[r.owner] > 0 THEN Put(@, raised, dl) ELSE @]
  IN IF run = {} THEN t ELSE Beat(t, r.owner, now)

(* Mutants of PopFresh: without beat(), and without the deadlines.         *)
PopFreshNoBeat(s, r, now) ==
  LET n == IF Len(s.queue) < r.want THEN Len(s.queue) ELSE r.want
      ids == {IdOf(r, i) : i \in 1..n}
  IN [s EXCEPT !.queue = SubSeq(@, n + 1, Len(@)),
               !.nacked = [id \in DOMAIN @ \cup ids |->
                             IF id \in ids THEN s.queue[id.index] ELSE @[id]],
               !.timeouts = IF VT[r.owner] > 0
                            THEN Put(@, ids, now + VT[r.owner]) ELSE @]
PopFreshNoDeadline(s, r, now) ==
  Beat([PopFreshNoBeat(s, r, now) EXCEPT !.timeouts = s.timeouts], r.owner, now)

(* Up to r.want items move from the head of the queue to pending.          *)
PopFresh(s, r, now) ==
  LET n == IF Len(s.queue) < r.want THEN Len(s.queue) ELSE r.want
      ids == {IdOf(r, i) : i \in 1..n}
      t == [s EXCEPT
              !.queue = SubSeq(@, n + 1, Len(@)),
              !.nacked = [id \in DOMAIN @ \cup ids |->
                            IF id \in ids THEN s.queue[id.index] ELSE @[id]],
              !.timeouts = IF VT[r.owner] > 0
                           THEN Put(@, ids, now + VT[r.owner]) ELSE @]
  IN IF n = 0 THEN t ELSE Beat(t, r.owner, now)

(* Mutants of AckPop: without the re-send guard, and without the pause.    *)
AckPopNoGuard(s, r, now) ==
  IF s.paused # Absent THEN s ELSE PopFresh(s, r, now)
AckPopNoPause(s, r, now) ==
  IF Ids(r) \cap DOMAIN s.nacked # {} THEN HandBack(s, r, now) ELSE PopFresh(s, r, now)

(* The whole script: the re-send guard, then the pause, then the pop.      *)
AckPop(s, r, now) ==
  IF Ids(r) \cap DOMAIN s.nacked # {} THEN HandBack(s, r, now)
  ELSE IF s.paused # Absent THEN s
  ELSE PopFresh(s, r, now)

(* What a pop that left store s replies with: (ack ID, job) pairs.         *)
Reply(s, r) ==
  {[id |-> IdOf(r, i), job |-> s.nacked[IdOf(r, i)]] : i \in Leading(s, r)}

(* prepareAck: a caller's own ack ID, with the caller's visibility         *)
(* timeout; an item already pending under it is overwritten.               *)
PrepareAck(s, id, job, vt, now) ==
  [s EXCEPT !.nacked = Put(@, {id}, job),
            !.timeouts = IF vt > 0 THEN Put(@, {id}, now + vt) ELSE @]

(* finishScript, for an ack ID that may or may not still be pending.       *)
Finish(s, id) ==
  IF id \in DOMAIN s.nacked
  THEN [s EXCEPT !.nacked = Drop(@, {id}), !.timeouts = Drop(@, {id})]
  ELSE s

-----------------------------------------------------------------------------
(* Requeues.  Each ID moves in one LPUSH, so the items of the sequence ids *)
(* end up at the head of the queue in the reverse of its order.            *)

(* Mutants of Move: RPUSH for LPUSH, and without the HDEL.                 *)
MoveToTail(s, S, ids) ==
  [s EXCEPT !.queue = @ \o [i \in 1..Len(ids) |-> s.nacked[ids[i]]],
            !.nacked = Drop(@, S),
            !.timeouts = Drop(@, S)]
MoveNoDelete(s, S, ids) ==
  [s EXCEPT !.queue = Reverse([i \in 1..Len(ids) |-> s.nacked[ids[i]]]) \o @,
            !.timeouts = Drop(@, S)]

(* move(id) for every ID of S in the order ids; IDs that are not pending   *)
(* only lose their deadline.                                               *)
Move(s, S, ids) ==
  [s EXCEPT !.queue = Reverse([i \in 1..Len(ids) |-> s.nacked[ids[i]]]) \o @,
            !.nacked = Drop(@, S),
            !.timeouts = Drop(@, S)]

(* Every order of the IDs in S: HKEYS promises none.                       *)
Orderings(S) == {ids \in [1..Cardinality(S) -> S] :
                   IsInjective(ids) /\ Range(ids) = S}

(* Ack IDs of one owner sort in pop order (the numbers are zero-padded);   *)
(* prefixes are random, so IDs of different owners sort either way.        *)
IdBefore(a, b) ==
  /\ a.owner = b.owner
  /\ a.start < b.start \/ (a.start = b.start /\ a.index < b.index)

SortedOrders(S) ==
  {ids \in Orderings(S) : \A i, j \in 1..Len(ids) : i < j => ~IdBefore(ids[j], ids[i])}

(* ZRANGEBYSCORE: by deadline, then by ack ID.                             *)
DeadlineOrders(s, S) ==
  {ids \in Orderings(S) : \A i, j \in 1..Len(ids) :
     LET a == s.timeouts[ids[i]]  b == s.timeouts[ids[j]] IN
     i < j => a < b \/ (a = b /\ ~IdBefore(ids[j], ids[i]))}

Expired(s, now) == {id \in DOMAIN s.timeouts : s.timeouts[id] <= now}
OwnedBy(s, O) == {id \in DOMAIN s.nacked : id.owner \in O}

(* listRequeue, run with the caller's visibility timeout.                  *)
Requeues(s, vt, now) ==
  IF vt > 0
  THEN LET S == Expired(s, now) IN
       {Move(s, S, ids) : ids \in DeadlineOrders(s, S \cap DOMAIN s.nacked)}
  ELSE {Move(s, DOMAIN s.nacked, ids) : ids \in Orderings(DOMAIN s.nacked)}

(* Mutant of Releases: the presence stays.                                 *)
ReleasesKeepPresence(s, O) ==
  LET S == OwnedBy(s, O) IN
  {[Move(s, S, ids) EXCEPT !.heartbeats = Drop(@, O)] : ids \in SortedOrders(S)}

(* What a sweep and a Close end with: the pending items of owners O go     *)
(* back, and then their heartbeats and presence go.                        *)
Releases(s, O) ==
  LET S == OwnedBy(s, O) IN
  {[Move(s, S, ids) EXCEPT !.heartbeats = Drop(@, O), !.presence = Drop(@, O)] :
     ids \in SortedOrders(S)}

-----------------------------------------------------------------------------
(* The sweep, tickBody, run by owner o.  now is Redis's clock, subs the    *)
(* owners whose wake channel Redis sees subscribed.                        *)

(* After a gap longer than SweepGap nobody could beat: heartbeats and      *)
(* started graces move on by the gap.                                      *)
Shift(s, now) ==
  LET gap == now - s.clock IN
  IF s.clock # Absent /\ gap > SweepGap
  THEN [s EXCEPT
          !.heartbeats = [m \in DOMAIN @ |-> @[m] + gap],
          !.presence = [m \in DOMAIN @ |->
                          IF @[m] = Subscribed THEN @[m] ELSE @[m] + gap]]
  ELSE s

Ticked(s, now) ==
  s.clock = Absent \/ now - s.clock >= MinTick \/ now < s.clock

(* Mutant of RenewOwn: the sweeper's grace is not reset.                   *)
RenewOwnKeepGrace(s, o, now) ==
  IF o \notin DOMAIN s.heartbeats THEN s
  ELSE IF HBT[o] > 0 THEN [s EXCEPT !.heartbeats[o] = now + HBT[o]]
  ELSE [s EXCEPT !.heartbeats = Drop(@, {o}), !.presence = Drop(@, {o})]

(* The sweeper's own heartbeat, if a pop set one, is renewed, or dropped   *)
(* with its presence when it has no heartbeat timeout.                     *)
RenewOwn(s, o, now) ==
  IF o \notin DOMAIN s.heartbeats THEN s
  ELSE IF HBT[o] > 0
  THEN [s EXCEPT !.heartbeats[o] = now + HBT[o],
                 !.presence = [m \in DOMAIN @ |->
                                 IF m = o THEN Subscribed ELSE @[m]]]
  ELSE [s EXCEPT !.heartbeats = Drop(@, {o}), !.presence = Drop(@, {o})]

Lapsed(s, now) == {m \in DOMAIN s.heartbeats : s.heartbeats[m] <= now}
Live(s, now) == {m \in DOMAIN s.heartbeats : s.heartbeats[m] >= now}

(* Live owners seen subscribed once and then not for PresenceGrace.        *)
Gone(s, now, subs) ==
  {m \in (Live(s, now) \ subs) \cap DOMAIN s.presence :
     s.presence[m] # Subscribed /\ now - s.presence[m] >= PresenceGrace}

(* Mutant of MarkPresence: every sweep restarts the grace.                 *)
MarkPresenceRestart(s, now, subs) ==
  LET seen == Live(s, now) \cap subs
      lost == (Live(s, now) \ subs) \cap DOMAIN s.presence
  IN [s EXCEPT !.presence = Put(Put(@, seen, Subscribed), lost, now)]

(* The sweep's count of subscribers: a subscribed owner is marked so, one  *)
(* that has just lost its subscription starts its grace.                   *)
MarkPresence(s, now, subs) ==
  LET seen == Live(s, now) \cap subs
      lost == {m \in (Live(s, now) \ subs) \cap DOMAIN s.presence :
                 s.presence[m] = Subscribed}
  IN [s EXCEPT !.presence = Put(Put(@, seen, Subscribed), lost, now)]

Ticks(s, o, now, subs) ==
  LET ticked == Ticked(s, now)
      shifted == Shift(s, now)
      renewed == RenewOwn([shifted EXCEPT !.clock = IF ticked THEN now ELSE @],
                          o, now)
      late == Expired(renewed, now)
      swept == {Move(renewed, late, ids) :
                  ids \in DeadlineOrders(renewed, late \cap DOMAIN renewed.nacked)}
      dead == Lapsed(renewed, now)
                \cup (IF ticked THEN Gone(renewed, now, subs) ELSE {})
      Marked(t) == IF ticked THEN MarkPresence(t, now, subs) ELSE t
  IN IF s.clock = Absent THEN swept
     ELSE UNION {Releases(Marked(t), dead) : t \in swept}

(* Close's script: the closing owner's items, heartbeat and presence.      *)
CloseReleases(s, o) == Releases(s, {o})
=============================================================================
