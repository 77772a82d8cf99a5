--------------------------- MODULE AckQueue_proofs ---------------------------
(***************************************************************************)
(* Proofs about AckQueue, for every number of Queue objects, jobs, copies  *)
(* and calls and every setting of the timeouts.                            *)
(***************************************************************************)
EXTENDS AckQueue, Scripts_proofs

(* Every pending ID of a caller is one PrepareForFutureAck was given, so   *)
(* the next one is new.                                                    *)
CallerIdsUsed ==
  \A id \in DOMAIN redis.nacked : id.owner \notin Owners => id.index <= prepared

(* What Redis holds and what became of each job: the inductive invariant   *)
(* behind Conserved and Recoverable, next to the clients' types.           *)
JobsInv == StoreOK(redis) /\ HistoryOK /\ Conserved /\ Recoverable /\ CallerIdsUsed
Inv == ClientsOK /\ JobsInv

(* The invariant makes the store sound, which is what the lemmas of        *)
(* Scripts_proofs assume.                                                  *)
LEMMA InvSound ==
  ASSUME JobsInv
  PROVE  Sound(redis)
  BY DEF JobsInv, Sound, Conserved, Recoverable

(* A step that moves jobs between the queue and pending keeps the          *)
(* invariant when it changes neither a job's fate nor the caller's IDs.    *)
LEMMA MovingStep ==
  ASSUME JobsInv, Sound(redis'), InRedis(redis') = InRedis(redis),
         \A id \in DOMAIN redis'.nacked :
           id \in DOMAIN redis.nacked \/ id.owner \in Owners,
         HistoryOK', UNCHANGED <<fate, submitted, prepared>>
  PROVE  JobsInv'
<1>1. StoreOK(redis') /\ Exclusive(redis') /\ Covered(redis')
  BY DEF Sound
<1>2. Conserved'
  BY <1>1 DEF JobsInv, Conserved
<1>3. CallerIdsUsed'
  BY DEF JobsInv, CallerIdsUsed
<1> QED BY <1>1, <1>2, <1>3 DEF JobsInv, Recoverable

(* A step whose script keeps the jobs keeps the invariant.                 *)
LEMMA KeepingStep ==
  ASSUME JobsInv, Keeps(redis, redis'), UNCHANGED history
  PROVE  JobsInv'
<1>1. /\ Sound(redis') /\ InRedis(redis') = InRedis(redis)
      /\ \A id \in DOMAIN redis'.nacked : id \in DOMAIN redis.nacked
  BY DEF Keeps
<1>2. HistoryOK' /\ UNCHANGED <<fate, submitted, prepared>>
  BY DEF history, HistoryOK, JobsInv
<1> QED BY <1>1, <1>2, MovingStep

(* One job leaves Redis.                                                   *)
LEMMA LeavingStep ==
  ASSUME JobsInv, NEW job \in InRedis(redis), job \in Jobs,
         NEW f \in Fates \ {"live", "unborn"},
         Sound(redis'), InRedis(redis') = InRedis(redis) \ {job},
         DOMAIN redis'.nacked \subseteq DOMAIN redis.nacked,
         fate' = [fate EXCEPT ![job] = f], UNCHANGED <<submitted, prepared>>,
         acked' \subseteq Jobs, tried' \subseteq Jobs
  PROVE  JobsInv'
<1>1. StoreOK(redis') /\ Exclusive(redis') /\ Covered(redis')
  BY DEF Sound
<1>2. fate \in [Jobs -> Fates]
  BY DEF JobsInv, HistoryOK
<1>3. fate[job] = "live"
  BY DEF JobsInv, Conserved
<1>4. /\ fate' \in [Jobs -> Fates] /\ fate'[job] = f
      /\ \A j \in Jobs \ {job} : fate'[j] = fate[j]
  BY <1>2
<1>5. \A j \in Jobs : fate'[j] = "live" <=> j \in InRedis(redis')
  BY <1>4 DEF JobsInv, Conserved
<1>6. \A j \in Jobs : fate'[j] = "unborn" <=> j > submitted'
  BY <1>3, <1>4 DEF JobsInv, Conserved
<1>7. Conserved'
  BY <1>1, <1>5, <1>6 DEF Conserved
<1>8. HistoryOK' /\ CallerIdsUsed'
  BY <1>4 DEF JobsInv, HistoryOK, CallerIdsUsed
<1> QED BY <1>1, <1>7, <1>8 DEF JobsInv, Recoverable

-----------------------------------------------------------------------------
(* The jobs, one action at a time.                                         *)

(* The reservations of the instance are reservations, and NoResv is none.  *)
LEMMA ResvFacts ==
  /\ Resv \subseteq Reservations
  /\ NoResv \notin Resv
<1>1. 1..MaxSeq \subseteq Nat \ {0} /\ 1..MaxWant \subseteq Nat \ {0}
  BY BoundsAssumption
<1>2. Resv \subseteq Reservations
  BY <1>1 DEF Resv, Reservations
<1>3. NoResv \notin Resv
  BY <1>1 DEF Resv, NoResv
<1> QED BY <1>2, <1>3

(* The pop script, run by any copy, keeps the invariant (dequeueOne,       *)
(* dequeueBatch).                                                          *)
LEMMA RunPopJobs ==
  ASSUME Inv, NEW r \in Resv, RunPop(r)
  PROVE  JobsInv'
<1>1. Sound(redis) /\ r \in Reservations /\ now \in Nat
  BY InvSound, ResvFacts DEF Inv, ClientsOK
<1>2. redis' = AckPop(redis, r, now)
  BY DEF RunPop
<1>3. /\ Sound(redis') /\ InRedis(redis') = InRedis(redis)
      /\ \A id \in DOMAIN redis'.nacked :
           id \in DOMAIN redis.nacked \/ id.owner \in Owners
  BY <1>1, <1>2, AckPopSound
<1>4. Range(redis.queue) \subseteq Jobs
  <2>1. redis.queue \in Seq(Jobs)
    BY <1>1 DEF Sound, StoreOK
  <2> QED BY <2>1, QueueFacts
<1>5. HistoryOK' /\ UNCHANGED <<fate, submitted, prepared>>
  BY <1>4 DEF RunPop, HistoryOK, Inv, JobsInv
<1> QED BY <1>3, <1>5, MovingStep DEF Inv

(* So does a finish, for an ID that is pending or not (finish).            *)
LEMMA RunFinishJobs ==
  ASSUME Inv, NEW a \in acks, RunFinish(a)
  PROVE  JobsInv'
<1>1. Sound(redis) /\ a.kind \in Kinds
  BY InvSound DEF Inv, ClientsOK, Finishes
<1>2. /\ redis' = Finish(redis, a.id)
      /\ UNCHANGED <<submitted, prepared, acked, tried>>
      /\ fate' = IF a.id \in DOMAIN redis.nacked
                 THEN [fate EXCEPT ![redis.nacked[a.id]] = a.kind] ELSE fate
  BY DEF RunFinish
<1>3. CASE a.id \notin DOMAIN redis.nacked
  <2>1. redis' = redis /\ UNCHANGED history
    BY <1>2, <1>3 DEF Finish, history
  <2> QED BY <1>1, <2>1, KeepsSelf, KeepingStep DEF Inv
<1>4. CASE a.id \in DOMAIN redis.nacked
  <2> DEFINE job == redis.nacked[a.id]
  <2>1. /\ Sound(redis') /\ InRedis(redis') = InRedis(redis) \ {job}
        /\ job \in Jobs /\ job \in InRedis(redis)
    BY <1>1, <1>2, <1>4, FinishSound
  <2>2. DOMAIN redis'.nacked \subseteq DOMAIN redis.nacked
    <3>1. redis'.nacked = Drop(redis.nacked, {a.id})
      BY <1>1, <1>2, <1>4 DEF Finish, Sound, StoreOK, IsStore
    <3> QED BY <3>1 DEF Drop
  <2>3. fate' = [fate EXCEPT ![job] = a.kind]
    BY <1>2, <1>4
  <2>4. a.kind \in Fates \ {"live", "unborn"}
    BY <1>1 DEF Fates, Kinds
  <2>5. acked' \subseteq Jobs /\ tried' \subseteq Jobs
    BY <1>2 DEF Inv, JobsInv, HistoryOK
  <2> HIDE DEF job
  <2> QED BY <1>2, <2>1, <2>2, <2>3, <2>4, <2>5, LeavingStep DEF Inv
<1> QED BY <1>3, <1>4

(* So does a push (Enqueue).                                               *)
LEMMA EnqueueJobs ==
  ASSUME Inv, Enqueue
  PROVE  JobsInv'
<1> DEFINE job == submitted + 1
<1>1. /\ job \in Jobs /\ submitted' = job /\ redis' = Push(redis, job)
      /\ fate' = [fate EXCEPT ![job] = "live"]
      /\ UNCHANGED <<prepared, acked, tried>>
  BY DEF Enqueue
<1>2. submitted \in Nat /\ fate \in [Jobs -> Fates] /\ Jobs \subseteq Nat
  BY JobsAssumption DEF Inv, JobsInv, HistoryOK
<1>3. fate[job] = "unborn" /\ job \notin InRedis(redis)
  <2>1. job > submitted
    BY <1>2
  <2> HIDE DEF job
  <2> QED BY <1>1, <2>1 DEF Inv, JobsInv, Conserved
<1>4. Sound(redis') /\ InRedis(redis') = InRedis(redis) \cup {job}
  BY <1>1, <1>3, InvSound, PushSound DEF Inv
<1>5. \A j \in Jobs : j > submitted' <=> (j > submitted /\ j # job)
  BY <1>1, <1>2
<1> HIDE DEF job
<1>6. /\ fate' \in [Jobs -> Fates] /\ fate'[job] = "live"
      /\ \A j \in Jobs \ {job} : fate'[j] = fate[j]
  BY <1>1, <1>2 DEF Fates
<1>7. StoreOK(redis') /\ Exclusive(redis') /\ Covered(redis')
  BY <1>4 DEF Sound
<1>8. \A j \in Jobs : fate'[j] = "live" <=> j \in InRedis(redis')
  BY <1>4, <1>6 DEF Inv, JobsInv, Conserved
<1>9. \A j \in Jobs : fate'[j] = "unborn" <=> j > submitted'
  BY <1>3, <1>5, <1>6 DEF Inv, JobsInv, Conserved
<1>10. redis'.nacked = redis.nacked
  BY <1>1, InvSound DEF Push, Inv, Sound, StoreOK, IsStore
<1>11. HistoryOK' /\ CallerIdsUsed'
  BY <1>1, <1>2, <1>6, <1>10 DEF Inv, JobsInv, HistoryOK, CallerIdsUsed
<1> QED BY <1>7, <1>8, <1>9, <1>11 DEF JobsInv, Conserved, Recoverable

(* So does a raw pop (Dequeue).                                            *)
LEMMA DequeueJobs ==
  ASSUME Inv, Dequeue
  PROVE  JobsInv'
<1> DEFINE job == Head(redis.queue)
<1>1. /\ redis.queue # <<>> /\ redis' = RawPop(redis)
      /\ fate' = [fate EXCEPT ![job] = "taken"] /\ tried' = tried \cup {job}
      /\ UNCHANGED <<submitted, prepared, acked>>
  BY DEF Dequeue
<1>2. Sound(redis)
  BY InvSound DEF Inv
<1>3. /\ Sound(redis') /\ InRedis(redis') = InRedis(redis) \ {job}
      /\ job \in InRedis(redis)
  BY <1>1, <1>2, RawPopSound
<1>4. job \in Jobs
  BY <1>1, <1>2, HeadTailProperties DEF Sound, StoreOK
<1>5. redis'.nacked = redis.nacked
  BY <1>1, <1>2 DEF RawPop, Sound, StoreOK, IsStore
<1> HIDE DEF job
<1>6. acked' \subseteq Jobs /\ tried' \subseteq Jobs
  BY <1>1, <1>4 DEF Inv, JobsInv, HistoryOK
<1>7. "taken" \in Fates \ {"live", "unborn"}
  BY DEF Fates
<1> QED BY <1>1, <1>3, <1>4, <1>5, <1>6, <1>7, LeavingStep DEF Inv

(* So does Remove.                                                         *)
LEMMA RemoveItemJobs ==
  ASSUME Inv, NEW i \in 1..Len(redis.queue), RemoveItem(i)
  PROVE  JobsInv'
<1> DEFINE job == redis.queue[i]
<1>1. /\ redis' = ListRemove(redis, i) /\ fate' = [fate EXCEPT ![job] = "gone"]
      /\ UNCHANGED <<submitted, prepared, acked, tried>>
  BY DEF RemoveItem
<1>2. Sound(redis)
  BY InvSound DEF Inv
<1>3. /\ Sound(redis') /\ InRedis(redis') = InRedis(redis) \ {job}
      /\ job \in InRedis(redis)
  BY <1>1, <1>2, ListRemoveSound
<1>4. job \in Jobs
  BY <1>2, QueueFacts DEF Sound, StoreOK
<1>5. redis'.nacked = redis.nacked
  BY <1>1, <1>2 DEF ListRemove, Sound, StoreOK, IsStore
<1> HIDE DEF job
<1>6. acked' \subseteq Jobs /\ tried' \subseteq Jobs
  BY <1>1 DEF Inv, JobsInv, HistoryOK
<1>7. "gone" \in Fates \ {"live", "unborn"}
  BY DEF Fates
<1> QED BY <1>1, <1>3, <1>4, <1>5, <1>6, <1>7, LeavingStep DEF Inv

(* So does Purge.                                                          *)
LEMMA PurgeJobs ==
  ASSUME Inv, PurgeAll
  PROVE  JobsInv'
<1>1. /\ redis' = Purge(redis)
      /\ fate' = [j \in Jobs |-> IF fate[j] = "live" THEN "gone" ELSE fate[j]]
      /\ UNCHANGED <<submitted, prepared, acked, tried>>
  BY DEF PurgeAll
<1>2. Sound(redis') /\ InRedis(redis') = {}
  BY <1>1, InvSound, PurgeSound DEF Inv
<1>3. fate \in [Jobs -> Fates]
  BY DEF Inv, JobsInv, HistoryOK
<1>4. /\ fate' \in [Jobs -> Fates]
      /\ \A j \in Jobs : fate'[j] # "live" /\ (fate'[j] = "unborn" <=> fate[j] = "unborn")
  BY <1>1, <1>3 DEF Fates
<1>5. Conserved'
  BY <1>1, <1>2, <1>4 DEF Sound, Inv, JobsInv, Conserved
<1>6. DOMAIN redis'.nacked = {}
  <2>1. redis'.nacked = EmptyMap
    BY <1>1, InvSound DEF Purge, Inv, Sound, StoreOK, IsStore
  <2> QED BY <2>1, EmptyFacts
<1>7. HistoryOK' /\ CallerIdsUsed'
  BY <1>1, <1>4, <1>6 DEF Inv, JobsInv, HistoryOK, CallerIdsUsed
<1> QED BY <1>2, <1>5, <1>7 DEF Sound, JobsInv, Recoverable

(* So does PrepareForFutureAck.                                            *)
LEMMA PrepareJobs ==
  ASSUME Inv, NEW o \in Owners, NEW job \in Jobs, Prepare(o, job)
  PROVE  JobsInv'
<1> DEFINE id == UserId(prepared + 1)
<1>1. /\ fate[job] = "taken" /\ prepared' = prepared + 1
      /\ redis' = PrepareAck(redis, id, job, VT[o], now)
      /\ fate' = [fate EXCEPT ![job] = "live"]
      /\ UNCHANGED <<submitted, acked, tried>>
  BY DEF Prepare
<1>2. prepared \in Nat /\ now \in Nat /\ fate \in [Jobs -> Fates] /\ VT[o] \in Nat
  BY TimeoutAssumption DEF Inv, JobsInv, HistoryOK, ClientsOK
<1>3. id \in AckIds /\ id.owner \notin Owners /\ id.index = prepared + 1
  BY <1>2, OwnersAssumption DEF UserId, AckIds
<1> HIDE DEF id
<1>4. id \notin DOMAIN redis.nacked
  <2>1. ~(prepared + 1 <= prepared)
    BY <1>2
  <2> QED BY <1>3, <2>1 DEF Inv, JobsInv, CallerIdsUsed
<1>5. job \notin InRedis(redis)
  BY <1>1 DEF Inv, JobsInv, Conserved
<1>6. /\ Sound(redis') /\ InRedis(redis') = InRedis(redis) \cup {job}
      /\ DOMAIN redis'.nacked = DOMAIN redis.nacked \cup {id}
  BY <1>1, <1>2, <1>3, <1>4, <1>5, InvSound, PrepareAckSound DEF Inv
<1>7. /\ fate' \in [Jobs -> Fates] /\ fate'[job] = "live"
      /\ \A j \in Jobs \ {job} : fate'[j] = fate[j]
  BY <1>1, <1>2 DEF Fates
<1>8. Conserved'
  <2>1. \A j \in Jobs : fate'[j] = "live" <=> j \in InRedis(redis')
    BY <1>6, <1>7 DEF Inv, JobsInv, Conserved
  <2>2. \A j \in Jobs : fate'[j] = "unborn" <=> j > submitted'
    BY <1>1, <1>7 DEF Inv, JobsInv, Conserved
  <2> QED BY <1>6, <2>1, <2>2 DEF Sound, Conserved
<1>9. CallerIdsUsed'
  <2> SUFFICES ASSUME NEW x \in DOMAIN redis'.nacked, x.owner \notin Owners
               PROVE  x.index <= prepared'
    BY DEF CallerIdsUsed
  <2>1. CASE x = id
    BY <1>1, <1>2, <1>3, <2>1
  <2>2. CASE x \in DOMAIN redis.nacked
    <3>1. x.index <= prepared /\ x.index \in Nat
      BY <2>2 DEF Inv, JobsInv, CallerIdsUsed, StoreOK, IsPartial, AckIds
    <3> QED BY <1>1, <1>2, <3>1
  <2> QED BY <1>6, <2>1, <2>2
<1>10. HistoryOK'
  BY <1>1, <1>2, <1>7 DEF Inv, JobsInv, HistoryOK
<1> QED BY <1>6, <1>8, <1>9, <1>10 DEF Sound, JobsInv, Recoverable

(* The steps that leave Redis and the jobs' fates alone.                   *)
LEMMA IdleJobs ==
  ASSUME Inv, UNCHANGED redis, HistoryOK', UNCHANGED <<fate, submitted, prepared>>
  PROVE  JobsInv'
  BY InvSound, MovingStep DEF Inv

(* Sweeps, releases and requeues keep the jobs (start, tick, release,      *)
(* requeue).                                                               *)
LEMMA SweepJobs ==
  ASSUME Inv, NEW o \in Owners, Start(o) \/ Tick(o) \/ Release(o) \/ RequeueNackedItems(o)
  PROVE  Keeps(redis, redis') /\ JobsInv'
<1>1. Sound(redis) /\ now \in Nat /\ subs \subseteq Owners /\ VT[o] \in Nat
  BY InvSound, TimeoutAssumption DEF Inv, ClientsOK
<1>2. CASE Start(o)
  <2>1. subs' \subseteq Owners /\ redis' \in Ticks(redis, o, now, subs') /\ UNCHANGED history
    BY <1>1, <1>2 DEF Start
  <2>2. Keeps(redis, redis')
    BY <1>1, <2>1, TicksSound
  <2> QED BY <2>1, <2>2, KeepingStep DEF Inv
<1>3. CASE Tick(o)
  <2>1. redis' \in Ticks(redis, o, now, subs) /\ UNCHANGED history
    BY <1>3 DEF Tick
  <2>2. Keeps(redis, redis')
    BY <1>1, <2>1, TicksSound
  <2> QED BY <2>1, <2>2, KeepingStep DEF Inv
<1>4. CASE Release(o)
  <2>1. (redis' \in Releases(redis, {o}) \/ redis' = redis) /\ UNCHANGED history
    BY <1>4 DEF Release, CloseReleases
  <2>2. Keeps(redis, redis')
    BY <1>1, <2>1, ReleasesSound, KeepsSelf
  <2> QED BY <2>1, <2>2, KeepingStep DEF Inv
<1>5. CASE RequeueNackedItems(o)
  <2>1. redis' \in Requeues(redis, VT[o], now) /\ UNCHANGED history
    BY <1>5 DEF RequeueNackedItems
  <2>2. Keeps(redis, redis')
    BY <1>1, <2>1, RequeuesSound
  <2> QED BY <2>1, <2>2, KeepingStep DEF Inv
<1> QED BY <1>2, <1>3, <1>4, <1>5

(* So do Pause and Resume.                                                 *)
LEMMA PauseJobs ==
  ASSUME Inv, Pause \/ Resume
  PROVE  Keeps(redis, redis') /\ JobsInv'
<1>1. Sound(redis) /\ now \in Nat
  BY InvSound DEF Inv, ClientsOK
<1>2. (redis' = PauseKey(redis, now) \/ redis' = ResumeKey(redis)) /\ UNCHANGED history
  BY DEF Pause, Resume
<1>3. Keeps(redis, redis')
  BY <1>1, <1>2, PauseSound
<1> QED BY <1>2, <1>3, KeepingStep DEF Inv

-----------------------------------------------------------------------------
(* The clients, one action at a time.                                      *)

(* A reservation that ackSeq numbers next is one of the instance's         *)
(* (reserve).                                                              *)
LEMMA NewResv ==
  ASSUME ClientsOK, NEW o \in Owners, NEW want \in 1..MaxWant, ackSeq[o] < MaxSeq
  PROVE  /\ [owner |-> o, start |-> ackSeq[o] + 1, want |-> want] \in Resv
         /\ ackSeq[o] + 1 \in 0..MaxSeq
<1>1. ackSeq[o] \in 0..MaxSeq
  BY DEF ClientsOK
<1>2. ackSeq[o] + 1 \in 1..MaxSeq
  BY <1>1, BoundsAssumption
<1> QED BY <1>2, BoundsAssumption DEF Resv

(* Sending a pop keeps the types of the calls and the copies.              *)
LEMMA SendClients ==
  ASSUME ClientsOK, NEW r \in Resv, Send(r)
  PROVE  calls' \subseteq Resv /\ net' \in [Resv -> 0..MaxCopies]
  BY BoundsAssumption DEF ClientsOK, Send

(* Keeping a failed call's reservation keeps the type of retryPop.         *)
LEMMA KeepClients ==
  ASSUME ClientsOK, NEW r \in Resv
  PROVE  KeepForRetry(r) \in [Owners -> Resv \cup {NoResv}]
  BY DEF ClientsOK, KeepForRetry, Resv

(* Calls and the network.                                                  *)
LEMMA PopClients ==
  ASSUME ClientsOK, NEW o \in Owners, NEW r \in Resv, NEW want \in 1..MaxWant,
         \/ ReserveFresh(o, want) \/ ReserveKept(o) \/ SetAside(o)
         \/ PutBack(r, want) \/ LoseCopy(r) \/ FailPop(r)
  PROVE  ClientsOK'
<1>1. CASE ReserveFresh(o, want)
  <2> DEFINE q == [owner |-> o, start |-> ackSeq[o] + 1, want |-> want]
  <2>1. q \in Resv /\ ackSeq[o] + 1 \in 0..MaxSeq /\ Send(q)
    BY <1>1, NewResv DEF ReserveFresh
  <2> HIDE DEF q
  <2>2. calls' \subseteq Resv /\ net' \in [Resv -> 0..MaxCopies]
    BY <2>1, SendClients
  <2>3. ackSeq' \in [Owners -> 0..MaxSeq]
    BY <1>1, <2>1 DEF ReserveFresh, ClientsOK
  <2> QED BY <1>1, <2>2, <2>3 DEF ReserveFresh, ClientsOK
<1>2. CASE ReserveKept(o)
  <2>1. retryPop[o] \in Resv /\ Send(retryPop[o])
    BY <1>2 DEF ReserveKept, ClientsOK
  <2>2. calls' \subseteq Resv /\ net' \in [Resv -> 0..MaxCopies]
    BY <2>1, SendClients
  <2>3. retryPop' \in [Owners -> Resv \cup {NoResv}]
    BY <1>2 DEF ReserveKept, ClientsOK
  <2> QED BY <1>2, <2>2, <2>3 DEF ReserveKept, ClientsOK
<1>3. CASE SetAside(o)
  <2>1. retryPop[o] \in Resv
    BY <1>3 DEF SetAside, ClientsOK
  <2>2. retryPop' \in [Owners -> Resv \cup {NoResv}] /\ aside' \subseteq Resv
    BY <1>3, <2>1 DEF SetAside, ClientsOK
  <2> QED BY <1>3, <2>2 DEF SetAside, ClientsOK
<1>4. CASE PutBack(r, want)
  <2> DEFINE q == [owner |-> r.owner, start |-> ackSeq[r.owner] + 1, want |-> want]
  <2>1. r.owner \in Owners
    BY DEF Resv
  <2>2. q \in Resv /\ ackSeq[r.owner] + 1 \in 0..MaxSeq /\ Send(q)
    BY <1>4, <2>1, NewResv DEF PutBack
  <2> HIDE DEF q
  <2>3. calls' \subseteq Resv /\ net' \in [Resv -> 0..MaxCopies]
    BY <2>2, SendClients
  <2>4. ackSeq' \in [Owners -> 0..MaxSeq] /\ aside' \subseteq Resv
    BY <1>4, <2>2 DEF PutBack, ClientsOK
  <2>5. retryPop' \in [Owners -> Resv \cup {NoResv}]
    BY <1>4, KeepClients DEF PutBack
  <2> QED BY <1>4, <2>3, <2>4, <2>5 DEF PutBack, ClientsOK
<1>5. CASE LoseCopy(r)
  <2>1. net[r] \in 0..MaxCopies /\ net[r] > 0
    BY <1>5 DEF LoseCopy, ClientsOK
  <2>2. net[r] - 1 \in 0..MaxCopies
    BY <2>1, BoundsAssumption
  <2>3. net' \in [Resv -> 0..MaxCopies]
    BY <1>5, <2>2 DEF LoseCopy, ClientsOK
  <2> QED BY <1>5, <2>3 DEF LoseCopy, ClientsOK
<1>6. CASE FailPop(r)
  <2>1. retryPop' \in [Owners -> Resv \cup {NoResv}]
    BY <1>6, KeepClients DEF FailPop
  <2>2. calls' \subseteq Resv
    BY <1>6 DEF FailPop, ClientsOK
  <2> QED BY <1>6, <2>1, <2>2 DEF FailPop, ClientsOK
<1> QED BY <1>1, <1>2, <1>3, <1>4, <1>5, <1>6

(* A reply pairs the reservation's leading IDs with the jobs they hold.    *)
LEMMA ReplyFacts ==
  ASSUME NEW s, StoreOK(s), NEW r \in Reservations
  PROVE  /\ Reply(s, r) \subseteq Handles
         /\ \A m \in Reply(s, r) : m.id \in Ids(r)
<1> SUFFICES ASSUME NEW i \in Leading(s, r)
             PROVE  /\ [id |-> IdOf(r, i), job |-> s.nacked[IdOf(r, i)]] \in Handles
                    /\ IdOf(r, i) \in Ids(r)
  BY DEF Reply
<1>1. i \in 1..r.want /\ i \in 1..i
  BY DEF Leading, Reservations
<1>2. IdOf(r, i) \in DOMAIN s.nacked
  BY <1>1 DEF Leading
<1>3. IdOf(r, i) \in AckIds /\ s.nacked[IdOf(r, i)] \in Jobs
  BY <1>1, <1>2, IdFacts DEF StoreOK, IsPartial
<1> QED BY <1>1, <1>3 DEF Handles, Ids

(* A pop's reply keeps the clients' types.                                 *)
LEMMA RunPopClients ==
  ASSUME ClientsOK, StoreOK(redis'), NEW r \in Resv, RunPop(r)
  PROVE  ClientsOK'
<1>1. net[r] \in 0..MaxCopies /\ net[r] > 0
  BY DEF RunPop, ClientsOK
<1>2. net[r] - 1 \in 0..MaxCopies
  BY <1>1, BoundsAssumption
<1>3. net' \in [Resv -> 0..MaxCopies]
  BY <1>2 DEF RunPop, ClientsOK
<1>4. Reply(redis', r) \subseteq Handles
  BY ResvFacts, ReplyFacts
<1>5. calls' \subseteq Resv /\ held' \subseteq Handles
  BY <1>4 DEF RunPop, ClientsOK
<1> QED BY <1>3, <1>5 DEF RunPop, ClientsOK

(* So do the two halves of a finish.                                       *)
LEMMA FinishClients ==
  ASSUME ClientsOK
  PROVE  /\ \A m \in held, kind \in Kinds : BeginFinish(m, kind) =>
               ClientsOK' /\ m.job \in Jobs
         /\ \A a \in acks : RunFinish(a) => ClientsOK'
<1>1. ASSUME NEW m \in held, NEW kind \in Kinds, BeginFinish(m, kind)
      PROVE  ClientsOK' /\ m.job \in Jobs
  <2> DEFINE a == [id |-> m.id, job |-> m.job, kind |-> kind, left |-> MaxAckCopies]
  <2>1. m \in Handles /\ MaxAckCopies \in 1..MaxAckCopies
    BY BoundsAssumption DEF ClientsOK
  <2>2. m.id \in AckIds /\ m.job \in Jobs
    BY <2>1 DEF Handles
  <2>3. a \in Finishes
    BY <2>1, <2>2 DEF Finishes
  <2>4. held' = held \ {m} /\ acks' = acks \cup {a}
    BY <1>1 DEF BeginFinish
  <2> HIDE DEF a
  <2> QED BY <1>1, <2>2, <2>3, <2>4 DEF BeginFinish, ClientsOK
<1>2. ASSUME NEW a \in acks, RunFinish(a) PROVE ClientsOK'
  <2>1. a \in Finishes
    BY DEF ClientsOK
  <2>2. a.left > 1 => [a EXCEPT !.left = @ - 1] \in Finishes
    <3>1. a.left \in 1..MaxAckCopies
      BY <2>1 DEF Finishes
    <3>2. a.left > 1 => a.left - 1 \in 1..MaxAckCopies
      BY <3>1, BoundsAssumption
    <3> QED BY <2>1, <3>2 DEF Finishes
  <2>3. acks' \subseteq Finishes
    BY <1>2, <2>2 DEF RunFinish, OneLess, ClientsOK
  <2> QED BY <1>2, <2>3 DEF RunFinish, ClientsOK
<1> QED BY <1>1, <1>2

(* So do an object's start, close, death and reconnects.                   *)
LEMMA LifeClients ==
  ASSUME ClientsOK, NEW o \in Owners,
         \/ Start(o) \/ Close(o) \/ Release(o) \/ Crash(o)
         \/ Disconnect(o) \/ Reconnect(o)
  PROVE  ClientsOK'
<1>1. "open" \in Phases /\ "closing" \in Phases /\ "closed" \in Phases /\ "dead" \in Phases
  BY DEF Phases
<1>2. CASE Start(o)
  BY <1>1, <1>2 DEF Start, ClientsOK
<1>3. CASE Close(o)
  BY <1>1, <1>3 DEF Close, ClientsOK
<1>4. CASE Release(o)
  BY <1>1, <1>4 DEF Release, ClientsOK
<1>5. CASE Crash(o)
  <2>1. retryPop' \in [Owners -> Resv \cup {NoResv}]
    BY <1>5 DEF Crash, ClientsOK
  <2>2. subs' \subseteq Owners /\ phase' \in [Owners -> Phases]
    BY <1>1, <1>5 DEF Crash, ClientsOK
  <2> QED BY <1>5, <2>1, <2>2 DEF Crash, ClientsOK
<1>6. CASE Disconnect(o) \/ Reconnect(o)
  BY <1>6 DEF Disconnect, Reconnect, ClientsOK
<1> QED BY <1>2, <1>3, <1>4, <1>5, <1>6

-----------------------------------------------------------------------------
(* Reservations: the invariant behind HandedOutOnce is that the numbers of *)
(* reservations in use and of ack IDs with a consumer have been handed     *)
(* out, so that a fresh one differs from all of them.                      *)

Numbered ==
  /\ \A o \in Owners : retryPop[o] # NoResv => retryPop[o].owner = o
  /\ \A r \in InUse : r.start <= ackSeq[r.owner]
  /\ \A m \in held : m.id.owner \in Owners => m.id.start <= ackSeq[m.id.owner]

HandInv == Numbered /\ HandedOutOnce

(* An ID of a reservation carries its owner and its number.                *)
LEMMA IdsFacts ==
  ASSUME NEW r, NEW id \in Ids(r)
  PROVE  id.owner = r.owner /\ id.start = r.start
  BY DEF Ids, IdOf

(* What is in use are reservations.                                        *)
LEMMA InUseType ==
  ASSUME ClientsOK
  PROVE  InUse \subseteq Resv
  BY DEF InUse, ClientsOK

(* A step that hands out no reservation and no item.                       *)
LEMMA NothingHandedOut ==
  ASSUME HandInv, ClientsOK, UNCHANGED ackSeq,
         calls' \subseteq calls, aside' \subseteq aside,
         \A o \in Owners : retryPop'[o] \in {retryPop[o], NoResv},
         \A m \in held' : m \in held \/ m.id.owner \notin Owners
  PROVE  HandInv'
<1>1. InUse' \subseteq InUse
  BY DEF InUse
<1>2. NoResv \notin calls' \cup aside'
  BY ResvFacts DEF ClientsOK
<1>3. Numbered'
  BY <1>1 DEF HandInv, Numbered
<1>4. \A o \in Owners : retryPop'[o] \notin calls' \cup aside'
  BY <1>2 DEF HandInv, HandedOutOnce
<1>5. \A r \in InUse', m \in held' : m.id \notin Ids(r)
  <2> SUFFICES ASSUME NEW r \in InUse', NEW m \in held', m.id \in Ids(r) PROVE FALSE
    OBVIOUS
  <2>1. r \in InUse /\ r.owner \in Owners
    BY <1>1, InUseType DEF Resv
  <2>2. m.id.owner = r.owner
    BY IdsFacts
  <2> QED BY <2>1, <2>2 DEF HandInv, HandedOutOnce
<1>6. HandedOutOnce'
  BY <1>1, <1>4, <1>5 DEF HandInv, HandedOutOnce
<1> QED BY <1>3, <1>6 DEF HandInv

(* A reservation with the next number is new.                              *)
LEMMA FreshNumber ==
  ASSUME HandInv, ClientsOK, NEW q \in Resv, q.start = ackSeq[q.owner] + 1
  PROVE  /\ \A r \in InUse : ~(r.owner = q.owner /\ r.start = q.start)
         /\ \A m \in held : m.id \notin Ids(q)
         /\ q \notin InUse
<1>1. q.owner \in Owners /\ ackSeq[q.owner] \in Nat
  BY BoundsAssumption DEF Resv, ClientsOK
<1>2. \A r \in InUse : ~(r.owner = q.owner /\ r.start = q.start)
  BY <1>1 DEF HandInv, Numbered
<1>3. ASSUME NEW m \in held, m.id \in Ids(q) PROVE FALSE
  <2>1. m.id.owner = q.owner /\ m.id.start = q.start
    BY <1>3, IdsFacts
  <2> QED BY <1>1, <2>1 DEF HandInv, Numbered
<1> QED BY <1>2, <1>3

(* A fresh reservation is in no other place (reserve).                     *)
LEMMA ReserveFreshHands ==
  ASSUME HandInv, ClientsOK, NEW o \in Owners, NEW want \in 1..MaxWant, ReserveFresh(o, want)
  PROVE  HandInv'
<1> DEFINE q == [owner |-> o, start |-> ackSeq[o] + 1, want |-> want]
<1>1. /\ calls' = calls \cup {q} /\ ackSeq' = [ackSeq EXCEPT ![o] = @ + 1]
      /\ UNCHANGED <<retryPop, aside, held>>
  BY DEF ReserveFresh, Send
<1>2. q \in Resv /\ q.owner = o /\ q.start = ackSeq[o] + 1
  BY NewResv DEF ReserveFresh
<1> HIDE DEF q
<1>3. /\ \A r \in InUse : ~(r.owner = q.owner /\ r.start = q.start)
      /\ \A m \in held : m.id \notin Ids(q)
      /\ q \notin InUse
  BY <1>2, FreshNumber
<1>4. InUse' = InUse \cup {q}
  BY <1>1 DEF InUse
<1>5. \A p \in Owners : ackSeq[p] \in Nat /\ ackSeq'[p] \in Nat /\ ackSeq[p] <= ackSeq'[p]
  BY <1>1, BoundsAssumption DEF ClientsOK
<1>6. Numbered'
  <2>1. \A r \in InUse' : r.start <= ackSeq'[r.owner]
    <3>1. \A r \in InUse : r.owner \in Owners /\ r.start \in Nat
      BY InUseType, BoundsAssumption DEF Resv
    <3>2. q.start <= ackSeq'[q.owner]
      BY <1>1, <1>2, <1>5 DEF ClientsOK
    <3> QED BY <1>4, <1>5, <3>1, <3>2 DEF HandInv, Numbered
  <2>2. \A m \in held' : m.id.owner \in Owners => m.id.start <= ackSeq'[m.id.owner]
    <3>1. \A m \in held : m.id.start \in Nat
      BY DEF ClientsOK, Handles, AckIds
    <3> QED BY <1>1, <1>5, <3>1 DEF HandInv, Numbered
  <2> QED BY <1>1, <2>1, <2>2 DEF HandInv, Numbered
<1>7. \A p \in Owners : retryPop[p] # q
  BY <1>2, <1>3, ResvFacts DEF InUse
<1>8. q \notin aside
  BY <1>3 DEF InUse
<1>9. HandedOutOnce'
  BY <1>1, <1>3, <1>4, <1>7, <1>8 DEF HandInv, HandedOutOnce
<1> QED BY <1>6, <1>9 DEF HandInv

(* A kept reservation moves to a call or aside.                            *)
LEMMA KeptHands ==
  ASSUME HandInv, ClientsOK, NEW o \in Owners, ReserveKept(o) \/ SetAside(o)
  PROVE  HandInv'
<1> DEFINE q == retryPop[o]
<1>1. /\ q # NoResv /\ retryPop' = [retryPop EXCEPT ![o] = NoResv]
      /\ \/ calls' = calls \cup {q} /\ aside' = aside
         \/ calls' = calls /\ aside' = aside \cup {q}
      /\ UNCHANGED <<ackSeq, held>>
  BY DEF ReserveKept, SetAside, Send
<1>2. q \in Resv /\ q.owner = o /\ q \notin calls \cup aside
  BY <1>1 DEF HandInv, Numbered, HandedOutOnce, ClientsOK
<1>3. /\ retryPop'[o] = NoResv
      /\ \A p \in Owners \ {o} : retryPop'[p] = retryPop[p]
  BY <1>1 DEF ClientsOK
<1>4. \A p \in Owners \ {o} : retryPop[p] # q
  BY <1>1, <1>2 DEF HandInv, Numbered
<1>5. q \in InUse
  BY <1>1 DEF InUse
<1> HIDE DEF q
<1>6. InUse' \subseteq InUse
  BY <1>1, <1>3, <1>5 DEF InUse
<1>7. NoResv \notin calls' \cup aside'
  BY <1>1, <1>2, ResvFacts DEF ClientsOK
<1>8. Numbered'
  BY <1>1, <1>3, <1>6 DEF HandInv, Numbered
<1>9. \A p \in Owners : retryPop'[p] \notin calls' \cup aside'
  BY <1>1, <1>3, <1>4, <1>7 DEF HandInv, HandedOutOnce
<1>10. calls' \cap aside' = {}
  BY <1>1, <1>2 DEF HandInv, HandedOutOnce
<1>11. HandedOutOnce'
  BY <1>1, <1>6, <1>9, <1>10 DEF HandInv, HandedOutOnce
<1> QED BY <1>8, <1>11 DEF HandInv

(* A failed pop is kept, or dropped when another one is.                   *)
LEMMA KeepForRetryFacts ==
  ASSUME ClientsOK, NEW r \in Resv
  PROVE  \A o \in Owners :
           \/ KeepForRetry(r)[o] = retryPop[o]
           \/ KeepForRetry(r)[o] = r /\ o = r.owner
  BY DEF KeepForRetry, ClientsOK

(* A failed call keeps its reservation for a retry or drops it             *)
(* (dequeueOne, dequeueBatch).                                             *)
LEMMA FailPopHands ==
  ASSUME HandInv, ClientsOK, NEW r \in Resv, FailPop(r)
  PROVE  HandInv'
<1>1. /\ r \in calls /\ calls' = calls \ {r} /\ retryPop' = KeepForRetry(r)
      /\ UNCHANGED <<ackSeq, held, aside>>
  BY DEF FailPop
<1>2. \A o \in Owners : retryPop'[o] = retryPop[o] \/ (retryPop'[o] = r /\ o = r.owner)
  BY <1>1, KeepForRetryFacts
<1>3. r \in InUse /\ r \notin aside
  BY <1>1 DEF InUse, HandInv, HandedOutOnce
<1>4. InUse' \subseteq InUse
  BY <1>1, <1>2, <1>3 DEF InUse
<1>5. Numbered'
  BY <1>1, <1>2, <1>4 DEF HandInv, Numbered
<1>6. \A o \in Owners : retryPop'[o] \notin calls' \cup aside'
  BY <1>1, <1>2, <1>3 DEF HandInv, HandedOutOnce
<1>7. HandedOutOnce'
  BY <1>1, <1>4, <1>6 DEF HandInv, HandedOutOnce
<1> QED BY <1>5, <1>7 DEF HandInv

(* A reservation too large for a call is put back, or dropped if another   *)
(* was kept meanwhile (reserve).                                           *)
LEMMA PutBackHands ==
  ASSUME HandInv, ClientsOK, NEW r \in Resv, NEW want \in 1..MaxWant, PutBack(r, want)
  PROVE  HandInv'
<1> DEFINE o == r.owner
           q == [owner |-> o, start |-> ackSeq[o] + 1, want |-> want]
<1>1. /\ r \in aside /\ aside' = aside \ {r} /\ calls' = calls \cup {q}
      /\ retryPop' = KeepForRetry(r)
      /\ ackSeq' = [ackSeq EXCEPT ![o] = @ + 1] /\ UNCHANGED held
  BY DEF PutBack, Send
<1>2. o \in Owners
  BY DEF Resv
<1>3. q \in Resv /\ q.owner = o /\ q.start = ackSeq[o] + 1
  BY <1>2, NewResv DEF PutBack
<1>4. \A p \in Owners : retryPop'[p] = retryPop[p] \/ (retryPop'[p] = r /\ p = r.owner)
  BY <1>1, KeepForRetryFacts
<1> HIDE DEF q, o
<1>5. /\ \A x \in InUse : ~(x.owner = q.owner /\ x.start = q.start)
      /\ \A m \in held : m.id \notin Ids(q)
      /\ q \notin InUse
  BY <1>3, FreshNumber
<1>6. r \in InUse /\ r \notin calls /\ r # q
  BY <1>1, <1>5 DEF InUse, HandInv, HandedOutOnce
<1>7. InUse' \subseteq InUse \cup {q}
  BY <1>1, <1>4, <1>6 DEF InUse
<1>8. \A p \in Owners : ackSeq[p] \in Nat /\ ackSeq'[p] \in Nat /\ ackSeq[p] <= ackSeq'[p]
  BY <1>1, <1>2, BoundsAssumption DEF ClientsOK
<1>9. Numbered'
  <2>1. \A x \in InUse' : x.start <= ackSeq'[x.owner]
    <3>1. \A x \in InUse : x.owner \in Owners /\ x.start \in Nat
      BY InUseType, BoundsAssumption DEF Resv
    <3>2. q.start <= ackSeq'[q.owner]
      BY <1>1, <1>2, <1>3, <1>8 DEF ClientsOK
    <3> QED BY <1>7, <1>8, <3>1, <3>2 DEF HandInv, Numbered
  <2>2. \A m \in held' : m.id.owner \in Owners => m.id.start <= ackSeq'[m.id.owner]
    <3>1. \A m \in held : m.id.start \in Nat
      BY DEF ClientsOK, Handles, AckIds
    <3> QED BY <1>1, <1>8, <3>1 DEF HandInv, Numbered
  <2> QED BY <1>4, <2>1, <2>2 DEF HandInv, Numbered
<1>10. \A p \in Owners : retryPop[p] # q
  BY <1>3, <1>5, ResvFacts DEF InUse
<1>11. q \notin aside
  BY <1>5 DEF InUse
<1>12. \A p \in Owners : retryPop'[p] \notin calls' \cup aside'
  BY <1>1, <1>4, <1>6, <1>10 DEF HandInv, HandedOutOnce
<1>13. calls' \cap aside' = {}
  BY <1>1, <1>11 DEF HandInv, HandedOutOnce
<1>14. HandedOutOnce'
  BY <1>1, <1>5, <1>7, <1>12, <1>13 DEF HandInv, HandedOutOnce
<1> QED BY <1>9, <1>14 DEF HandInv

(* A reply that arrives turns the call's reservation into held items.      *)
LEMMA RunPopHands ==
  ASSUME HandInv, ClientsOK, StoreOK(redis'), NEW r \in Resv, RunPop(r)
  PROVE  HandInv'
<1>1. UNCHANGED <<ackSeq, retryPop, aside>>
  BY DEF RunPop
<1>2. CASE UNCHANGED <<calls, held>>
  BY <1>1, <1>2, NothingHandedOut
<1>3. CASE r \in calls /\ calls' = calls \ {r} /\ held' = held \cup Reply(redis', r)
  <2>1. \A m \in Reply(redis', r) : m.id \in Ids(r)
    BY ResvFacts, ReplyFacts
  <2>2. \A m \in Reply(redis', r) : m.id.owner = r.owner /\ m.id.start = r.start
    BY <2>1, IdsFacts
  <2>3. r \in InUse /\ InUse' = InUse \ {r}
    BY <1>1, <1>3 DEF InUse, HandInv, HandedOutOnce
  <2>4. Numbered'
    BY <1>1, <1>3, <2>2, <2>3 DEF HandInv, Numbered
  <2>5. ASSUME NEW x \in InUse', NEW m \in held', m.id \in Ids(x) PROVE FALSE
    <3>1. CASE m \in held
      BY <2>3, <2>5, <3>1 DEF HandInv, HandedOutOnce
    <3>2. CASE m \in Reply(redis', r)
      <4>1. x.owner = r.owner /\ x.start = r.start
        BY <2>2, <2>5, <3>2, IdsFacts
      <4> QED BY <2>3, <4>1 DEF HandInv, HandedOutOnce
    <3> QED BY <1>3, <3>1, <3>2
  <2>6. HandedOutOnce'
    BY <1>1, <1>3, <2>3, <2>5 DEF HandInv, HandedOutOnce
  <2> QED BY <2>4, <2>6 DEF HandInv
<1> QED BY <1>2, <1>3 DEF RunPop

-----------------------------------------------------------------------------
(* The whole system.                                                       *)

AllInv == Inv /\ HandInv

(* The whole invariant holds at first.                                     *)
LEMMA InitInv ==
  ASSUME Init
  PROVE  AllInv
<1>1. Sound(redis) /\ InRedis(redis) = {} /\ redis = EmptyStore
  BY EmptySound DEF Init
<1>2. DOMAIN redis.nacked = {}
  BY <1>1, EmptyFacts DEF EmptyStore
<1>3. ClientsOK
  BY BoundsAssumption DEF Init, ClientsOK, Phases
<1>4. HistoryOK
  BY DEF Init, HistoryOK, Fates
<1>5. Conserved
  <2>1. \A j \in Jobs : fate[j] = "unborn" /\ j > submitted
    BY JobsAssumption DEF Init
  <2> QED BY <1>1, <2>1 DEF Conserved, Sound
<1>6. Inv
  BY <1>1, <1>2, <1>3, <1>4, <1>5 DEF Inv, JobsInv, Sound, Recoverable, CallerIdsUsed
<1>7. InUse = {} /\ \A o \in Owners : retryPop[o] = NoResv
  BY DEF Init, InUse
<1>8. HandInv
  BY <1>7 DEF Init, HandInv, Numbered, HandedOutOnce
<1> QED BY <1>6, <1>8 DEF AllInv

(* The actions that touch neither the reservations nor the held items.     *)
LEMMA OtherHands ==
  ASSUME AllInv, UNCHANGED <<ackSeq, retryPop, aside, calls, held>>
  PROVE  HandInv'
  BY NothingHandedOut DEF AllInv, Inv

(* A step of an object, its sweep or its next pop keeps the whole          *)
(* invariant.                                                              *)
LEMMA OwnerStep ==
  ASSUME AllInv, NEW o \in Owners, NEW want \in 1..MaxWant,
         \/ Start(o) \/ Tick(o) \/ Close(o) \/ Release(o) \/ Crash(o)
         \/ Disconnect(o) \/ Reconnect(o)
         \/ ReserveKept(o) \/ SetAside(o) \/ RequeueNackedItems(o)
         \/ ReserveFresh(o, want)
  PROVE  AllInv'
<1> USE DEF AllInv
<1>1. Inv /\ HandInv /\ ClientsOK /\ HistoryOK
  BY DEF Inv, JobsInv
<1>2. CASE Start(o) \/ Release(o)
  BY <1>1, <1>2, SweepJobs, LifeClients, OtherHands DEF Start, Release, Inv
<1>3. CASE Tick(o) \/ RequeueNackedItems(o)
  <2>1. ClientsOK' /\ UNCHANGED <<ackSeq, retryPop, aside, calls, held>>
    BY <1>1, <1>3 DEF Tick, RequeueNackedItems, clients, ClientsOK
  <2> QED BY <1>1, <1>3, <2>1, SweepJobs, OtherHands DEF Inv
<1>4. CASE Close(o) \/ Disconnect(o) \/ Reconnect(o)
  <2>1. UNCHANGED <<redis, fate, submitted, prepared>> /\ HistoryOK'
    BY <1>1, <1>4 DEF Close, Disconnect, Reconnect, history, HistoryOK
  <2>2. UNCHANGED <<ackSeq, retryPop, aside, calls, held>>
    BY <1>4 DEF Close, Disconnect, Reconnect
  <2> QED BY <1>1, <1>4, <2>1, <2>2, IdleJobs, LifeClients, OtherHands DEF Inv
<1>5. CASE Crash(o)
  <2>1. UNCHANGED <<redis, fate, submitted, prepared>> /\ HistoryOK'
    BY <1>1, <1>5 DEF Crash, history, HistoryOK
  <2>2. HandInv'
    <3>1. \A p \in Owners : retryPop'[p] \in {retryPop[p], NoResv}
      BY <1>1, <1>5 DEF Crash, ClientsOK
    <3>2. /\ calls' \subseteq calls /\ aside' \subseteq aside /\ held' \subseteq held
          /\ UNCHANGED ackSeq
      BY <1>5 DEF Crash
    <3> QED BY <1>1, <3>1, <3>2, NothingHandedOut
  <2> QED BY <1>1, <1>5, <2>1, <2>2, IdleJobs, LifeClients DEF Inv
<1>6. CASE ReserveKept(o) \/ SetAside(o) \/ ReserveFresh(o, want)
  <2>1. UNCHANGED <<redis, fate, submitted, prepared>> /\ HistoryOK'
    BY <1>1, <1>6 DEF ReserveKept, SetAside, ReserveFresh, history, HistoryOK
  <2>2. HandInv'
    BY <1>1, <1>6, KeptHands, ReserveFreshHands
  <2>3. ClientsOK'
    <3>1. CASE Resv = {}
      BY <1>1, <1>6, <3>1, NewResv DEF ReserveKept, SetAside, ReserveFresh, ClientsOK
    <3>2. CASE Resv # {}
      BY <1>1, <1>6, <3>2, PopClients
    <3> QED BY <3>1, <3>2
  <2> QED BY <1>1, <2>1, <2>2, <2>3, IdleJobs DEF Inv
<1> QED BY <1>2, <1>3, <1>4, <1>5, <1>6

(* So does a copy of a pop that runs or is lost, or a failed call.         *)
LEMMA CopyStep ==
  ASSUME AllInv, NEW r \in Resv, NEW want \in 1..MaxWant,
         RunPop(r) \/ LoseCopy(r) \/ FailPop(r) \/ PutBack(r, want)
  PROVE  AllInv'
<1> USE DEF AllInv
<1>1. Inv /\ HandInv /\ ClientsOK /\ HistoryOK /\ r.owner \in Owners
  BY DEF Inv, JobsInv, Resv
<1>2. CASE RunPop(r)
  <2>1. JobsInv' /\ StoreOK(redis')
    BY <1>1, <1>2, RunPopJobs DEF JobsInv
  <2> QED BY <1>1, <1>2, <2>1, RunPopClients, RunPopHands DEF Inv
<1>3. CASE LoseCopy(r) \/ FailPop(r) \/ PutBack(r, want)
  <2>1. UNCHANGED <<redis, fate, submitted, prepared>> /\ HistoryOK'
    BY <1>1, <1>3 DEF LoseCopy, FailPop, PutBack, history, HistoryOK
  <2>2. HandInv'
    <3>1. CASE LoseCopy(r)
      BY <3>1, OtherHands DEF LoseCopy
    <3> QED BY <1>1, <1>3, <3>1, FailPopHands, PutBackHands
  <2>3. ClientsOK'
    BY <1>1, <1>3, PopClients
  <2> QED BY <1>1, <2>1, <2>2, <2>3, IdleJobs DEF Inv
<1> QED BY <1>2, <1>3

(* So does an Acknowledge or Reject.                                       *)
LEMMA FinishStep ==
  ASSUME AllInv,
         \/ \E m \in held, kind \in Kinds : BeginFinish(m, kind)
         \/ \E a \in acks : RunFinish(a)
  PROVE  AllInv'
<1> USE DEF AllInv
<1>1. Inv /\ HandInv /\ ClientsOK /\ HistoryOK
  BY DEF Inv, JobsInv
<1>2. ASSUME NEW m \in held, NEW kind \in Kinds, BeginFinish(m, kind) PROVE AllInv'
  <2>1. ClientsOK' /\ m.job \in Jobs
    BY <1>1, <1>2, FinishClients
  <2>2. UNCHANGED <<redis, fate, submitted, prepared>> /\ HistoryOK'
    BY <1>1, <1>2, <2>1 DEF BeginFinish, HistoryOK
  <2>3. HandInv'
    BY <1>1, <1>2, NothingHandedOut DEF BeginFinish
  <2> QED BY <1>1, <2>1, <2>2, <2>3, IdleJobs DEF Inv
<1>3. ASSUME NEW a \in acks, RunFinish(a) PROVE AllInv'
  <2>1. HandInv'
    BY <1>3, OtherHands DEF RunFinish
  <2>2. ClientsOK'
    BY <1>1, <1>3, FinishClients
  <2> QED BY <1>1, <1>3, <2>1, <2>2, RunFinishJobs DEF Inv
<1> QED BY <1>2, <1>3

(* So does PrepareForFutureAck.                                            *)
LEMMA PrepareStep ==
  ASSUME AllInv, NEW o \in Owners, NEW job \in Jobs, Prepare(o, job)
  PROVE  AllInv'
<1> DEFINE m == [id |-> UserId(prepared + 1), job |-> job]
<1>1. Inv /\ HandInv /\ ClientsOK /\ prepared \in Nat
  BY DEF AllInv, Inv, JobsInv, HistoryOK
<1>2. m \in Handles /\ m.id.owner \notin Owners
  BY <1>1, OwnersAssumption DEF Handles, UserId, AckIds
<1>3. held' = held \cup {m}
  BY DEF Prepare
<1> HIDE DEF m
<1>4. ClientsOK'
  BY <1>1, <1>2, <1>3 DEF Prepare, ClientsOK
<1>5. HandInv'
  BY <1>1, <1>2, <1>3, NothingHandedOut DEF Prepare
<1> QED BY <1>1, <1>4, <1>5, PrepareJobs DEF AllInv, Inv

(* So does every other call, and time passing.                             *)
LEMMA CallStep ==
  ASSUME AllInv,
         \/ \E i \in 1..Len(redis.queue) : RemoveItem(i)
         \/ Enqueue \/ Dequeue \/ PurgeAll \/ Pause \/ Resume \/ Advance
  PROVE  AllInv'
<1>1. Inv /\ ClientsOK /\ HistoryOK
  BY DEF AllInv, Inv, JobsInv
<1>2. ClientsOK' /\ UNCHANGED <<ackSeq, retryPop, aside, calls, held>>
  BY <1>1 DEF RemoveItem, Enqueue, Dequeue, PurgeAll, Pause, Resume, Advance,
              clients, ClientsOK
<1>3. HandInv'
  BY <1>2, OtherHands
<1>4. JobsInv'
  <2>1. CASE Advance
    <3>1. UNCHANGED <<redis, fate, submitted, prepared>> /\ HistoryOK'
      BY <1>1, <2>1 DEF Advance, history, HistoryOK
    <3> QED BY <1>1, <3>1, IdleJobs
  <2> QED BY <1>1, <2>1, RemoveItemJobs, EnqueueJobs, DequeueJobs, PurgeJobs, PauseJobs
<1> QED BY <1>2, <1>3, <1>4 DEF AllInv, Inv

(* The whole invariant is inductive.                                       *)
LEMMA NextInv ==
  ASSUME AllInv, Next
  PROVE  AllInv'
<1>1. 1 \in 1..MaxWant
  BY BoundsAssumption
<1> QED BY <1>1, OwnerStep, CopyStep, FinishStep, PrepareStep, CallStep DEF Next

(* The conjunction of everything below is an invariant.                    *)
LEMMA Invariance == Spec => []AllInv
<1>1. Init => AllInv
  BY InitInv
<1>2. AllInv /\ UNCHANGED vars => AllInv'
  <2> SUFFICES ASSUME AllInv, UNCHANGED vars PROVE AllInv'
    OBVIOUS
  <2>1. /\ UNCHANGED <<redis, fate, submitted, prepared, acked, tried>>
        /\ UNCHANGED <<now, subs, phase, net, acks>>
        /\ UNCHANGED <<ackSeq, retryPop, aside, calls, held>>
    BY DEF vars, clients, history
  <2>2. HandInv'
    BY <2>1, OtherHands
  <2>3. ClientsOK' /\ HistoryOK'
    BY <2>1 DEF AllInv, Inv, JobsInv, ClientsOK, HistoryOK
  <2> QED BY <2>1, <2>2, <2>3, IdleJobs DEF AllInv, Inv
<1>3. AllInv /\ [Next]_vars => AllInv'
  BY <1>2, NextInv
<1> QED BY <1>1, <1>3, PTL DEF Spec

(* Every variable always has its type; in particular every reservation a   *)
(* call sends, keeps or sets aside is one that reserve made.               *)
THEOREM TypeCorrect == Spec => []TypeOK
<1>1. AllInv => TypeOK
  BY DEF AllInv, Inv, JobsInv, TypeOK
<1> QED BY <1>1, Invariance, PTL

(* No job is ever lost or in two places, for any number of objects, jobs,  *)
(* re-sent and late copies, crashes and closes (popHead, finishScript,     *)
(* tickBody, releaseBody).                                                 *)
THEOREM JobsConserved == Spec => []Conserved
<1>1. AllInv => Conserved
  BY DEF AllInv, Inv, JobsInv
<1> QED BY <1>1, Invariance, PTL

(* Every item a pop took keeps the deadline and the heartbeat entry that   *)
(* brings it back (deadlineFn, beatFn).                                    *)
THEOREM AlwaysRecoverable == Spec => []Recoverable
<1>1. AllInv => Recoverable
  BY DEF AllInv, Inv, JobsInv
<1> QED BY <1>1, Invariance, PTL

(* A retried reservation never reaches two calls, nor an ack ID that a     *)
(* consumer holds (reserve, retryPop).                                     *)
THEOREM OneConsumer == Spec => []HandedOutOnce
<1>1. AllInv => HandedOutOnce
  BY DEF AllInv, HandInv
<1> QED BY <1>1, Invariance, PTL

-----------------------------------------------------------------------------
(* The pause.                                                              *)

(* Jobs that stay in Redis and are not pending afterwards stay queued.     *)
LEMMA StayQueued ==
  ASSUME Inv, NEW j \in Range(redis.queue), j \in InRedis(redis'),
         redis'.nacked = redis.nacked
  PROVE  j \in Range(redis'.queue)
  BY DEF Inv, JobsInv, Conserved, Exclusive, InRedis

(* No step takes a job from a paused queue but Remove and Purge.           *)
LEMMA PausedStep ==
  ASSUME Inv, Next, redis.paused # Absent
  PROVE  TakesNothing
<1>1. Sound(redis) /\ now \in Nat
  BY InvSound DEF Inv, ClientsOK
<1>2. CASE UNCHANGED redis
  BY <1>2 DEF TakesNothing
<1>3. ASSUME NEW o \in Owners, Start(o) \/ Tick(o) \/ Release(o) \/ RequeueNackedItems(o)
      PROVE  TakesNothing
  BY <1>3, SweepJobs DEF Keeps, TakesNothing
<1>4. CASE Pause \/ Resume
  BY <1>4, PauseJobs DEF Keeps, TakesNothing
<1>5. ASSUME NEW r \in Resv, RunPop(r) PROVE TakesNothing
  <2>1. r \in Reservations /\ redis' = AckPop(redis, r, now)
    BY <1>5, ResvFacts DEF RunPop
  <2> QED BY <1>1, <2>1, AckPopSound DEF Keeps, TakesNothing
<1>6. ASSUME NEW a \in acks, RunFinish(a) PROVE TakesNothing
  <2>1. redis'.queue = redis.queue
    BY <1>1, <1>6 DEF RunFinish, Finish, Sound, StoreOK, IsStore
  <2> QED BY <2>1 DEF TakesNothing
<1>7. CASE Enqueue
  <2> DEFINE job == submitted + 1
  <2>1. job \in Jobs /\ redis' = Push(redis, job)
    BY <1>7 DEF Enqueue
  <2>2. job \notin InRedis(redis)
    <3>1. job > submitted
      BY DEF Inv, JobsInv, HistoryOK
    <3> HIDE DEF job
    <3>2. fate[job] = "unborn"
      BY <2>1, <3>1 DEF Inv, JobsInv, Conserved
    <3> QED BY <2>1, <3>2 DEF Inv, JobsInv, Conserved
  <2> HIDE DEF job
  <2>3. InRedis(redis') = InRedis(redis) \cup {job}
    BY <1>1, <2>1, <2>2, PushSound
  <2>4. redis'.nacked = redis.nacked
    BY <1>1, <2>1 DEF Push, Sound, StoreOK, IsStore
  <2> QED BY <2>3, <2>4, StayQueued DEF TakesNothing, InRedis
<1>8. ASSUME NEW i \in 1..Len(redis.queue), RemoveItem(i) PROVE TakesNothing
  <2> DEFINE job == redis.queue[i]
  <2>1. redis' = ListRemove(redis, i) /\ fate' = [fate EXCEPT ![job] = "gone"]
    BY <1>8 DEF RemoveItem
  <2>2. InRedis(redis') = InRedis(redis) \ {job}
    BY <1>1, <2>1, ListRemoveSound
  <2>3. redis'.nacked = redis.nacked
    BY <1>1, <2>1 DEF ListRemove, Sound, StoreOK, IsStore
  <2>4. job \in Jobs
    BY <1>1, QueueFacts DEF Sound, StoreOK
  <2> HIDE DEF job
  <2>5. fate'[job] = "gone"
    BY <2>1, <2>4 DEF Inv, JobsInv, HistoryOK
  <2>6. \A j \in Range(redis.queue) : j # job => j \in Range(redis'.queue)
    BY <2>2, <2>3, StayQueued DEF InRedis
  <2> QED BY <2>5, <2>6 DEF TakesNothing
<1>9. CASE PurgeAll
  <2>1. ASSUME NEW j \in Range(redis.queue) PROVE fate'[j] = "gone"
    <3>1. j \in Jobs
      BY <1>1, QueueFacts DEF Sound, StoreOK
    <3>2. fate[j] = "live"
      BY <3>1 DEF Inv, JobsInv, Conserved, InRedis
    <3> QED BY <1>9, <3>1, <3>2 DEF PurgeAll
  <2> QED BY <2>1 DEF TakesNothing
<1>10. ASSUME NEW o \in Owners, NEW job \in Jobs, Prepare(o, job) PROVE TakesNothing
  <2>1. redis'.queue = redis.queue
    BY <1>1, <1>10 DEF Prepare, PrepareAck, Sound, StoreOK, IsStore
  <2> QED BY <2>1 DEF TakesNothing
<1>11. ~Dequeue
  BY DEF Dequeue
<1>12. ASSUME NEW o \in Owners, NEW want \in 1..MaxWant,
              \/ Close(o) \/ Crash(o) \/ Disconnect(o) \/ Reconnect(o)
              \/ ReserveKept(o) \/ SetAside(o) \/ ReserveFresh(o, want)
       PROVE  UNCHANGED redis
  BY <1>12 DEF Close, Crash, Disconnect, Reconnect, ReserveKept, SetAside, ReserveFresh
<1>13. ASSUME NEW r \in Resv, NEW want \in 1..MaxWant,
              LoseCopy(r) \/ FailPop(r) \/ PutBack(r, want)
       PROVE  UNCHANGED redis
  BY <1>13 DEF LoseCopy, FailPop, PutBack
<1>14. ASSUME NEW m \in held, NEW kind \in Kinds, BeginFinish(m, kind)
       PROVE  UNCHANGED redis
  BY <1>14 DEF BeginFinish
<1>15. CASE Advance
  BY <1>2, <1>15 DEF Advance
<1>16. 1 \in 1..MaxWant
  BY BoundsAssumption
<1>17. CASE \E o \in Owners :
         \/ Start(o) \/ Tick(o) \/ Close(o) \/ Release(o) \/ Crash(o)
         \/ Disconnect(o) \/ Reconnect(o)
         \/ ReserveKept(o) \/ SetAside(o) \/ RequeueNackedItems(o)
         \/ \E want \in 1..MaxWant : ReserveFresh(o, want)
         \/ \E job \in Jobs : Prepare(o, job)
  BY <1>2, <1>3, <1>10, <1>12, <1>16, <1>17
<1>18. CASE \E r \in Resv :
         \/ RunPop(r) \/ LoseCopy(r) \/ FailPop(r)
         \/ \E want \in 1..MaxWant : PutBack(r, want)
  BY <1>2, <1>5, <1>13, <1>16, <1>18
<1> QED BY <1>2, <1>4, <1>6, <1>7, <1>8, <1>9, <1>11, <1>14, <1>15, <1>17, <1>18 DEF Next

(* While the queue is paused no pop takes an item, whenever it was sent    *)
(* (pausedOne, pausedBatch, listRawPop).                                   *)
THEOREM NothingPopsWhilePaused == Spec => PauseHolds
<1>1. AllInv /\ [Next]_vars => [redis.paused # Absent => TakesNothing]_vars
  BY PausedStep DEF AllInv
<1> QED BY <1>1, Invariance, PTL DEF Spec, PauseHolds
-----------------------------------------------------------------------------
(* The order of new work.  A job that was ever pending or taken raw counts *)
(* as tried, so what a requeue puts ahead of the queue is tried, and what  *)
(* a push adds behind it is not and comes after every earlier push.        *)

TakenTried == \A j \in Jobs : fate[j] = "taken" => j \in tried
PendTried == \A id \in DOMAIN redis.nacked : redis.nacked[id] \in tried
Past == \A j \in tried : j <= submitted

OrderInv == TakenTried /\ PendTried /\ Past /\ NewJobsInOrder

(* A queue with its untried jobs behind the tried ones and in push order.  *)
InOrder(q, T) ==
  \A i, k \in 1..Len(q) : i < k /\ q[i] \notin T => q[k] \notin T /\ q[i] < q[k]

(* NewJobsInOrder speaks of the places of the queue.                       *)
LEMMA OrderOfQueue ==
  ASSUME StoreOK(redis)
  PROVE  NewJobsInOrder <=> InOrder(redis.queue, tried)
<1>1. DOMAIN redis.queue = 1..Len(redis.queue)
  BY QueueFacts DEF StoreOK
<1> QED BY <1>1 DEF NewJobsInOrder, InOrder

(* Tried jobs at the head leave a queue in order.                          *)
LEMMA AheadInOrder ==
  ASSUME NEW s, NEW t, s.queue \in Seq(Jobs), NEW n \in Nat, Ahead(s, t, n),
         NEW T, Range(s.nacked) \subseteq T, InOrder(s.queue, T)
  PROVE  InOrder(t.queue, T)
<1> DEFINE L == Len(s.queue)
<1>1. L \in Nat
  BY LenProperties
<1>2. /\ Len(t.queue) = n + L
      /\ \A i \in 1..n : t.queue[i] \in T
      /\ \A i \in 1..L : t.queue[n + i] = s.queue[i]
  BY DEF Ahead
<1>3. \A i, k \in 1..L : i < k /\ s.queue[i] \notin T => s.queue[k] \notin T /\ s.queue[i] < s.queue[k]
  BY DEF InOrder
<1> HIDE DEF L
<1> SUFFICES ASSUME NEW i \in 1..n + L, NEW k \in 1..n + L, i < k, t.queue[i] \notin T
             PROVE  t.queue[k] \notin T /\ t.queue[i] < t.queue[k]
  BY <1>2 DEF InOrder
<1>4. ~(i <= n)
  BY <1>2
<1>5. /\ i - n \in 1..L /\ k - n \in 1..L /\ i - n < k - n
      /\ n + (i - n) = i /\ n + (k - n) = k
  BY <1>1, <1>4
<1>6. t.queue[i] = s.queue[i - n] /\ t.queue[k] = s.queue[k - n]
  BY <1>2, <1>5
<1> QED BY <1>3, <1>5, <1>6

(* So do jobs taken from its head and added to the tried ones.             *)
LEMMA PoppedInOrder ==
  ASSUME NEW s, NEW t, s.queue \in Seq(Jobs), NEW r, NEW n \in Nat, Popped(s, t, r, n),
         NEW T, NEW U, T \subseteq U,
         \A i \in 1..Len(t.queue) : t.queue[i] \in U => t.queue[i] \in T,
         InOrder(s.queue, T)
  PROVE  InOrder(t.queue, U)
<1> DEFINE L == Len(s.queue)
<1>1. L \in Nat
  BY LenProperties
<1>2. n <= L /\ Len(t.queue) = L - n /\ \A i \in 1..L - n : t.queue[i] = s.queue[n + i]
  BY DEF Popped
<1>3. \A i, k \in 1..L : i < k /\ s.queue[i] \notin T => s.queue[k] \notin T /\ s.queue[i] < s.queue[k]
  BY DEF InOrder
<1> HIDE DEF L
<1> SUFFICES ASSUME NEW i \in 1..L - n, NEW k \in 1..L - n, i < k, t.queue[i] \notin U
             PROVE  t.queue[k] \notin U /\ t.queue[i] < t.queue[k]
  BY <1>2 DEF InOrder
<1>4. n + i \in 1..L /\ n + k \in 1..L /\ n + i < n + k
  BY <1>1, <1>2
<1>5. t.queue[i] = s.queue[n + i] /\ t.queue[k] = s.queue[n + k] /\ t.queue[i] \notin T
  BY <1>2
<1>6. t.queue[k] \notin T /\ t.queue[i] < t.queue[k]
  BY <1>3, <1>4, <1>5
<1> QED BY <1>2, <1>6

(* So does one job that leaves, whether it counts as tried then or not.    *)
LEMMA SkippedInOrder ==
  ASSUME NEW p \in Seq(Jobs), NEW q, NEW i \in 1..Len(p), Skips(p, q, i), IsInjective(p),
         NEW T, NEW U, T \subseteq U, U \subseteq T \cup {p[i]}, InOrder(p, T)
  PROVE  InOrder(q, U)
<1> DEFINE L == Len(p)
<1>1. L \in Nat /\ DOMAIN p = 1..L
  BY LenProperties
<1>2. Len(q) = L - 1 /\ \A k \in 1..L - 1 : q[k] = IF k < i THEN p[k] ELSE p[k + 1]
  BY DEF Skips
<1>3. \A a, b \in 1..L : a < b /\ p[a] \notin T => p[b] \notin T /\ p[a] < p[b]
  BY DEF InOrder
<1>4. \A a, b \in 1..L : p[a] = p[b] => a = b
  BY <1>1 DEF IsInjective
<1>5. i \in 1..L
  OBVIOUS
<1> HIDE DEF L
<1> DEFINE At(k) == IF k < i THEN k ELSE k + 1
<1>6. \A k \in 1..L - 1 : At(k) \in 1..L /\ At(k) # i
  BY <1>1, <1>5
<1>7. \A a, b \in 1..L - 1 : a < b => At(a) < At(b)
  BY <1>1, <1>5
<1>8. \A k \in 1..L - 1 : q[k] = p[At(k)]
  BY <1>2
<1> HIDE DEF At
<1> SUFFICES ASSUME NEW a \in 1..L - 1, NEW b \in 1..L - 1, a < b, q[a] \notin U
             PROVE  q[b] \notin U /\ q[a] < q[b]
  BY <1>2 DEF InOrder
<1>9. q[a] = p[At(a)] /\ q[b] = p[At(b)] /\ At(a) < At(b) /\ p[At(a)] \notin T
  BY <1>7, <1>8
<1>10. q[b] \notin T /\ q[a] < q[b]
  BY <1>3, <1>6, <1>9
<1>11. q[b] # p[i]
  BY <1>4, <1>5, <1>6, <1>9
<1> QED BY <1>10, <1>11
(* Jobs in Redis have been pushed.                                         *)
LEMMA HeldArePushed ==
  ASSUME Inv, NEW j \in InRedis(redis)
  PROVE  j \in Jobs /\ j <= submitted
<1>1. Sound(redis)
  BY InvSound DEF Inv
<1>2. Range(redis.queue) \subseteq Jobs
  <2>1. redis.queue \in Seq(Jobs)
    BY <1>1 DEF Sound, StoreOK
  <2> QED BY <2>1, QueueFacts
<1>3. Range(redis.nacked) \subseteq Jobs
  BY <1>1 DEF Sound, StoreOK, IsPartial, Range
<1>4. j \in Jobs
  BY <1>2, <1>3 DEF InRedis
<1>5. fate[j] = "live"
  BY <1>4 DEF Inv, JobsInv, Conserved
<1>6. ~(j > submitted)
  BY <1>4, <1>5 DEF Inv, JobsInv, Conserved
<1>7. j \in Nat /\ submitted \in Nat
  BY <1>4, JobsAssumption DEF Inv, JobsInv, HistoryOK
<1> QED BY <1>4, <1>6, <1>7

(* A requeue, a release or a sweep puts only tried jobs ahead              *)
(* (listRequeue, tickBody, releaseBody).                                   *)
LEMMA KeepsOrder ==
  ASSUME Inv, OrderInv, Keeps(redis, redis'), UNCHANGED <<fate, submitted, tried>>
  PROVE  OrderInv'
<1>1. redis.queue \in Seq(Jobs) /\ StoreOK(redis) /\ StoreOK(redis')
  BY DEF Inv, JobsInv, Keeps, Sound, StoreOK
<1>2. PICK n \in Nat : Ahead(redis, redis', n)
  BY DEF Keeps, Requeued
<1>3. Range(redis.nacked) \subseteq tried
  BY DEF OrderInv, PendTried, Range
<1>4. InOrder(redis.queue, tried)
  BY <1>1, OrderOfQueue DEF OrderInv
<1>5. InOrder(redis'.queue, tried)
  BY <1>1, <1>2, <1>3, <1>4, AheadInOrder
<1>6. NewJobsInOrder'
  <2>1. DOMAIN redis'.queue = 1..Len(redis'.queue)
    BY <1>1, QueueFacts DEF StoreOK
  <2> QED BY <1>5, <2>1 DEF NewJobsInOrder, InOrder
<1>7. PendTried'
  BY DEF Keeps, Requeued, OrderInv, PendTried
<1> QED BY <1>6, <1>7 DEF OrderInv, TakenTried, Past

(* A pop takes the head of the queue, which then counts as tried           *)
(* (dequeueOne, dequeueBatch).                                             *)
LEMMA RunPopOrder ==
  ASSUME Inv, OrderInv, NEW r \in Resv, RunPop(r)
  PROVE  OrderInv'
<1>1. Sound(redis) /\ r \in Reservations /\ now \in Nat
  BY InvSound, ResvFacts DEF Inv, ClientsOK
<1>2. /\ redis' = AckPop(redis, r, now)
      /\ tried' = tried \cup (Range(redis.queue) \ Range(redis'.queue))
      /\ UNCHANGED <<fate, submitted>>
  BY DEF RunPop
<1>3. Sound(redis') /\ \E n \in Nat : Popped(redis, redis', r, n)
  BY <1>1, <1>2, AckPopSound
<1>4. PICK n \in Nat : Popped(redis, redis', r, n)
  BY <1>3
<1>5. redis.queue \in Seq(Jobs) /\ redis'.queue \in Seq(Jobs) /\ StoreOK(redis)
  BY <1>1, <1>3 DEF Sound, StoreOK
<1>6. InOrder(redis.queue, tried)
  BY <1>5, OrderOfQueue DEF OrderInv
<1>7. Range(redis'.queue) = {redis'.queue[i] : i \in 1..Len(redis'.queue)}
  BY <1>5, QueueFacts
<1>8. InOrder(redis'.queue, tried')
  <2>1. tried \subseteq tried'
    BY <1>2
  <2>2. \A i \in 1..Len(redis'.queue) : redis'.queue[i] \in tried' => redis'.queue[i] \in tried
    BY <1>2, <1>7
  <2> DEFINE U == tried'
  <2>3. tried \subseteq U /\ \A i \in 1..Len(redis'.queue) : redis'.queue[i] \in U => redis'.queue[i] \in tried
    BY <2>1, <2>2
  <2> HIDE DEF U
  <2>4. InOrder(redis'.queue, U)
    BY <1>4, <1>5, <1>6, <2>3, PoppedInOrder
  <2> QED BY <2>4 DEF U
<1>9. NewJobsInOrder'
  <2>1. DOMAIN redis'.queue = 1..Len(redis'.queue)
    BY <1>5, QueueFacts
  <2> QED BY <1>8, <2>1 DEF NewJobsInOrder, InOrder
<1>10. PendTried'
  <2> SUFFICES ASSUME NEW id \in DOMAIN redis'.nacked PROVE redis'.nacked[id] \in tried'
    BY DEF PendTried
  <2>1. CASE id \in DOMAIN redis.nacked
    <3>1. redis'.nacked[id] = redis.nacked[id]
      BY <1>4, <2>1 DEF Popped
    <3> QED BY <1>2, <2>1, <3>1 DEF OrderInv, PendTried
  <2>2. CASE id \notin DOMAIN redis.nacked
    <3>1. PICK i \in 1..n : id = IdOf(r, i)
      BY <1>4, <2>2 DEF Popped
    <3>2. redis'.nacked[id] = redis.queue[i] /\ n <= Len(redis.queue)
      BY <1>4, <3>1 DEF Popped
    <3>3. Len(redis.queue) \in Nat
      BY <1>5, QueueFacts
    <3>4. redis.queue[i] \in Range(redis.queue)
      BY <1>5, <3>2, <3>3, QueueFacts
    <3>5. redis'.nacked[id] \in Range(redis'.nacked)
      BY DEF Range
    <3>6. redis.queue[i] \notin Range(redis'.queue)
      BY <1>3, <3>2, <3>5 DEF Sound, Exclusive
    <3> QED BY <1>2, <3>2, <3>4, <3>6
  <2> QED BY <2>1, <2>2
<1>11. Past'
  BY <1>2, HeldArePushed DEF OrderInv, Past, InRedis
<1>12. TakenTried'
  BY <1>2 DEF OrderInv, TakenTried
<1> QED BY <1>9, <1>10, <1>11, <1>12 DEF OrderInv

(* One job leaves the queue, with Dequeue or with Remove.                  *)
LEMMA LeavesOrder ==
  ASSUME Inv, OrderInv, Dequeue \/ \E i \in 1..Len(redis.queue) : RemoveItem(i)
  PROVE  OrderInv'
<1>1. Sound(redis)
  BY InvSound DEF Inv
<1>2. /\ redis.queue \in Seq(Jobs) /\ StoreOK(redis) /\ IsInjective(redis.queue)
      /\ \A id \in DOMAIN redis.nacked : redis.nacked[id] \in tried
  BY <1>1 DEF Sound, StoreOK, Exclusive, OrderInv, PendTried
<1>3. InOrder(redis.queue, tried)
  BY <1>2, OrderOfQueue DEF OrderInv
<1>4. /\ UNCHANGED submitted /\ fate \in [Jobs -> Fates] /\ Past
      /\ \A j \in Jobs : fate[j] = "taken" => j \in tried
  BY DEF Dequeue, RemoveItem, Inv, JobsInv, HistoryOK, OrderInv, TakenTried
<1>5. ASSUME NEW i \in 1..Len(redis.queue), Skips(redis.queue, redis'.queue, i),
             redis'.nacked = redis.nacked,
             tried' = tried \/ (tried' = tried \cup {redis.queue[i]}),
             \A j \in Jobs : fate'[j] = "taken" => fate[j] = "taken" \/ j \in tried'
      PROVE  OrderInv'
  <2> DEFINE job == redis.queue[i]
  <2>1. redis'.queue \in Seq(Jobs)
    BY <1>5 DEF Skips
  <2>2. tried \subseteq tried' /\ tried' \subseteq tried \cup {job}
    BY <1>5
  <2>3. InOrder(redis'.queue, tried')
    BY <1>2, <1>3, <1>5, <2>2, SkippedInOrder
  <2>4. NewJobsInOrder'
    <3>1. DOMAIN redis'.queue = 1..Len(redis'.queue)
      BY <2>1, QueueFacts
    <3> QED BY <2>3, <3>1 DEF NewJobsInOrder, InOrder
  <2>5. job \in InRedis(redis)
    BY <1>2, QueueFacts DEF InRedis
  <2>6. job <= submitted
    BY <2>5, HeldArePushed
  <2>7. Past'
    BY <1>4, <2>2, <2>6 DEF Past
  <2>8. PendTried'
    BY <1>2, <1>5, <2>2 DEF PendTried
  <2>9. TakenTried'
    BY <1>4, <1>5, <2>2 DEF TakenTried
  <2> QED BY <2>4, <2>7, <2>8, <2>9 DEF OrderInv
<1>6. CASE Dequeue
  <2> DEFINE job == Head(redis.queue)
  <2>1. /\ redis.queue # <<>> /\ redis' = RawPop(redis)
        /\ tried' = tried \cup {job} /\ fate' = [fate EXCEPT ![job] = "taken"]
    BY <1>6 DEF Dequeue
  <2>2. Skips(redis.queue, redis'.queue, 1) /\ job = redis.queue[1]
    BY <1>1, <2>1, RawPopSound
  <2>3. 1 \in 1..Len(redis.queue)
    BY <1>2, <2>1, EmptySeq
  <2>4. redis'.nacked = redis.nacked
    BY <1>2, <2>1 DEF RawPop, StoreOK, IsStore
  <2> HIDE DEF job
  <2>5. \A j \in Jobs : fate'[j] = "taken" => fate[j] = "taken" \/ j \in tried'
    BY <1>4, <2>1
  <2> QED BY <1>5, <2>1, <2>2, <2>3, <2>4, <2>5
<1>7. ASSUME NEW i \in 1..Len(redis.queue), RemoveItem(i) PROVE OrderInv'
  <2> DEFINE job == redis.queue[i]
  <2>1. redis' = ListRemove(redis, i) /\ tried' = tried /\ fate' = [fate EXCEPT ![job] = "gone"]
    BY <1>7 DEF RemoveItem
  <2>2. Skips(redis.queue, redis'.queue, i)
    BY <1>1, <2>1, ListRemoveSound
  <2>3. redis'.nacked = redis.nacked
    BY <1>2, <2>1 DEF ListRemove, StoreOK, IsStore
  <2> HIDE DEF job
  <2>4. \A j \in Jobs : fate'[j] = "taken" => fate[j] = "taken"
    BY <1>4, <2>1
  <2> QED BY <1>5, <2>1, <2>2, <2>3, <2>4
<1> QED BY <1>6, <1>7

(* A push goes behind the queue, and after every earlier push (Enqueue).   *)
LEMMA EnqueueOrder ==
  ASSUME Inv, OrderInv, Enqueue
  PROVE  OrderInv'
<1> DEFINE job == submitted + 1
           L == Len(redis.queue)
<1>1. /\ job \in Jobs /\ submitted' = job /\ redis' = Push(redis, job)
      /\ fate' = [fate EXCEPT ![job] = "live"] /\ UNCHANGED tried
  BY DEF Enqueue
<1>2. Sound(redis) /\ submitted \in Nat /\ fate \in [Jobs -> Fates]
  BY InvSound DEF Inv, JobsInv, HistoryOK
<1>3. redis.queue \in Seq(Jobs) /\ StoreOK(redis)
  BY <1>2 DEF Sound, StoreOK
<1>4. redis'.queue = Append(redis.queue, job) /\ redis'.nacked = redis.nacked
  BY <1>1, <1>3 DEF Push, StoreOK, IsStore
<1>5. /\ redis'.queue \in Seq(Jobs) /\ Len(redis'.queue) = L + 1 /\ L \in Nat
      /\ \A i \in 1..L : redis'.queue[i] = redis.queue[i]
      /\ redis'.queue[L + 1] = job
  <2>1. job \in Jobs /\ redis'.queue = Append(redis.queue, job)
    BY <1>1, <1>4
  <2> HIDE DEF job
  <2>2. L \in Nat
    BY <1>3, LenProperties
  <2>3. /\ Append(redis.queue, job) \in Seq(Jobs)
        /\ Len(Append(redis.queue, job)) = L + 1
        /\ \A i \in 1..L : Append(redis.queue, job)[i] = redis.queue[i]
        /\ Append(redis.queue, job)[L + 1] = job
    BY <1>3, <2>1, AppendProperties
  <2> QED BY <2>1, <2>2, <2>3
<1>6. \A j \in Jobs : fate'[j] = "taken" => fate[j] = "taken"
  BY <1>1, <1>2
<1>7. \A j \in tried : j \in Jobs /\ j \in Nat /\ j <= submitted
  BY JobsAssumption DEF Inv, JobsInv, HistoryOK, OrderInv, Past
<1>8. submitted < job /\ job \in Nat /\ submitted <= job
  BY <1>2
<1>9. job \notin tried /\ \A j \in tried : j <= job
  BY <1>2, <1>7
<1>10. \A i \in 1..L : redis.queue[i] \in Nat /\ redis.queue[i] < job
  <2> TAKE i \in 1..L
  <2>1. redis.queue[i] \in InRedis(redis)
    BY <1>3, QueueFacts DEF InRedis
  <2>2. redis.queue[i] \in Jobs /\ redis.queue[i] <= submitted
    BY <2>1, HeldArePushed
  <2>3. redis.queue[i] \in Nat
    BY <2>2, JobsAssumption
  <2> HIDE DEF job
  <2> QED BY <1>2, <1>8, <2>2, <2>3
<1>11. InOrder(redis.queue, tried)
  BY <1>3, OrderOfQueue DEF OrderInv
<1> HIDE DEF job, L
<1>12. ASSUME NEW i \in 1..L + 1, NEW k \in 1..L + 1, i < k, redis'.queue[i] \notin tried
       PROVE  redis'.queue[k] \notin tried /\ redis'.queue[i] < redis'.queue[k]
  <2>1. i \in 1..L
    BY <1>5, <1>12
  <2>2. CASE k = L + 1
    BY <1>5, <1>9, <1>10, <2>1, <2>2
  <2>3. CASE k # L + 1
    <3>1. k \in 1..L
      BY <1>5, <2>3
    <3> QED BY <1>5, <1>11, <1>12, <2>1, <3>1 DEF InOrder, L
  <2> QED BY <2>2, <2>3
<1>13. NewJobsInOrder'
  <2>1. DOMAIN redis'.queue = 1..L + 1
    BY <1>5, QueueFacts
  <2> QED BY <1>1, <1>12, <2>1 DEF NewJobsInOrder
<1>14. Past'
  BY <1>1, <1>9 DEF Past
<1>15. PendTried' /\ TakenTried'
  BY <1>1, <1>4, <1>6 DEF OrderInv, PendTried, TakenTried
<1> QED BY <1>13, <1>14, <1>15 DEF OrderInv

(* Acknowledge, Reject and PrepareForFutureAck touch only pending items,   *)
(* Purge empties the queue.                                                *)
LEMMA PendingOrder ==
  ASSUME Inv, OrderInv,
         \/ PurgeAll
         \/ \E a \in acks : RunFinish(a)
         \/ \E o \in Owners, job \in Jobs : Prepare(o, job)
  PROVE  OrderInv'
<1>1. /\ Sound(redis) /\ IsStore(redis) /\ fate \in [Jobs -> Fates]
      /\ \A id \in DOMAIN redis.nacked : redis.nacked[id] \in Jobs
  BY InvSound DEF Inv, JobsInv, HistoryOK, Sound, StoreOK, IsPartial
<1>2. CASE PurgeAll
  <2>1. redis' = Purge(redis) /\ UNCHANGED <<submitted, tried>>
    BY <1>2 DEF PurgeAll
  <2>2. redis'.queue = <<>> /\ redis'.nacked = EmptyMap
    BY <1>1, <2>1 DEF Purge, IsStore
  <2>3. DOMAIN redis'.queue = {} /\ DOMAIN redis'.nacked = {}
    BY <2>2, EmptyFacts
  <2>4. \A j \in Jobs : fate'[j] = "taken" => fate[j] = "taken"
    BY <1>1, <1>2 DEF PurgeAll
  <2> QED BY <2>1, <2>3, <2>4 DEF OrderInv, TakenTried, PendTried, Past, NewJobsInOrder
<1>3. ASSUME NEW a \in acks, RunFinish(a) PROVE OrderInv'
  <2>1. redis' = Finish(redis, a.id) /\ UNCHANGED <<submitted, tried>> /\ a.kind \in Kinds
    BY <1>3 DEF RunFinish, Inv, ClientsOK, Finishes
  <2>2. /\ redis'.queue = redis.queue /\ DOMAIN redis'.nacked \subseteq DOMAIN redis.nacked
        /\ \A id \in DOMAIN redis'.nacked : redis'.nacked[id] = redis.nacked[id]
    BY <1>1, <2>1 DEF Finish, Drop, IsStore
  <2>3. a.kind # "taken"
    BY <2>1 DEF Kinds
  <2>4. \A j \in Jobs : fate'[j] = "taken" => fate[j] = "taken"
    BY <1>1, <1>3, <2>3 DEF RunFinish
  <2> QED BY <2>1, <2>2, <2>4 DEF OrderInv, TakenTried, PendTried, Past, NewJobsInOrder
<1>4. ASSUME NEW o \in Owners, NEW job \in Jobs, Prepare(o, job) PROVE OrderInv'
  <2>1. /\ redis' = PrepareAck(redis, UserId(prepared + 1), job, VT[o], now)
        /\ fate[job] = "taken" /\ fate' = [fate EXCEPT ![job] = "live"]
        /\ UNCHANGED <<submitted, tried>>
    BY <1>4 DEF Prepare
  <2>2. redis'.queue = redis.queue
        /\ \A id \in DOMAIN redis'.nacked :
             \/ redis'.nacked[id] = job
             \/ id \in DOMAIN redis.nacked /\ redis'.nacked[id] = redis.nacked[id]
    BY <1>1, <2>1 DEF PrepareAck, Put, IsStore
  <2>3. \A j \in Jobs : fate'[j] = "taken" => fate[j] = "taken"
    BY <1>1, <2>1
  <2>4. job \in tried
    BY <2>1 DEF OrderInv, TakenTried
  <2> QED BY <2>1, <2>2, <2>3, <2>4 DEF OrderInv, TakenTried, PendTried, Past, NewJobsInOrder
<1> QED BY <1>2, <1>3, <1>4

(* No step puts new work out of order.                                     *)
LEMMA NextOrder ==
  ASSUME Inv, OrderInv, Next
  PROVE  OrderInv'
<1>1. CASE UNCHANGED <<redis, fate, submitted, tried>>
  BY <1>1 DEF OrderInv, TakenTried, PendTried, Past, NewJobsInOrder
<1>2. ASSUME NEW o \in Owners, Start(o) \/ Tick(o) \/ Release(o) \/ RequeueNackedItems(o)
      PROVE  OrderInv'
  <2>1. Keeps(redis, redis')
    BY <1>2, SweepJobs
  <2>2. UNCHANGED <<fate, submitted, tried>>
    BY <1>2 DEF Start, Tick, Release, RequeueNackedItems, history
  <2> QED BY <2>1, <2>2, KeepsOrder
<1>3. CASE Pause \/ Resume
  <2>1. Keeps(redis, redis')
    BY <1>3, PauseJobs
  <2>2. UNCHANGED <<fate, submitted, tried>>
    BY <1>3 DEF Pause, Resume, history
  <2> QED BY <2>1, <2>2, KeepsOrder
<1>4. ASSUME NEW o \in Owners, NEW want \in 1..MaxWant,
             \/ Close(o) \/ Crash(o) \/ Disconnect(o) \/ Reconnect(o)
             \/ ReserveKept(o) \/ SetAside(o) \/ ReserveFresh(o, want)
      PROVE  OrderInv'
  BY <1>1, <1>4 DEF Close, Crash, Disconnect, Reconnect, ReserveKept, SetAside,
                    ReserveFresh, history
<1>5. ASSUME NEW r \in Resv, NEW want \in 1..MaxWant,
             LoseCopy(r) \/ FailPop(r) \/ PutBack(r, want)
      PROVE  OrderInv'
  BY <1>1, <1>5 DEF LoseCopy, FailPop, PutBack, history
<1>6. ASSUME NEW m \in held, NEW kind \in Kinds, BeginFinish(m, kind) PROVE OrderInv'
  BY <1>1, <1>6 DEF BeginFinish
<1>7. CASE Advance
  BY <1>1, <1>7 DEF Advance, history
<1>8. 1 \in 1..MaxWant
  BY BoundsAssumption
<1>9. CASE \E o \in Owners :
        \/ Start(o) \/ Tick(o) \/ Close(o) \/ Release(o) \/ Crash(o)
        \/ Disconnect(o) \/ Reconnect(o)
        \/ ReserveKept(o) \/ SetAside(o) \/ RequeueNackedItems(o)
        \/ \E want \in 1..MaxWant : ReserveFresh(o, want)
        \/ \E job \in Jobs : Prepare(o, job)
  BY <1>2, <1>4, <1>8, <1>9, PendingOrder
<1>10. CASE \E r \in Resv :
         \/ RunPop(r) \/ LoseCopy(r) \/ FailPop(r)
         \/ \E want \in 1..MaxWant : PutBack(r, want)
  BY <1>5, <1>8, <1>10, RunPopOrder
<1> QED BY <1>3, <1>6, <1>7, <1>9, <1>10, LeavesOrder, EnqueueOrder, PendingOrder DEF Next

(* Jobs that were never taken stay in push order, behind every job that    *)
(* came back, for any number of pops, requeues, sweeps and late copies     *)
(* (listRequeue's "ahead of newer work").                                  *)
THEOREM NewJobsKeepOrder == Spec => []NewJobsInOrder
<1>1. Init => OrderInv
  <2> SUFFICES ASSUME Init PROVE OrderInv
    OBVIOUS
  <2>1. DOMAIN redis.queue = {} /\ DOMAIN redis.nacked = {}
    BY EmptyFacts DEF Init, EmptyStore
  <2> QED BY <2>1 DEF Init, OrderInv, TakenTried, PendTried, Past, NewJobsInOrder
<1>2. AllInv /\ OrderInv /\ [Next]_vars => OrderInv'
  <2>1. OrderInv /\ UNCHANGED vars => OrderInv'
    BY DEF vars, clients, history, OrderInv, TakenTried, PendTried, Past, NewJobsInOrder
  <2> QED BY <2>1, NextOrder DEF AllInv
<1>3. OrderInv => NewJobsInOrder
  BY DEF OrderInv
<1> QED BY <1>1, <1>2, <1>3, Invariance, PTL DEF Spec
-----------------------------------------------------------------------------
(* Who acknowledges which job.  An ack ID is handed to one consumer, and   *)
(* for as long as it is with the consumer or in a finish call it holds the *)
(* job it was handed with or it holds none and no copy of a pop is left    *)
(* that could put another job under it.                                    *)

Handed == held \cup acks

OneEach == \A x, y \in Handed : x.id = y.id => x = y
Sealed ==
  \A x \in Handed :
    /\ x.id \in DOMAIN redis.nacked => redis.nacked[x.id] = x.job
    /\ x.id \notin DOMAIN redis.nacked => \A r \in Resv : x.id \in Ids(r) => net[r] = 0
Free == \A r \in InUse, x \in Handed : x.id \notin Ids(r)
IdsGiven ==
  \A x \in Handed :
    /\ x.id.owner \in Owners => x.id.start <= ackSeq[x.id.owner]
    /\ x.id.owner \notin Owners => x.id.index <= prepared
Told == \A a \in acks : a.job \in acked

AckInv == OneEach /\ Sealed /\ Free /\ IdsGiven /\ Told /\ FinishedWasAcked

(* What is with a consumer is not in a finish call.                        *)
LEMMA HandedFacts ==
  ASSUME ClientsOK
  PROVE  /\ held \cap acks = {}
         /\ \A x \in Handed : x.id \in AckIds /\ x.id.start \in Nat /\ x.job \in Jobs
<1>1. \A x \in Handles : DOMAIN x = {"id", "job"}
  BY DEF Handles
<1>2. \A x \in Finishes : DOMAIN x = {"id", "job", "kind", "left"}
  BY DEF Finishes
<1>3. Handles \cap Finishes = {}
  BY <1>1, <1>2
<1>4. \A x \in Handles \cup Finishes : x.id \in AckIds /\ x.job \in Jobs
  BY DEF Handles, Finishes
<1>5. \A id \in AckIds : id.start \in Nat
  BY DEF AckIds
<1> QED BY <1>3, <1>4, <1>5 DEF ClientsOK, Handed

(* A step that touches no pending item and hands nothing out.              *)
LEMMA QuietAcks ==
  ASSUME ClientsOK, ClientsOK', AckInv, redis'.nacked = redis.nacked,
         held' \subseteq held, acks' = acks, InUse' \subseteq InUse,
         \A r \in Resv : net'[r] <= net[r],
         UNCHANGED <<ackSeq, prepared, acked>>,
         \A j \in Jobs : fate'[j] \in Kinds => fate[j] \in Kinds
  PROVE  AckInv'
<1>1. Handed' \subseteq Handed
  BY DEF Handed
<1>2. \A r \in Resv : net[r] = 0 => net'[r] = 0
  BY BoundsAssumption DEF ClientsOK
<1>3. OneEach' /\ Free' /\ IdsGiven' /\ Told'
  BY <1>1 DEF AckInv, OneEach, Free, IdsGiven, Told
<1>4. Sealed'
  BY <1>1, <1>2 DEF AckInv, Sealed
<1>5. FinishedWasAcked'
  BY DEF AckInv, FinishedWasAcked
<1> QED BY <1>3, <1>4, <1>5 DEF AckInv

(* Under Prompt an item that is moved back leaves no copy of its pop.      *)
LEMMA KeepsAcks ==
  ASSUME ClientsOK, AckInv, Prompt, PromptMoves, Keeps(redis, redis'),
         UNCHANGED <<held, acks, calls, aside, retryPop, net, ackSeq, prepared, acked, fate>>
  PROVE  AckInv'
<1>1. /\ DOMAIN redis'.nacked \subseteq DOMAIN redis.nacked
      /\ \A id \in DOMAIN redis'.nacked : redis'.nacked[id] = redis.nacked[id]
  BY DEF Keeps, Requeued
<1>2. \A r \in Resv : net[r] \in Nat
  BY BoundsAssumption DEF ClientsOK
<1>3. Sealed'
  <2> SUFFICES ASSUME NEW x \in Handed'
               PROVE  /\ x.id \in DOMAIN redis'.nacked => redis'.nacked[x.id] = x.job
                      /\ x.id \notin DOMAIN redis'.nacked =>
                           \A r \in Resv : x.id \in Ids(r) => net'[r] = 0
    BY DEF Sealed
  <2>1. x \in Handed
    BY DEF Handed
  <2>2. x.id \in DOMAIN redis'.nacked => redis'.nacked[x.id] = x.job
    BY <1>1, <2>1 DEF AckInv, Sealed
  <2>3. ASSUME x.id \notin DOMAIN redis'.nacked, NEW r \in Resv, x.id \in Ids(r)
        PROVE  net'[r] = 0
    <3>1. CASE x.id \in DOMAIN redis.nacked
      <4>1. ~(net[r] > 0)
        BY <2>3, <3>1 DEF PromptMoves
      <4> QED BY <1>2, <4>1
    <3>2. CASE x.id \notin DOMAIN redis.nacked
      BY <2>1, <2>3, <3>2 DEF AckInv, Sealed
    <3> QED BY <3>1, <3>2
  <2> QED BY <2>2, <2>3
<1>4. OneEach' /\ Free' /\ IdsGiven' /\ Told' /\ FinishedWasAcked'
  BY DEF AckInv, OneEach, Free, IdsGiven, Told, FinishedWasAcked, Handed, InUse
<1> QED BY <1>3, <1>4 DEF AckInv

(* A pop goes out under IDs that no consumer has.                          *)
LEMMA SendAcks ==
  ASSUME ClientsOK, ClientsOK', AckInv, NEW q \in Resv, Send(q),
         \A x \in Handed : x.id \notin Ids(q), InUse' \subseteq InUse \cup {q},
         \A o \in Owners : ackSeq[o] <= ackSeq'[o],
         UNCHANGED <<redis, held, acks, prepared, acked, fate>>
  PROVE  AckInv'
<1>1. Handed' = Handed
  BY DEF Handed
<1>2. \A r \in Resv : r # q => net'[r] = net[r]
  BY DEF Send, ClientsOK
<1>3. Sealed'
  BY <1>1, <1>2 DEF AckInv, Sealed
<1>4. Free'
  BY <1>1 DEF AckInv, Free
<1>5. IdsGiven'
  <2>1. \A o \in Owners : ackSeq[o] \in Nat /\ ackSeq'[o] \in Nat
    BY BoundsAssumption DEF ClientsOK
  <2> QED BY <1>1, <2>1, HandedFacts DEF AckInv, IdsGiven
<1>6. OneEach' /\ Told' /\ FinishedWasAcked'
  BY <1>1 DEF AckInv, OneEach, Told, FinishedWasAcked
<1> QED BY <1>3, <1>4, <1>5, <1>6 DEF AckInv

(* So do all three ways to start a pop (reserve).                          *)
LEMMA ReserveAcks ==
  ASSUME HandInv, ClientsOK, ClientsOK', AckInv,
         NEW o \in Owners, NEW r \in Resv, NEW want \in 1..MaxWant,
         ReserveFresh(o, want) \/ ReserveKept(o) \/ PutBack(r, want)
  PROVE  AckInv'
<1>1. ASSUME NEW p \in Owners, NEW q \in Resv, q.owner = p, q.start = ackSeq[p] + 1
      PROVE  \A x \in Handed : x.id \notin Ids(q)
  <2> SUFFICES ASSUME NEW x \in Handed, x.id \in Ids(q) PROVE FALSE
    OBVIOUS
  <2>1. x.id.owner = q.owner /\ x.id.start = q.start
    BY IdsFacts
  <2>2. x.id.start <= ackSeq[p]
    BY <1>1, <2>1 DEF AckInv, IdsGiven
  <2>3. ackSeq[p] \in Nat
    BY BoundsAssumption DEF ClientsOK
  <2> QED BY <1>1, <2>1, <2>2, <2>3
<1>2. CASE ReserveFresh(o, want)
  <2> DEFINE q == [owner |-> o, start |-> ackSeq[o] + 1, want |-> want]
  <2>1. q \in Resv /\ q.owner = o /\ q.start = ackSeq[o] + 1 /\ Send(q)
    BY <1>2, NewResv DEF ReserveFresh
  <2> HIDE DEF q
  <2>2. InUse' \subseteq InUse \cup {q}
    BY <1>2, <2>1 DEF ReserveFresh, Send, InUse
  <2>3. \A p \in Owners : ackSeq[p] <= ackSeq'[p]
    BY <1>2, BoundsAssumption DEF ReserveFresh, ClientsOK
  <2>4. UNCHANGED <<redis, held, acks, prepared, acked, fate>>
    BY <1>2 DEF ReserveFresh, history
  <2> QED BY <1>1, <2>1, <2>2, <2>3, <2>4, SendAcks
<1>3. CASE ReserveKept(o)
  <2> DEFINE q == retryPop[o]
  <2>1. q \in Resv /\ Send(q) /\ q \in InUse
    BY <1>3 DEF ReserveKept, ClientsOK, InUse
  <2>2. \A p \in Owners : retryPop'[p] \in {retryPop[p], NoResv}
    BY <1>3 DEF ReserveKept, ClientsOK
  <2> HIDE DEF q
  <2>3. InUse' \subseteq InUse \cup {q}
    BY <1>3, <2>1, <2>2 DEF ReserveKept, Send, InUse
  <2>4. \A x \in Handed : x.id \notin Ids(q)
    BY <2>1 DEF AckInv, Free
  <2>5. \A p \in Owners : ackSeq[p] <= ackSeq'[p]
    BY <1>3, BoundsAssumption DEF ReserveKept, ClientsOK
  <2>6. UNCHANGED <<redis, held, acks, prepared, acked, fate>>
    BY <1>3 DEF ReserveKept, history
  <2> QED BY <2>1, <2>3, <2>4, <2>5, <2>6, SendAcks
<1>4. CASE PutBack(r, want)
  <2> DEFINE p == r.owner
             q == [owner |-> p, start |-> ackSeq[p] + 1, want |-> want]
  <2>1. p \in Owners
    BY DEF Resv
  <2>2. q \in Resv /\ q.owner = p /\ q.start = ackSeq[p] + 1 /\ Send(q)
    BY <1>4, <2>1, NewResv DEF PutBack
  <2> HIDE DEF p, q
  <2>3. \A n \in Owners : retryPop'[n] = retryPop[n] \/ retryPop'[n] = r
    BY <1>4, KeepForRetryFacts DEF PutBack
  <2>4. r \in InUse
    BY <1>4 DEF PutBack, InUse
  <2>5. InUse' \subseteq InUse \cup {q}
    BY <1>4, <2>2, <2>3, <2>4 DEF PutBack, Send, InUse
  <2>6. \A n \in Owners : ackSeq[n] <= ackSeq'[n]
    BY <1>4, <2>1, BoundsAssumption DEF PutBack, ClientsOK, p
  <2>7. UNCHANGED <<redis, held, acks, prepared, acked, fate>>
    BY <1>4 DEF PutBack, history
  <2> QED BY <1>1, <2>1, <2>2, <2>5, <2>6, <2>7, SendAcks
<1> QED BY <1>2, <1>3, <1>4

(* A copy of a pop puts a job under no ID that a consumer already has, and *)
(* its reply hands out IDs that no consumer has.                           *)
LEMMA RunPopAcks ==
  ASSUME Inv, HandInv, AckInv, NEW r \in Resv, RunPop(r)
  PROVE  AckInv'
<1>1. /\ Sound(redis) /\ r \in Reservations /\ now \in Nat /\ ClientsOK
      /\ net \in [Resv -> 0..MaxCopies] /\ net[r] > 0
  BY InvSound, ResvFacts DEF Inv, ClientsOK, RunPop
<1>2. /\ redis' = AckPop(redis, r, now) /\ net' = [net EXCEPT ![r] = @ - 1]
      /\ UNCHANGED <<retryPop, aside, acks, ackSeq, prepared, acked, fate>>
  BY DEF RunPop
<1>3. Sound(redis') /\ \E n \in Nat : Popped(redis, redis', r, n)
  BY <1>1, <1>2, AckPopSound
<1>4. PICK n \in Nat : Popped(redis, redis', r, n)
  BY <1>3
<1>5. /\ DOMAIN redis.nacked \subseteq DOMAIN redis'.nacked
      /\ \A id \in DOMAIN redis.nacked : redis'.nacked[id] = redis.nacked[id]
  BY <1>4 DEF Popped
<1>6. \A id \in DOMAIN redis'.nacked : id \in DOMAIN redis.nacked \/ id \in Ids(r)
  <2>1. n <= r.want /\ r.want \in Nat
    BY <1>1, <1>4 DEF Popped, Reservations
  <2>2. \A i \in 1..n : i \in 1..r.want
    BY <2>1
  <2>3. {IdOf(r, i) : i \in 1..n} \subseteq Ids(r)
    BY <2>2 DEF Ids
  <2> QED BY <1>4, <2>3 DEF Popped
<1>7. \A q \in Resv : net[q] = 0 => net'[q] = 0
  BY <1>1, <1>2
<1>8. ASSUME NEW x \in Handed
      PROVE  /\ x.id \in DOMAIN redis'.nacked => redis'.nacked[x.id] = x.job
             /\ x.id \notin DOMAIN redis'.nacked =>
                  \A q \in Resv : x.id \in Ids(q) => net'[q] = 0
  <2>1. CASE x.id \in DOMAIN redis.nacked
    BY <1>5, <2>1 DEF AckInv, Sealed
  <2>2. CASE x.id \notin DOMAIN redis.nacked
    <3>1. \A q \in Resv : x.id \in Ids(q) => net[q] = 0
      BY <2>2 DEF AckInv, Sealed
    <3>2. x.id \notin Ids(r)
      BY <1>1, <3>1
    <3> QED BY <1>6, <1>7, <2>2, <3>1, <3>2
  <2> QED BY <2>1, <2>2
<1>9. FinishedWasAcked' /\ Told'
  BY <1>2 DEF AckInv, FinishedWasAcked, Told
<1>10. CASE UNCHANGED <<calls, held>>
  <2>1. Handed' = Handed /\ InUse' = InUse
    BY <1>2, <1>10 DEF Handed, InUse
  <2>2. OneEach' /\ Free' /\ IdsGiven'
    BY <1>2, <2>1 DEF AckInv, OneEach, Free, IdsGiven
  <2>3. Sealed'
    BY <1>8, <2>1 DEF Sealed
  <2> QED BY <1>9, <2>2, <2>3 DEF AckInv
<1>11. CASE r \in calls /\ calls' = calls \ {r} /\ held' = held \cup Reply(redis', r)
  <2> DEFINE new == Reply(redis', r)
  <2>1. \A x \in new : /\ x.id \in Ids(r) /\ x.id.owner = r.owner /\ x.id.start = r.start
                       /\ x.id \in DOMAIN redis'.nacked /\ x.job = redis'.nacked[x.id]
                       /\ x = [id |-> x.id, job |-> x.job]
    <3> SUFFICES ASSUME NEW i \in Leading(redis', r)
                 PROVE  IdOf(r, i) \in Ids(r) /\ IdOf(r, i) \in DOMAIN redis'.nacked
      BY IdsFacts DEF Reply
    <3>1. i \in 1..r.want /\ i \in 1..i
      BY <1>1 DEF Leading, Reservations
    <3> QED BY <3>1 DEF Leading, Ids
  <2>2. r \in InUse /\ InUse' = InUse \ {r} /\ r.owner \in Owners
    BY <1>2, <1>11 DEF InUse, HandInv, HandedOutOnce, Resv
  <2>3. Handed' = Handed \cup new
    BY <1>2, <1>11 DEF Handed
  <2> HIDE DEF new
  <2>4. \A x \in Handed, y \in new : x.id # y.id
    BY <2>1, <2>2 DEF AckInv, Free
  <2>5. \A x, y \in new : x.id = y.id => x = y
    BY <2>1
  <2>6. OneEach'
    BY <2>3, <2>4, <2>5 DEF AckInv, OneEach
  <2>7. Sealed'
    BY <1>8, <2>1, <2>3 DEF Sealed
  <2>8. Free'
    <3>1. ASSUME NEW q \in InUse', NEW x \in new, x.id \in Ids(q) PROVE FALSE
      <4>1. q.owner = r.owner /\ q.start = r.start
        BY <2>1, <3>1, IdsFacts
      <4> QED BY <2>2, <4>1 DEF HandInv, HandedOutOnce
    <3> QED BY <2>2, <2>3, <3>1 DEF AckInv, Free
  <2>9. IdsGiven'
    BY <1>2, <2>1, <2>2, <2>3 DEF AckInv, IdsGiven, HandInv, Numbered
  <2> QED BY <1>9, <2>6, <2>7, <2>8, <2>9 DEF AckInv
<1> QED BY <1>10, <1>11 DEF RunPop
(* The call a consumer's finish starts takes the place of what it held.    *)
LEMMA BeginFinishAcks ==
  ASSUME ClientsOK, AckInv, NEW m \in held, NEW kind \in Kinds, BeginFinish(m, kind)
  PROVE  AckInv'
<1> DEFINE a == [id |-> m.id, job |-> m.job, kind |-> kind, left |-> MaxAckCopies]
<1>1. /\ held' = held \ {m} /\ acks' = acks \cup {a} /\ acked' = acked \cup {m.job}
      /\ UNCHANGED <<redis, ackSeq, retryPop, aside, calls, net, prepared, fate>>
  BY DEF BeginFinish
<1>2. a.id = m.id /\ a.job = m.job
  OBVIOUS
<1> HIDE DEF a
<1>3. m \in Handed /\ m \notin acks
  BY HandedFacts DEF Handed
<1>4. Handed' = (Handed \ {m}) \cup {a}
  BY <1>1, <1>3 DEF Handed
<1>5. \A x \in Handed \ {m} : x.id # m.id
  BY <1>3 DEF AckInv, OneEach
<1>6. OneEach'
  BY <1>2, <1>4, <1>5 DEF AckInv, OneEach
<1>7. Sealed'
  BY <1>1, <1>2, <1>3, <1>4 DEF AckInv, Sealed
<1>8. Free'
  BY <1>1, <1>2, <1>3, <1>4 DEF AckInv, Free, InUse
<1>9. IdsGiven'
  BY <1>1, <1>2, <1>3, <1>4 DEF AckInv, IdsGiven
<1>10. Told' /\ FinishedWasAcked'
  BY <1>1, <1>2 DEF AckInv, Told, FinishedWasAcked
<1> QED BY <1>6, <1>7, <1>8, <1>9, <1>10 DEF AckInv

(* A finish runs once, and what it finishes is the job its caller was      *)
(* handed (finishScript).                                                  *)
LEMMA RunFinishAcks ==
  ASSUME Inv, AckInv, MaxAckCopies = 1, NEW a \in acks, RunFinish(a)
  PROVE  AckInv'
<1>1. /\ ClientsOK /\ StoreOK(redis) /\ fate \in [Jobs -> Fates]
      /\ a \in Finishes
  BY DEF Inv, JobsInv, HistoryOK, ClientsOK
<1>2. /\ acks' = OneLess(a) /\ redis' = Finish(redis, a.id)
      /\ fate' = IF a.id \in DOMAIN redis.nacked
                 THEN [fate EXCEPT ![redis.nacked[a.id]] = a.kind] ELSE fate
      /\ UNCHANGED <<held, ackSeq, retryPop, aside, calls, net, prepared, acked>>
  BY DEF RunFinish
<1>3. acks' = acks \ {a}
  <2>1. a.left \in 1..MaxAckCopies
    BY <1>1 DEF Finishes
  <2>2. ~(a.left > 1)
    BY <2>1
  <2> QED BY <1>2, <2>2 DEF OneLess
<1>4. a \in Handed /\ a.job \in acked
  BY DEF Handed, AckInv, Told
<1>5. Handed' = Handed \ {a}
  BY <1>1, <1>2, <1>3, HandedFacts DEF Handed
<1>6. /\ DOMAIN redis'.nacked = DOMAIN redis.nacked \ {a.id}
      /\ \A id \in DOMAIN redis'.nacked : redis'.nacked[id] = redis.nacked[id]
  BY <1>1, <1>2 DEF Finish, Drop, StoreOK, IsStore
<1>7. \A x \in Handed' : x.id # a.id
  BY <1>4, <1>5 DEF AckInv, OneEach
<1>8. Sealed'
  BY <1>2, <1>5, <1>6, <1>7 DEF AckInv, Sealed
<1>9. OneEach' /\ Free' /\ IdsGiven' /\ Told'
  BY <1>2, <1>3, <1>5 DEF AckInv, OneEach, Free, IdsGiven, Told, InUse
<1>10. FinishedWasAcked'
  <2>1. CASE a.id \notin DOMAIN redis.nacked
    BY <1>2, <2>1 DEF AckInv, FinishedWasAcked
  <2>2. CASE a.id \in DOMAIN redis.nacked
    <3>1. fate' = [fate EXCEPT ![a.job] = a.kind]
      BY <1>2, <1>4, <2>2 DEF AckInv, Sealed
    <3> QED BY <1>1, <1>2, <1>4, <3>1 DEF AckInv, FinishedWasAcked
  <2> QED BY <2>1, <2>2
<1> QED BY <1>8, <1>9, <1>10 DEF AckInv

(* A caller's own ack ID is new, and no pop's (PrepareForFutureAck).       *)
LEMMA PrepareAcks ==
  ASSUME Inv, AckInv, NEW o \in Owners, NEW job \in Jobs, Prepare(o, job)
  PROVE  AckInv'
<1> DEFINE id == UserId(prepared + 1)
           m == [id |-> id, job |-> job]
<1>1. /\ prepared' = prepared + 1 /\ redis' = PrepareAck(redis, id, job, VT[o], now)
      /\ held' = held \cup {m} /\ fate' = [fate EXCEPT ![job] = "live"]
      /\ UNCHANGED <<ackSeq, retryPop, aside, calls, net, acks, acked>>
  BY DEF Prepare
<1>2. /\ ClientsOK /\ StoreOK(redis) /\ prepared \in Nat /\ fate \in [Jobs -> Fates]
  BY DEF Inv, JobsInv, HistoryOK
<1>3. id.owner \notin Owners /\ id.index = prepared + 1 /\ m.id = id /\ m.job = job
  BY OwnersAssumption DEF UserId
<1> HIDE DEF id, m
<1>4. Handed' = Handed \cup {m}
  BY <1>1 DEF Handed
<1>5. \A x \in Handed : x.id \in AckIds
  BY <1>2, HandedFacts
<1>6. \A x \in Handed : x.id # id /\ (x.id.owner \notin Owners => x.id.index <= prepared')
  <2> TAKE x \in Handed
  <2>1. x.id.index \in Nat
    BY <1>5 DEF AckIds
  <2>2. x.id.owner \notin Owners => x.id.index <= prepared
    BY DEF AckInv, IdsGiven
  <2>3. x.id.owner \notin Owners => x.id.index # prepared + 1 /\ x.id.index <= prepared + 1
    BY <1>2, <2>1, <2>2
  <2> QED BY <1>1, <1>3, <2>3
<1>7. /\ DOMAIN redis'.nacked = DOMAIN redis.nacked \cup {id} /\ redis'.nacked[id] = job
      /\ \A x \in DOMAIN redis.nacked : x # id => redis'.nacked[x] = redis.nacked[x]
  BY <1>1, <1>2 DEF PrepareAck, Put, StoreOK, IsStore
<1>8. Sealed'
  <2>1. \A x \in Handed :
          /\ x.id \in DOMAIN redis'.nacked => redis'.nacked[x.id] = x.job
          /\ x.id \notin DOMAIN redis'.nacked => \A r \in Resv : x.id \in Ids(r) => net[r] = 0
    BY <1>6, <1>7 DEF AckInv, Sealed
  <2> QED BY <1>1, <1>3, <1>4, <1>7, <2>1 DEF Sealed
<1>9. OneEach'
  BY <1>3, <1>4, <1>6 DEF AckInv, OneEach
<1>10. Free'
  <2>1. InUse' = InUse /\ InUse \subseteq Resv
    BY <1>1, <1>2, InUseType DEF InUse
  <2>2. \A r \in InUse : m.id \notin Ids(r)
    <3> SUFFICES ASSUME NEW r \in InUse, m.id \in Ids(r) PROVE FALSE
      OBVIOUS
    <3>1. id.owner = r.owner /\ r.owner \in Owners
      BY <1>3, <2>1, IdsFacts DEF Resv
    <3> QED BY <1>3, <3>1
  <2> QED BY <1>4, <2>1, <2>2 DEF AckInv, Free
<1>11. IdsGiven'
  <2>1. prepared + 1 <= prepared'
    BY <1>1, <1>2
  <2> QED BY <1>1, <1>3, <1>4, <1>6, <2>1 DEF AckInv, IdsGiven
<1>12. Told' /\ FinishedWasAcked'
  <2>1. "live" \notin Kinds
    BY DEF Kinds
  <2> QED BY <1>1, <1>2, <2>1 DEF AckInv, Told, FinishedWasAcked
<1> QED BY <1>8, <1>9, <1>10, <1>11, <1>12 DEF AckInv

(* The calls that neither hand out nor finish a job.                       *)
LEMMA CallAcks ==
  ASSUME Inv, ClientsOK', AckInv,
         \/ \E i \in 1..Len(redis.queue) : RemoveItem(i)
         \/ Enqueue \/ Dequeue \/ Pause \/ Resume \/ Advance
  PROVE  AckInv'
<1>1. ClientsOK /\ IsStore(redis) /\ fate \in [Jobs -> Fates]
  BY DEF Inv, JobsInv, HistoryOK, StoreOK
<1>2. UNCHANGED <<clients, prepared, acked>>
  BY DEF RemoveItem, Enqueue, Dequeue, Pause, Resume, Advance, history
<1>3. redis'.nacked = redis.nacked
  BY <1>1 DEF RemoveItem, Enqueue, Dequeue, Pause, Resume, Advance,
              ListRemove, Push, RawPop, PauseKey, ResumeKey, IsStore
<1>4. "live" \notin Kinds /\ "taken" \notin Kinds /\ "gone" \notin Kinds
  BY DEF Kinds
<1>5. \A j \in Jobs : fate'[j] \in Kinds => fate[j] \in Kinds
  BY <1>1, <1>4 DEF RemoveItem, Enqueue, Dequeue, Pause, Resume, Advance, history
<1>6. \A r \in Resv : net'[r] <= net[r]
  BY <1>1, <1>2, BoundsAssumption DEF clients, ClientsOK
<1>7. /\ held' \subseteq held /\ acks' = acks /\ InUse' \subseteq InUse
      /\ UNCHANGED <<ackSeq, prepared, acked>>
  BY <1>2 DEF clients, InUse
<1> QED BY <1>1, <1>3, <1>5, <1>6, <1>7, QuietAcks

(* So do an object's life and the pops that fail or are lost.              *)
LEMMA LifeAcks ==
  ASSUME Inv, ClientsOK', AckInv, NEW o \in Owners, NEW r \in Resv,
         \/ Close(o) \/ Crash(o) \/ Disconnect(o) \/ Reconnect(o) \/ SetAside(o)
         \/ LoseCopy(r) \/ FailPop(r)
  PROVE  AckInv'
<1>1. ClientsOK
  BY DEF Inv
<1>2. redis' = redis /\ acks' = acks /\ UNCHANGED <<ackSeq, prepared, acked, fate>>
  BY DEF Close, Crash, Disconnect, Reconnect, SetAside, LoseCopy, FailPop, history
<1>3. held' \subseteq held
  BY DEF Close, Crash, Disconnect, Reconnect, SetAside, LoseCopy, FailPop
<1>4. \A q \in Resv : net'[q] <= net[q]
  <2>1. \A q \in Resv : net[q] \in Nat
    BY <1>1, BoundsAssumption DEF ClientsOK
  <2>2. \A q \in Resv : net'[q] = net[q] \/ net'[q] = net[q] - 1
    BY <1>1 DEF Close, Crash, Disconnect, Reconnect, SetAside, LoseCopy, FailPop, ClientsOK
  <2> QED BY <2>1, <2>2
<1>5. InUse' \subseteq InUse
  <2>1. CASE Close(o) \/ Disconnect(o) \/ Reconnect(o) \/ LoseCopy(r)
    BY <2>1 DEF Close, Disconnect, Reconnect, LoseCopy, InUse
  <2>2. CASE Crash(o)
    <3>1. \A p \in Owners : retryPop'[p] \in {retryPop[p], NoResv}
      BY <1>1, <2>2 DEF Crash, ClientsOK
    <3> QED BY <2>2, <3>1 DEF Crash, InUse
  <2>3. CASE SetAside(o)
    <3>1. \A p \in Owners : retryPop'[p] \in {retryPop[p], NoResv}
      BY <1>1, <2>3 DEF SetAside, ClientsOK
    <3>2. retryPop[o] \in InUse
      BY <2>3 DEF SetAside, InUse
    <3> QED BY <2>3, <3>1, <3>2 DEF SetAside, InUse
  <2>4. CASE FailPop(r)
    <3>1. \A p \in Owners : retryPop'[p] = retryPop[p] \/ retryPop'[p] = r
      BY <1>1, <2>4, KeepForRetryFacts DEF FailPop
    <3>2. r \in InUse
      BY <2>4 DEF FailPop, InUse
    <3> QED BY <2>4, <3>1, <3>2 DEF FailPop, InUse
  <2> QED BY <2>1, <2>2, <2>3, <2>4
<1> QED BY <1>1, <1>2, <1>3, <1>4, <1>5, QuietAcks

(* So do sweeps, releases and requeues under Prompt.                       *)
LEMMA SweepAcks ==
  ASSUME Inv, ClientsOK', AckInv, Prompt, NEW o \in Owners,
         Start(o) \/ Tick(o) \/ Release(o) \/ RequeueNackedItems(o)
  PROVE  AckInv'
<1>1. ClientsOK /\ Keeps(redis, redis')
  BY SweepJobs DEF Inv
<1>2. UNCHANGED <<held, acks, calls, aside, retryPop, net, ackSeq, prepared, acked, fate>>
  BY DEF Start, Tick, Release, RequeueNackedItems, clients, history
<1>3. PromptMoves
  BY DEF Start, Tick, Release, RequeueNackedItems, PromptMoves
<1> QED BY <1>1, <1>2, <1>3, KeepsAcks

(* The deployments in which an ack ID finishes only the job it was handed  *)
(* with: no copy of a pop outlives its items' stay in pending, finishes    *)
(* are not re-sent and nobody purges the queue.                            *)
AcksHold == Prompt /\ MaxAckCopies = 1 /\ "purge" \notin Uses

(* No step finishes a job its consumer did not acknowledge.                *)
LEMMA NextAcks ==
  ASSUME AcksHold, AllInv, AllInv', AckInv, Next
  PROVE  AckInv'
<1>1. Inv /\ HandInv /\ ClientsOK /\ ClientsOK'
  BY DEF AllInv, Inv
<1>2. Prompt /\ MaxAckCopies = 1 /\ ~PurgeAll
  BY DEF AcksHold, PurgeAll
<1>3. 1 \in 1..MaxWant
  BY BoundsAssumption
<1>4. ASSUME NEW o \in Owners,
             \/ Close(o) \/ Crash(o) \/ Disconnect(o) \/ Reconnect(o) \/ SetAside(o)
      PROVE  AckInv'
  <2>1. CASE Resv # {}
    BY <1>1, <1>4, <2>1, LifeAcks
  <2>2. CASE Resv = {}
    <3>1. InUse' = {} /\ \A q \in Resv : net'[q] <= net[q]
      BY <1>1, <2>2, InUseType DEF InUse, ClientsOK
    <3>2. /\ redis' = redis /\ acks' = acks /\ UNCHANGED <<ackSeq, prepared, acked, fate>>
          /\ held' \subseteq held
      BY <1>4 DEF Close, Crash, Disconnect, Reconnect, SetAside, history
    <3> QED BY <1>1, <3>1, <3>2, QuietAcks
  <2> QED BY <2>1, <2>2
<1>5. ASSUME NEW o \in Owners, NEW want \in 1..MaxWant,
             ReserveKept(o) \/ ReserveFresh(o, want)
      PROVE  AckInv'
  <2>1. Resv # {}
    BY <1>1, <1>5, NewResv DEF ReserveKept, ReserveFresh, ClientsOK
  <2> QED BY <1>1, <1>5, <2>1, ReserveAcks
<1>6. ASSUME NEW r \in Resv, NEW want \in 1..MaxWant,
             RunPop(r) \/ LoseCopy(r) \/ FailPop(r) \/ PutBack(r, want)
      PROVE  AckInv'
  <2>1. r.owner \in Owners
    BY DEF Resv
  <2> QED BY <1>1, <1>6, <2>1, RunPopAcks, LifeAcks, ReserveAcks
<1>7. ASSUME NEW o \in Owners, Start(o) \/ Tick(o) \/ Release(o) \/ RequeueNackedItems(o)
      PROVE  AckInv'
  BY <1>1, <1>2, <1>7, SweepAcks
<1>8. CASE \E o \in Owners :
        \/ Start(o) \/ Tick(o) \/ Close(o) \/ Release(o) \/ Crash(o)
        \/ Disconnect(o) \/ Reconnect(o)
        \/ ReserveKept(o) \/ SetAside(o) \/ RequeueNackedItems(o)
        \/ \E want \in 1..MaxWant : ReserveFresh(o, want)
        \/ \E job \in Jobs : Prepare(o, job)
  BY <1>1, <1>3, <1>4, <1>5, <1>7, <1>8, PrepareAcks
<1>9. CASE \E r \in Resv :
        \/ RunPop(r) \/ LoseCopy(r) \/ FailPop(r)
        \/ \E want \in 1..MaxWant : PutBack(r, want)
  BY <1>3, <1>6, <1>9
<1>10. CASE \/ \E m \in held, kind \in Kinds : BeginFinish(m, kind)
            \/ \E a \in acks : RunFinish(a)
  BY <1>1, <1>2, <1>10, BeginFinishAcks, RunFinishAcks
<1> QED BY <1>1, <1>2, <1>8, <1>9, <1>10, CallAcks DEF Next

(* Where AcksHold, a job is finished only when a consumer that was handed  *)
(* that very job acknowledged or rejected it, however often its ack ID's   *)
(* pop is re-sent (Acknowledge, popHead's re-send guard).                  *)
THEOREM OnlyAckedFinish == AcksHold => (Spec => []FinishedWasAcked)
<1>1. Init => AckInv
  <2> SUFFICES ASSUME Init PROVE AckInv
    OBVIOUS
  <2>1. Handed = {} /\ acks = {} /\ \A j \in Jobs : fate[j] = "unborn"
    BY DEF Init, Handed
  <2> QED BY <2>1 DEF AckInv, OneEach, Sealed, Free, IdsGiven, Told, FinishedWasAcked, Kinds
<1>2. AcksHold /\ AllInv /\ AllInv' /\ AckInv /\ [Next]_vars => AckInv'
  <2> SUFFICES ASSUME AcksHold, AllInv, AllInv', AckInv, UNCHANGED vars PROVE AckInv'
    BY NextAcks
  <2>1. /\ UNCHANGED <<redis, held, acks, net, ackSeq, prepared, acked, fate>>
        /\ UNCHANGED <<calls, aside, retryPop>>
    BY DEF vars, clients, history
  <2> QED BY <2>1 DEF AckInv, OneEach, Sealed, Free, IdsGiven, Told, FinishedWasAcked,
                      Handed, InUse
<1>3. AckInv => FinishedWasAcked
  BY DEF AckInv
<1>4. ASSUME AcksHold PROVE Spec => []FinishedWasAcked
  <2>1. AllInv /\ AllInv' /\ AckInv /\ [Next]_vars => AckInv'
    BY <1>2, <1>4
  <2> QED BY <1>1, <2>1, <1>3, Invariance, PTL DEF Spec
<1> QED BY <1>4

-----------------------------------------------------------------------------
(* What the users of a queue see of it: the refinement of ListQueue.       *)

(* A store and the history of its jobs agree, as Conserved says they do.   *)
Agree(s, f) == Exclusive(s) /\ \A j \in Jobs : f[j] = "live" <=> j \in InRedis(s)

(* What a user sees of a job that waits, is pending, or is neither.        *)
LEMMA StageFacts ==
  ASSUME NEW s, NEW f, Agree(s, f), NEW j \in Jobs
  PROVE  /\ j \in Range(s.queue) => StageIn(s, f)[j] = "queue"
         /\ j \in Range(s.nacked) => StageIn(s, f)[j] = "pending"
         /\ j \notin InRedis(s) => StageIn(s, f)[j] = f[j] /\ f[j] # "live"
<1>1. StageIn(s, f)[j] = IF f[j] # "live" THEN f[j]
                         ELSE IF j \in Range(s.queue) \ Range(s.nacked) THEN "queue"
                         ELSE IF j \in Range(s.nacked) \ Range(s.queue) THEN "pending"
                         ELSE "lost"
  BY DEF StageIn
<1> QED BY <1>1 DEF Agree, Exclusive, InRedis

(* The holder of a pending job is the owner of its ack ID.                 *)
LEMMA HolderFacts ==
  ASSUME NEW s, IsInjective(s.nacked), NEW j \in Jobs
  PROVE  /\ \A id \in DOMAIN s.nacked : s.nacked[id] = j => HolderIn(s)[j] = id.owner
         /\ j \notin Range(s.nacked) => HolderIn(s)[j] = NoOwner
<1> DEFINE under == CHOOSE id \in DOMAIN s.nacked : s.nacked[id] = j
<1>1. HolderIn(s)[j] = IF j \in Range(s.nacked) THEN under.owner ELSE NoOwner
  BY DEF HolderIn
<1>2. ASSUME NEW id \in DOMAIN s.nacked, s.nacked[id] = j
      PROVE  HolderIn(s)[j] = id.owner
  <2>1. under \in DOMAIN s.nacked /\ s.nacked[under] = j
    BY <1>2
  <2> HIDE DEF under
  <2>2. under = id
    BY <1>2, <2>1 DEF IsInjective
  <2>3. j \in Range(s.nacked)
    BY <1>2 DEF Range
  <2> QED BY <1>1, <2>2, <2>3
<1> QED BY <1>1, <1>2

(* Where jobs are seen again after a script that left their places alone.  *)
LEMMA SeenAlike ==
  ASSUME NEW s, NEW f, Agree(s, f), NEW t, NEW g, Agree(t, g), NEW j \in Jobs,
         g[j] = f[j] \/ (j \in InRedis(s) /\ j \in InRedis(t)),
         j \in Range(s.queue) <=> j \in Range(t.queue),
         \A id \in DOMAIN s.nacked : s.nacked[id] = j =>
           id \in DOMAIN t.nacked /\ t.nacked[id] = j,
         j \in Range(t.nacked) => j \in Range(s.nacked)
  PROVE  StageIn(t, g)[j] = StageIn(s, f)[j] /\ HolderIn(t)[j] = HolderIn(s)[j]
<1>1. IsInjective(s.nacked) /\ IsInjective(t.nacked)
  BY DEF Agree, Exclusive
<1>2. CASE j \in Range(s.nacked)
  <2>1. PICK id \in DOMAIN s.nacked : s.nacked[id] = j
    BY <1>2 DEF Range
  <2>2. id \in DOMAIN t.nacked /\ t.nacked[id] = j
    BY <2>1
  <2>3. j \in Range(t.nacked)
    BY <2>2 DEF Range
  <2>4. HolderIn(s)[j] = id.owner /\ HolderIn(t)[j] = id.owner
    BY <1>1, <2>1, <2>2, HolderFacts
  <2> QED BY <1>2, <2>3, <2>4, StageFacts
<1>3. CASE j \notin Range(s.nacked)
  <2>1. j \notin Range(t.nacked)
    BY <1>3
  <2>2. HolderIn(s)[j] = NoOwner /\ HolderIn(t)[j] = NoOwner
    BY <1>1, <1>3, <2>1, HolderFacts
  <2>3. StageIn(t, g)[j] = StageIn(s, f)[j]
    BY <1>3, <2>1, StageFacts DEF InRedis
  <2> QED BY <2>2, <2>3
<1> QED BY <1>2, <1>3

(* A set that a sequence lists, each member once, is what it lists.        *)
LEMMA ListedOnce ==
  ASSUME NEW n \in Nat, NEW front, NEW S, front \in [1..n -> S],
         \A i, k \in 1..n : front[i] = front[k] => i = k,
         \A j \in S : \E i \in 1..n : front[i] = j
  PROVE  front \in SetToSeqs(S)
<1>1. front \in Surjection(1..n, S) /\ front \in Injection(1..n, S)
  BY DEF Surjection, Injection, IsInjective
<1>2. IsFiniteSet(1..n) /\ Cardinality(1..n) = n
  BY FS_Interval
<1>3. Cardinality(S) = n
  BY <1>1, <1>2, FS_Surjection
<1> QED BY <1>3 DEF SetToSeqs

(* The invariant is about Redis and the jobs' fates.                       *)
LEMMA InvAgree ==
  ASSUME JobsInv
  PROVE  Agree(redis, fate) /\ Sound(redis) /\ IsStore(redis) /\ redis.queue \in Seq(Jobs)
  BY InvSound DEF JobsInv, Conserved, Agree, StoreOK

(* What a step shows of the jobs, job by job.                              *)
LEMMA StagesSeen ==
  ASSUME NEW S, NEW to,
         \A j \in Jobs : StageIn(redis', fate')[j] =
                           IF j \in S THEN to ELSE StageIn(redis, fate)[j]
  PROVE  StageIn(redis', fate') = Promise!Reach(S, to)
<1>1. StageIn(redis', fate') = [j \in Jobs |-> StageIn(redis', fate')[j]]
  BY DEF StageIn
<1> QED BY <1>1 DEF Promise!Reach

(* The holders, told job by job.                                           *)
LEMMA HoldersSeen ==
  ASSUME NEW S, NEW h,
         \A j \in Jobs : HolderIn(redis')[j] = IF j \in S THEN h ELSE HolderIn(redis)[j]
  PROVE  HolderIn(redis') = Promise!With(S, h)
<1>1. HolderIn(redis') = [j \in Jobs |-> HolderIn(redis')[j]]
  BY DEF HolderIn
<1> QED BY <1>1 DEF Promise!With

(* A step that leaves every job where it was is not seen.                  *)
LEMMA NothingSeen ==
  ASSUME \A j \in Jobs : StageIn(redis', fate')[j] = StageIn(redis, fate)[j],
         \A j \in Jobs : HolderIn(redis')[j] = HolderIn(redis)[j]
  PROVE  StageIn(redis', fate') = StageIn(redis, fate) /\ HolderIn(redis') = HolderIn(redis)
<1>1. \A s, f : StageIn(s, f) = [j \in Jobs |-> StageIn(s, f)[j]]
  BY DEF StageIn
<1>2. \A s : HolderIn(s) = [j \in Jobs |-> HolderIn(s)[j]]
  BY DEF HolderIn
<1>3. [j \in Jobs |-> StageIn(redis', fate')[j]] = [j \in Jobs |-> StageIn(redis, fate)[j]]
  OBVIOUS
<1>4. [j \in Jobs |-> HolderIn(redis')[j]] = [j \in Jobs |-> HolderIn(redis)[j]]
  OBVIOUS
<1> QED BY <1>1, <1>2, <1>3, <1>4

(* A script that only puts pending items back ahead of the queue is seen   *)
(* as a PutBack of those it moved.                                         *)
LEMMA PutsBack ==
  ASSUME JobsInv, JobsInv', Keeps(redis, redis'), UNCHANGED fate,
         redis'.paused = redis.paused
  PROVE  \E S \in SUBSET {j \in Jobs : StageIn(redis, fate)[j] = "pending"} :
           \E front \in Promise!SetToSeqs(S) : Promise!PutBack(S, front)
<1>1. Agree(redis, fate) /\ Agree(redis', fate') /\ redis.queue \in Seq(Jobs)
      /\ redis'.queue \in Seq(Jobs)
  BY InvAgree DEF JobsInv, Conserved, Agree, StoreOK
<1>2. PICK n \in Nat : Ahead(redis, redis', n)
  BY DEF Keeps, Requeued
<1> DEFINE front == SubSeq(redis'.queue, 1, n)
           S == {redis'.queue[i] : i \in 1..n}
           L == Len(redis.queue)
<1>3. /\ L \in Nat /\ Len(redis'.queue) = n + L
      /\ \A i \in 1..n : redis'.queue[i] \in Range(redis.nacked)
      /\ \A i \in 1..L : redis'.queue[n + i] = redis.queue[i]
  BY <1>1, <1>2, LenProperties DEF Ahead
<1>4. \A i \in 1..n + L : redis'.queue[i] \in Jobs
  BY <1>1, <1>3, QueueFacts
<1>5. /\ front \in Seq(Jobs) /\ Len(front) = n
      /\ \A i \in 1..n : front[i] = redis'.queue[i]
  <2>1. \A i \in 1..n : redis'.queue[i] \in Jobs
    BY <1>3, <1>4
  <2>2. 1 \in Int /\ n \in Int
    OBVIOUS
  <2>3. /\ front \in Seq(Jobs)
        /\ Len(front) = IF 1 <= n THEN n - 1 + 1 ELSE 0
        /\ \A i \in 1..n - 1 + 1 : front[i] = redis'.queue[1 + i - 1]
    BY <2>1, <2>2, SubSeqProperties
  <2>4. n - 1 + 1 = n /\ \A i \in 1..n : 1 + i - 1 = i
    OBVIOUS
  <2> HIDE DEF front
  <2> QED BY <2>3, <2>4
<1> HIDE DEF front, L
<1>6. redis'.queue = front \o redis.queue
  <2> DEFINE q == front \o redis.queue
  <2>1. /\ q \in Seq(Jobs) /\ Len(q) = Len(front) + Len(redis.queue)
        /\ \A i \in 1..Len(front) + Len(redis.queue) :
             q[i] = IF i <= Len(front) THEN front[i] ELSE redis.queue[i - Len(front)]
    BY <1>1, <1>5, ConcatProperties
  <2>2. Len(q) = n + L
    BY <1>5, <2>1 DEF L
  <2> HIDE DEF q
  <2>3. ASSUME NEW i \in 1..n + L PROVE q[i] = redis'.queue[i]
    <3>1. CASE i <= n
      <4>1. i \in 1..n
        BY <3>1, <1>3
      <4>2. q[i] = front[i]
        BY <1>5, <2>1, <3>1 DEF L
      <4> QED BY <4>1, <4>2, <1>5
    <3>2. CASE ~(i <= n)
      <4>1. i - n \in 1..L /\ n + (i - n) = i
        BY <1>3, <3>2
      <4>2. q[i] = redis.queue[i - n]
        BY <1>5, <2>1, <3>2 DEF L
      <4> QED BY <4>1, <4>2, <1>3
    <3> QED BY <3>1, <3>2
  <2>4. q = redis'.queue
    BY <1>1, <1>3, <2>1, <2>2, <2>3, SeqEqual
  <2> QED BY <2>4 DEF q
<1>7. \A i, k \in 1..n : redis'.queue[i] = redis'.queue[k] => i = k
  <2>1. \A i \in 1..n : i \in DOMAIN redis'.queue
    BY <1>1, <1>3, QueueFacts
  <2> QED BY <1>1, <2>1 DEF Agree, Exclusive, IsInjective
<1>8. front \in SetToSeqs(S)
  <2>1. front \in [1..n -> S]
    <3>1. DOMAIN front = 1..n /\ front \in [1..n -> Jobs]
      BY <1>5, LenProperties
    <3> QED BY <1>5, <3>1
  <2>2. \A i, k \in 1..n : front[i] = front[k] => i = k
    BY <1>5, <1>7
  <2>3. \A j \in S : \E i \in 1..n : front[i] = j
    BY <1>5
  <2> HIDE DEF S
  <2> QED BY <2>1, <2>2, <2>3, ListedOnce
<1>9. ASSUME NEW j \in Jobs
      PROVE  /\ StageIn(redis', fate')[j] = IF j \in S THEN "queue" ELSE StageIn(redis, fate)[j]
             /\ HolderIn(redis')[j] = IF j \in S THEN NoOwner ELSE HolderIn(redis)[j]
             /\ j \in S => StageIn(redis, fate)[j] = "pending"
  <2>1. Range(redis'.queue) = {redis'.queue[i] : i \in 1..n + L}
        /\ Range(redis.queue) = {redis.queue[i] : i \in 1..L}
    BY <1>1, <1>3, QueueFacts DEF L
  <2>2. CASE j \in S
    <3>1. PICK i \in 1..n : j = redis'.queue[i]
      BY <2>2
    <3>2. i \in 1..n + L
      BY <1>3
    <3>3. j \in Range(redis'.queue) /\ j \in Range(redis.nacked)
      BY <1>3, <2>1, <3>1, <3>2
    <3>4. j \notin Range(redis'.nacked)
      BY <1>1, <3>3 DEF Agree, Exclusive
    <3>5. HolderIn(redis')[j] = NoOwner
      BY <1>1, <3>4, HolderFacts DEF Agree, Exclusive
    <3> QED BY <1>1, <2>2, <3>3, <3>5, StageFacts
  <2>3. CASE j \notin S
    <3>1. j \in Range(redis'.queue) => j \in Range(redis.queue)
      <4> SUFFICES ASSUME j \in Range(redis'.queue) PROVE j \in Range(redis.queue)
        OBVIOUS
      <4>1. PICK i \in 1..n + L : j = redis'.queue[i]
        BY <2>1
      <4>2. ~(i <= n)
        BY <2>3, <4>1, <1>3
      <4>3. i - n \in 1..L /\ n + (i - n) = i
        BY <1>3, <4>2
      <4> QED BY <1>3, <2>1, <4>1, <4>3
    <3>2. Range(redis.queue) \subseteq Range(redis'.queue)
          /\ InRedis(redis') = InRedis(redis)
          /\ \A id \in DOMAIN redis'.nacked :
               id \in DOMAIN redis.nacked /\ redis'.nacked[id] = redis.nacked[id]
      BY DEF Keeps, Requeued
    <3>3. ASSUME NEW id \in DOMAIN redis.nacked, redis.nacked[id] = j
          PROVE  id \in DOMAIN redis'.nacked /\ redis'.nacked[id] = j
      <4>1. j \in Range(redis.nacked)
        BY <3>3 DEF Range
      <4>2. j \notin Range(redis.queue) /\ j \in InRedis(redis')
        BY <1>1, <3>2, <4>1 DEF Agree, Exclusive, InRedis
      <4>3. PICK x \in DOMAIN redis'.nacked : redis'.nacked[x] = j
        BY <3>1, <4>2 DEF InRedis, Range
      <4>4. x \in DOMAIN redis.nacked /\ redis.nacked[x] = j
        BY <3>2, <4>3
      <4>5. x = id
        BY <1>1, <3>3, <4>4 DEF Agree, Exclusive, IsInjective
      <4> QED BY <4>3, <4>5
    <3>4. j \in Range(redis'.nacked) => j \in Range(redis.nacked)
      BY <3>2 DEF Range
    <3>5. fate'[j] = fate[j]
      OBVIOUS
    <3>6. StageIn(redis', fate')[j] = StageIn(redis, fate)[j] /\ HolderIn(redis')[j] = HolderIn(redis)[j]
      BY <1>1, <3>1, <3>2, <3>3, <3>4, <3>5, SeenAlike
    <3> QED BY <2>3, <3>6
  <2> QED BY <2>2, <2>3
<1>10. S \in SUBSET {j \in Jobs : StageIn(redis, fate)[j] = "pending"}
  <2>1. S \subseteq Jobs
    BY <1>3, <1>4
  <2> QED BY <1>9, <2>1
<1> HIDE DEF S
<1>11. StageIn(redis', fate') = Promise!Reach(S, "queue") /\ HolderIn(redis') = Promise!With(S, NoOwner)
  BY <1>9, StagesSeen, HoldersSeen
<1>12. Promise!PutBack(S, front)
  BY <1>6, <1>11 DEF Promise!PutBack
<1>13. front \in Promise!SetToSeqs(S)
  <2>1. Promise!Cardinality(S) = Cardinality(S)
    BY DEF Promise!Cardinality, Cardinality
  <2> QED BY <1>8, <2>1 DEF SetToSeqs, Promise!SetToSeqs
<1> QED BY <1>10, <1>12, <1>13

(* A pop moves the head of the queue to its consumer in one step, or is    *)
(* not seen (popHead, popOneHead).                                         *)
LEMMA RunPopSeen ==
  ASSUME Inv, JobsInv', NEW r \in Resv, RunPop(r)
  PROVE  \/ UNCHANGED Promise!vars
         \/ \E n \in 1..Len(redis.queue) : Promise!Take(r.owner, n)
<1>1. /\ Agree(redis, fate) /\ Sound(redis) /\ IsStore(redis)
      /\ Agree(redis', fate')
      /\ redis.queue \in Seq(Jobs) /\ redis'.queue \in Seq(Jobs)
  BY InvAgree DEF Inv, JobsInv, Conserved, Agree, StoreOK
<1>2. /\ r \in Reservations /\ now \in Nat /\ fate' = fate
      /\ redis' = AckPop(redis, r, now)
  BY ResvFacts DEF RunPop, Inv, ClientsOK
<1>3. redis'.paused = redis.paused
  BY <1>1, <1>2, AckPopSamePause DEF SamePause
<1>4. /\ InRedis(redis') = InRedis(redis)
      /\ redis.paused # Absent => Keeps(redis, redis')
  BY <1>1, <1>2, AckPopSound
<1>5. PICK n \in Nat : Popped(redis, redis', r, n)
  BY <1>1, <1>2, AckPopSound
<1> DEFINE S == {redis.queue[i] : i \in 1..n}
           L == Len(redis.queue)
<1>6. /\ L \in Nat /\ n <= L /\ Len(redis'.queue) = L - n
      /\ Range(redis.queue) = {redis.queue[i] : i \in 1..L}
      /\ Range(redis'.queue) = {redis'.queue[i] : i \in 1..L - n}
      /\ \A i \in 1..L - n : redis'.queue[i] = redis.queue[n + i]
  BY <1>1, <1>5, QueueFacts DEF Popped
<1>7. /\ DOMAIN redis'.nacked = DOMAIN redis.nacked \cup {IdOf(r, i) : i \in 1..n}
      /\ \A id \in DOMAIN redis.nacked : redis'.nacked[id] = redis.nacked[id]
      /\ \A i \in 1..n : redis'.nacked[IdOf(r, i)] = redis.queue[i]
  BY <1>5 DEF Popped
<1> HIDE DEF L
<1>8. ASSUME NEW j \in Jobs, j \in S
      PROVE  StageIn(redis', fate')[j] = "pending" /\ HolderIn(redis')[j] = r.owner
  <2>1. PICK i \in 1..n : j = redis.queue[i]
    BY <1>8
  <2>2. IdOf(r, i) \in DOMAIN redis'.nacked /\ redis'.nacked[IdOf(r, i)] = j
    BY <1>7, <2>1
  <2>3. j \in Range(redis'.nacked)
    BY <2>2 DEF Range
  <2>4. HolderIn(redis')[j] = IdOf(r, i).owner
    BY <1>1, <2>2, HolderFacts DEF Agree, Exclusive
  <2>5. IdOf(r, i).owner = r.owner
    BY DEF IdOf
  <2> QED BY <1>1, <2>3, <2>4, <2>5, StageFacts
<1>9. ASSUME NEW j \in Jobs, j \notin S
      PROVE  /\ StageIn(redis', fate')[j] = StageIn(redis, fate)[j]
             /\ HolderIn(redis')[j] = HolderIn(redis)[j]
  <2>1. j \in Range(redis'.queue) => j \in Range(redis.queue)
    <3>1. \A i \in 1..L - n : n + i \in 1..L
      BY <1>6
    <3> QED BY <1>6, <3>1
  <2>2. j \in Range(redis.queue) => j \in Range(redis'.queue)
    <3> SUFFICES ASSUME j \in Range(redis.queue) PROVE j \in Range(redis'.queue)
      OBVIOUS
    <3>1. PICK i \in 1..L : j = redis.queue[i]
      BY <1>6
    <3>2. ~(i <= n)
      BY <1>6, <1>9, <3>1
    <3>3. i - n \in 1..L - n /\ n + (i - n) = i
      BY <1>6, <3>2
    <3> QED BY <1>6, <3>1, <3>3
  <2>3. \A id \in DOMAIN redis.nacked : redis.nacked[id] = j =>
          id \in DOMAIN redis'.nacked /\ redis'.nacked[id] = j
    BY <1>7
  <2>4. j \in Range(redis'.nacked) => j \in Range(redis.nacked)
    <3> SUFFICES ASSUME j \in Range(redis'.nacked) PROVE j \in Range(redis.nacked)
      OBVIOUS
    <3>1. PICK id \in DOMAIN redis'.nacked : redis'.nacked[id] = j
      BY DEF Range
    <3>2. id \in DOMAIN redis.nacked
      BY <1>7, <1>9, <3>1
    <3>3. redis.nacked[id] = j
      BY <1>7, <3>1, <3>2
    <3> QED BY <3>2, <3>3 DEF Range
  <2>5. fate'[j] = fate[j]
    BY <1>2
  <2> HIDE DEF S
  <2> QED BY <1>1, <2>1, <2>2, <2>3, <2>4, <2>5, SeenAlike
<1>10. CASE n = 0
  <2>1. S = {}
    BY <1>10
  <2>2. redis'.queue = redis.queue
    <3>1. Len(redis'.queue) = Len(redis.queue)
      BY <1>6, <1>10 DEF L
    <3>2. \A i \in 1..Len(redis'.queue) : redis'.queue[i] = redis.queue[i]
      BY <1>6, <1>10
    <3> QED BY <1>1, <3>1, <3>2, SeqEqual
  <2>3. StageIn(redis', fate') = StageIn(redis, fate) /\ HolderIn(redis') = HolderIn(redis)
    <3>1. \A j \in Jobs : j \notin S
      BY <2>1
    <3> HIDE DEF S
    <3> QED BY <1>9, <3>1, NothingSeen
  <2> QED BY <1>3, <2>2, <2>3 DEF Promise!vars
<1>11. CASE n > 0
  <2>1. redis.paused = Absent
    <3> SUFFICES ASSUME redis.paused # Absent PROVE FALSE
      OBVIOUS
    <3>1. 1 \in 1..n /\ 1 \in 1..L
      BY <1>6, <1>11
    <3>2. IdOf(r, 1) \in DOMAIN redis.nacked
      BY <1>4, <1>7, <3>1 DEF Keeps
    <3>3. redis.nacked[IdOf(r, 1)] = redis.queue[1]
      BY <1>7, <3>1, <3>2
    <3>4. redis.queue[1] \in Range(redis.queue) /\ redis.queue[1] \in Range(redis.nacked)
      BY <1>6, <3>1, <3>2, <3>3 DEF Range
    <3> QED BY <1>1, <3>4 DEF Agree, Exclusive
  <2>2. redis'.queue = SubSeq(redis.queue, n + 1, Len(redis.queue))
    <3> DEFINE q == SubSeq(redis.queue, n + 1, Len(redis.queue))
    <3>1. \A i \in n + 1..Len(redis.queue) : redis.queue[i] \in Jobs
      BY <1>1, QueueFacts
    <3>2. n + 1 \in Int /\ Len(redis.queue) \in Int
      BY <1>6 DEF L
    <3>3. /\ q \in Seq(Jobs)
          /\ Len(q) = IF n + 1 <= Len(redis.queue) THEN Len(redis.queue) - (n + 1) + 1 ELSE 0
          /\ \A i \in 1..Len(redis.queue) - (n + 1) + 1 : q[i] = redis.queue[n + 1 + i - 1]
      BY <3>1, <3>2, SubSeqProperties
    <3> HIDE DEF q
    <3>4. Len(q) = L - n /\ L - (n + 1) + 1 = L - n /\ \A i \in 1..L - n : n + 1 + i - 1 = n + i
      BY <1>6, <3>3 DEF L
    <3>5. \A i \in 1..L - n : q[i] = redis'.queue[i]
      BY <1>6, <3>3, <3>4 DEF L
    <3>6. q = redis'.queue
      BY <1>1, <1>6, <3>3, <3>4, <3>5, SeqEqual
    <3> QED BY <3>6 DEF q
  <2>3. /\ StageIn(redis', fate') = Promise!Reach(S, "pending")
        /\ HolderIn(redis') = Promise!With(S, r.owner)
    <3> HIDE DEF S
    <3> QED BY <1>8, <1>9, StagesSeen, HoldersSeen
  <2>4. n \in 1..Len(redis.queue)
    BY <1>6, <1>11 DEF L
  <2>5. Promise!Take(r.owner, n)
    BY <1>3, <2>1, <2>2, <2>3 DEF Promise!Take
  <2> QED BY <2>4, <2>5
<1> QED BY <1>10, <1>11

(* The stage of job moves and its holder does not; every other job is seen *)
(* as before.                                                              *)
OneSeen(job, to, h) ==
  /\ StageIn(redis', fate') = Promise!Reach({job}, to)
  /\ HolderIn(redis') = Promise!With({job}, h)

(* A step that leaves the place of every other job alone is seen that way. *)
LEMMA OneJobSeen ==
  ASSUME JobsInv, JobsInv', NEW job \in Jobs, NEW to, NEW h,
         StageIn(redis', fate')[job] = to, HolderIn(redis')[job] = h,
         \A j \in Jobs \ {job} : fate'[j] = fate[j],
         \A j \in Jobs \ {job} : j \in Range(redis.queue) <=> j \in Range(redis'.queue),
         \A id \in DOMAIN redis.nacked : redis.nacked[id] # job =>
           id \in DOMAIN redis'.nacked /\ redis'.nacked[id] = redis.nacked[id],
         \A j \in Jobs \ {job} : j \in Range(redis'.nacked) => j \in Range(redis.nacked)
  PROVE  OneSeen(job, to, h)
<1>1. Agree(redis, fate) /\ Agree(redis', fate')
  BY InvAgree DEF JobsInv, Conserved, Agree
<1>2. ASSUME NEW j \in Jobs, j # job
      PROVE  /\ StageIn(redis', fate')[j] = StageIn(redis, fate)[j]
             /\ HolderIn(redis')[j] = HolderIn(redis)[j]
  BY <1>1, <1>2, SeenAlike
<1>3. \A j \in Jobs : StageIn(redis', fate')[j] =
                        IF j \in {job} THEN to ELSE StageIn(redis, fate)[j]
  BY <1>2
<1>4. \A j \in Jobs : HolderIn(redis')[j] = IF j \in {job} THEN h ELSE HolderIn(redis)[j]
  BY <1>2
<1> QED BY <1>3, <1>4, StagesSeen, HoldersSeen DEF OneSeen

(* A holder that does not change is not seen to.                           *)
LEMMA SameHolders ==
  ASSUME NEW job \in Jobs, HolderIn(redis') = Promise!With({job}, HolderIn(redis)[job])
  PROVE  HolderIn(redis') = HolderIn(redis)
<1>1. HolderIn(redis) = [j \in Jobs |-> HolderIn(redis)[j]]
  BY DEF HolderIn
<1>2. Promise!With({job}, HolderIn(redis)[job]) = [j \in Jobs |-> HolderIn(redis)[j]]
  BY DEF Promise!With
<1> QED BY <1>1, <1>2

(* A finish ends the job of a pending ID, and is not seen for another      *)
(* (finishScript).                                                         *)
LEMMA RunFinishSeen ==
  ASSUME Inv, JobsInv', NEW a \in acks, RunFinish(a)
  PROVE  \/ UNCHANGED Promise!vars
         \/ \E j \in Jobs, kind \in Promise!Kinds : Promise!Finish(j, kind)
<1>1. Sound(redis) /\ a.kind \in Kinds /\ IsStore(redis) /\ JobsInv /\ fate \in [Jobs -> Fates]
  BY InvAgree DEF Inv, ClientsOK, Finishes, JobsInv, HistoryOK
<1>2. /\ redis' = Finish(redis, a.id)
      /\ fate' = IF a.id \in DOMAIN redis.nacked
                 THEN [fate EXCEPT ![redis.nacked[a.id]] = a.kind] ELSE fate
  BY DEF RunFinish
<1>3. CASE a.id \notin DOMAIN redis.nacked
  <2>1. redis' = redis /\ fate' = fate
    BY <1>2, <1>3 DEF Finish
  <2> QED BY <2>1 DEF Promise!vars
<1>4. CASE a.id \in DOMAIN redis.nacked
  <2> DEFINE job == redis.nacked[a.id]
  <2>1. /\ InRedis(redis') = InRedis(redis) \ {job}
        /\ job \in Jobs /\ job \in InRedis(redis) /\ job \in Range(redis.nacked)
    BY <1>1, <1>2, <1>4, FinishSound DEF Range
  <2>2. /\ redis'.nacked = Drop(redis.nacked, {a.id})
        /\ redis'.queue = redis.queue /\ redis'.paused = redis.paused
    BY <1>1, <1>2, <1>4 DEF Finish, IsStore
  <2>3. /\ DOMAIN redis'.nacked = DOMAIN redis.nacked \ {a.id}
        /\ \A id \in DOMAIN redis'.nacked : redis'.nacked[id] = redis.nacked[id]
    BY <2>2 DEF Drop
  <2>4. fate' = [fate EXCEPT ![job] = a.kind]
    BY <1>2, <1>4
  <2>5. \A id \in DOMAIN redis.nacked : redis.nacked[id] # job =>
          id \in DOMAIN redis'.nacked /\ redis'.nacked[id] = redis.nacked[id]
    BY <2>3
  <2>6. Range(redis'.nacked) \subseteq Range(redis.nacked)
    BY <2>3 DEF Range
  <2> HIDE DEF job
  <2>7. /\ fate'[job] = a.kind /\ a.kind # "live"
        /\ \A j \in Jobs \ {job} : fate'[j] = fate[j]
    BY <1>1, <2>1, <2>4 DEF Kinds
  <2>8. /\ StageIn(redis, fate)[job] = "pending"
        /\ StageIn(redis', fate')[job] = a.kind
        /\ HolderIn(redis')[job] = NoOwner
    <3>1. Agree(redis, fate) /\ Agree(redis', fate')
      BY <1>1, InvAgree DEF JobsInv, Conserved, Agree
    <3>2. job \notin InRedis(redis') /\ job \notin Range(redis'.nacked)
      BY <2>1 DEF InRedis
    <3> QED BY <2>1, <2>7, <3>1, <3>2, StageFacts, HolderFacts DEF Agree, Exclusive
  <2>9. OneSeen(job, a.kind, NoOwner)
    BY <1>1, <2>1, <2>2, <2>5, <2>6, <2>7, <2>8, OneJobSeen
  <2>10. (redis'.paused # Absent) = (redis.paused # Absent)
    BY <2>2
  <2>11. Promise!Finish(job, a.kind)
    BY <2>2, <2>8, <2>9, <2>10 DEF Promise!Finish, OneSeen
  <2>12. a.kind \in Promise!Kinds
    BY <1>1 DEF Kinds, Promise!Kinds
  <2> QED BY <2>1, <2>11, <2>12
<1> QED BY <1>3, <1>4

(* A push that stores an item is one (listPush).                           *)
LEMMA EnqueueSeen ==
  ASSUME Inv, JobsInv', Enqueue
  PROVE  \E j \in Jobs : Promise!Push(j)
<1> DEFINE job == submitted + 1
<1>1. /\ job \in Jobs /\ submitted' = job /\ redis' = Push(redis, job)
      /\ fate' = [fate EXCEPT ![job] = "live"]
  BY DEF Enqueue
<1>2. submitted \in Nat /\ fate \in [Jobs -> Fates] /\ Jobs \subseteq Nat
  BY JobsAssumption DEF Inv, JobsInv, HistoryOK
<1>3. /\ JobsInv /\ Agree(redis, fate) /\ Sound(redis) /\ IsStore(redis)
      /\ Agree(redis', fate')
      /\ redis.queue \in Seq(Jobs) /\ redis'.queue \in Seq(Jobs)
  BY InvAgree DEF Inv, JobsInv, Conserved, Agree, StoreOK
<1>4. \A j \in Jobs : fate[j] = "unborn" <=> j > submitted
  BY DEF Inv, JobsInv, Conserved
<1>5. job > submitted /\ \A k \in Jobs : k < job => ~(k > submitted)
  BY <1>2
<1>6. redis'.queue = Append(redis.queue, job) /\ redis'.nacked = redis.nacked
      /\ redis'.paused = redis.paused
  BY <1>1, <1>3 DEF Push, IsStore
<1> HIDE DEF job
<1>7. fate[job] = "unborn" /\ \A k \in Jobs : k < job => fate[k] # "unborn"
  BY <1>1, <1>4, <1>5
<1>8. job \notin InRedis(redis)
  BY <1>1, <1>3, <1>7 DEF Agree
<1>9. InRedis(redis') = InRedis(redis) \cup {job}
  BY <1>1, <1>3, <1>8, PushSound
<1>10. /\ fate'[job] = "live" /\ \A j \in Jobs \ {job} : fate'[j] = fate[j]
  BY <1>1, <1>2
<1>11. job \in Range(redis'.queue) /\ job \notin Range(redis'.nacked)
  BY <1>3, <1>6, <1>8, <1>9 DEF InRedis
<1>12. \A j \in Jobs \ {job} : j \in Range(redis.queue) <=> j \in Range(redis'.queue)
  BY <1>3, <1>6, <1>9 DEF InRedis, Agree, Exclusive
<1>13. /\ StageIn(redis', fate')[job] = "queue"
       /\ HolderIn(redis')[job] = NoOwner /\ HolderIn(redis)[job] = NoOwner
  <2>1. StageIn(redis', fate')[job] = "queue"
    BY <1>1, <1>3, <1>11, StageFacts
  <2>2. job \notin Range(redis.nacked)
    BY <1>6, <1>11
  <2> QED BY <1>1, <1>3, <1>11, <2>1, <2>2, HolderFacts DEF Agree, Exclusive
<1>14. OneSeen(job, "queue", NoOwner)
  BY <1>1, <1>3, <1>6, <1>10, <1>12, <1>13, OneJobSeen
<1>15. HolderIn(redis') = HolderIn(redis)
  BY <1>1, <1>13, <1>14, SameHolders DEF OneSeen
<1>16. \A j \in Jobs : StageIn(redis, fate)[j] = "unborn" <=> fate[j] = "unborn"
  BY DEF StageIn
<1>17. (redis'.paused # Absent) = (redis.paused # Absent)
  BY <1>6
<1>18. Promise!Push(job)
  BY <1>1, <1>6, <1>7, <1>14, <1>15, <1>16, <1>17 DEF Promise!Push, OneSeen
<1> QED BY <1>1, <1>18

(* One job leaves the queue for good or for its caller.                    *)
LEMMA LeavesQueueSeen ==
  ASSUME Inv, JobsInv', NEW job \in Range(redis.queue), job \in Jobs,
         NEW f \in Fates \ {"live"},
         InRedis(redis') = InRedis(redis) \ {job}, redis'.nacked = redis.nacked,
         fate' = [fate EXCEPT ![job] = f]
  PROVE  StageIn(redis', fate') = Promise!Reach({job}, f) /\ HolderIn(redis') = HolderIn(redis)
<1>1. JobsInv /\ Agree(redis, fate) /\ Agree(redis', fate') /\ fate \in [Jobs -> Fates]
  BY InvAgree DEF Inv, JobsInv, Conserved, Agree, HistoryOK
<1>2. fate'[job] = f /\ f # "live" /\ \A j \in Jobs \ {job} : fate'[j] = fate[j]
  BY <1>1
<1>3. job \notin Range(redis.nacked) /\ job \notin InRedis(redis')
  BY <1>1 DEF Agree, Exclusive
<1>4. \A j \in Jobs \ {job} : j \in Range(redis.queue) <=> j \in Range(redis'.queue)
  BY <1>1 DEF Agree, Exclusive, InRedis
<1>5. StageIn(redis', fate')[job] = f
  <2>1. \A s, g : Agree(s, g) /\ job \notin InRedis(s) => StageIn(s, g)[job] = g[job]
    BY StageFacts
  <2>2. StageIn(redis', fate')[job] = fate'[job]
    BY <1>1, <1>3, <2>1
  <2> QED BY <1>2, <2>2
<1>6. HolderIn(redis')[job] = HolderIn(redis)[job]
  BY DEF HolderIn
<1>7. OneSeen(job, f, HolderIn(redis)[job])
  BY <1>1, <1>2, <1>4, <1>5, <1>6, OneJobSeen
<1> QED BY <1>7, SameHolders DEF OneSeen

(* A raw pop hands the head to its caller (listRawPop).                    *)
LEMMA DequeueSeen ==
  ASSUME Inv, JobsInv', Dequeue
  PROVE  Promise!TakeRaw
<1> DEFINE job == Head(redis.queue)
<1>1. /\ redis.paused = Absent /\ redis.queue # <<>> /\ redis' = RawPop(redis)
      /\ fate' = [fate EXCEPT ![job] = "taken"]
  BY DEF Dequeue
<1>2. Sound(redis) /\ IsStore(redis) /\ redis.queue \in Seq(Jobs)
  BY InvAgree DEF Inv
<1>3. InRedis(redis') = InRedis(redis) \ {job}
  BY <1>1, <1>2, RawPopSound
<1>4. job \in Jobs /\ job \in Range(redis.queue)
  <2>1. 1 \in 1..Len(redis.queue) /\ job = redis.queue[1]
    BY <1>1, <1>2, EmptySeq
  <2> QED BY <1>1, <1>2, <2>1, QueueFacts, HeadTailProperties
<1>5. redis'.nacked = redis.nacked /\ redis'.queue = Tail(redis.queue)
      /\ redis'.paused = redis.paused
  BY <1>1, <1>2 DEF RawPop, IsStore
<1> HIDE DEF job
<1>6. "taken" \in Fates \ {"live"}
  BY DEF Fates
<1>7. StageIn(redis', fate') = Promise!Reach({job}, "taken") /\ HolderIn(redis') = HolderIn(redis)
  BY <1>1, <1>3, <1>4, <1>5, <1>6, LeavesQueueSeen
<1>8. (redis'.paused # Absent) = (redis.paused # Absent)
  BY <1>5
<1> QED BY <1>1, <1>5, <1>7, <1>8 DEF Promise!TakeRaw, job

(* Remove ends one waiting job (LREM).                                     *)
LEMMA RemoveItemSeen ==
  ASSUME Inv, JobsInv', NEW i \in 1..Len(redis.queue), RemoveItem(i)
  PROVE  Promise!RemoveItem(i)
<1> DEFINE job == redis.queue[i]
<1>1. /\ redis' = ListRemove(redis, i) /\ fate' = [fate EXCEPT ![job] = "gone"]
  BY DEF RemoveItem
<1>2. Sound(redis) /\ IsStore(redis) /\ redis.queue \in Seq(Jobs)
  BY InvAgree DEF Inv
<1>3. InRedis(redis') = InRedis(redis) \ {job}
  BY <1>1, <1>2, ListRemoveSound
<1>4. job \in Jobs /\ job \in Range(redis.queue)
  BY <1>2, QueueFacts
<1>5. redis'.nacked = redis.nacked /\ redis'.queue = RemoveAt(redis.queue, i)
      /\ redis'.paused = redis.paused
  BY <1>1, <1>2 DEF ListRemove, IsStore
<1> HIDE DEF job
<1>6. "gone" \in Fates \ {"live"}
  BY DEF Fates
<1>7. StageIn(redis', fate') = Promise!Reach({job}, "gone") /\ HolderIn(redis') = HolderIn(redis)
  BY <1>1, <1>3, <1>4, <1>5, <1>6, LeavesQueueSeen
<1>8. (redis'.paused # Absent) = (redis.paused # Absent)
  BY <1>5
<1>9. redis'.queue = Promise!RemoveAt(redis.queue, i)
  BY <1>5 DEF RemoveAt, Promise!RemoveAt
<1> QED BY <1>7, <1>8, <1>9 DEF Promise!RemoveItem, job

(* PrepareForFutureAck makes a raw job pending with nobody (prepareAck).   *)
LEMMA PrepareSeen ==
  ASSUME Inv, JobsInv', NEW o \in Owners, NEW job \in Jobs, Prepare(o, job)
  PROVE  Promise!Prepare(job)
<1> DEFINE id == UserId(prepared + 1)
<1>1. /\ fate[job] = "taken"
      /\ redis' = PrepareAck(redis, id, job, VT[o], now)
      /\ fate' = [fate EXCEPT ![job] = "live"]
  BY DEF Prepare
<1>2. prepared \in Nat /\ now \in Nat /\ fate \in [Jobs -> Fates]
  BY DEF Inv, JobsInv, HistoryOK, ClientsOK
<1>3. id.owner = NoOwner /\ id.index = prepared + 1
  BY DEF UserId
<1>4. /\ JobsInv /\ Agree(redis, fate) /\ Agree(redis', fate') /\ IsStore(redis)
  BY InvAgree DEF Inv, JobsInv, Conserved, Agree
<1>5. redis'.nacked = Put(redis.nacked, {id}, job) /\ redis'.queue = redis.queue
      /\ redis'.paused = redis.paused
  <2> DEFINE T == IF VT[o] > 0 THEN Put(redis.timeouts, {id}, now + VT[o]) ELSE redis.timeouts
  <2>1. redis' = [redis EXCEPT !.nacked = Put(redis.nacked, {id}, job), !.timeouts = T]
    BY <1>1 DEF PrepareAck
  <2> HIDE DEF id, T
  <2> QED BY <1>4, <2>1 DEF IsStore
<1> HIDE DEF id
<1>6. id \notin DOMAIN redis.nacked
  <2>1. ~(prepared + 1 <= prepared)
    BY <1>2
  <2> QED BY <1>3, <2>1, OwnersAssumption DEF Inv, JobsInv, CallerIdsUsed
<1>7. /\ DOMAIN redis'.nacked = DOMAIN redis.nacked \cup {id}
      /\ redis'.nacked[id] = job
      /\ \A x \in DOMAIN redis.nacked : redis'.nacked[x] = redis.nacked[x]
  BY <1>5, <1>6 DEF Put
<1>8. job \notin InRedis(redis)
  BY <1>1, <1>4 DEF Agree
<1>9. \A j \in Jobs \ {job} : fate'[j] = fate[j]
  BY <1>1, <1>2
<1>10. \A j \in Jobs \ {job} : j \in Range(redis'.nacked) => j \in Range(redis.nacked)
  <2> SUFFICES ASSUME NEW j \in Jobs, j # job, j \in Range(redis'.nacked)
               PROVE  j \in Range(redis.nacked)
    OBVIOUS
  <2>1. PICK x \in DOMAIN redis'.nacked : redis'.nacked[x] = j
    BY DEF Range
  <2>2. x \in DOMAIN redis.nacked /\ redis.nacked[x] = j
    BY <1>7, <2>1
  <2> QED BY <2>2 DEF Range
<1>11. StageIn(redis', fate')[job] = "pending"
  <2>1. job \in Range(redis'.nacked)
    BY <1>7 DEF Range
  <2> QED BY <1>4, <2>1, StageFacts
<1>12. HolderIn(redis')[job] = NoOwner
  BY <1>3, <1>4, <1>7, HolderFacts DEF Agree, Exclusive
<1>13. HolderIn(redis)[job] = NoOwner
  BY <1>4, <1>8, HolderFacts DEF Agree, Exclusive, InRedis
<1>14. OneSeen(job, "pending", NoOwner)
  BY <1>4, <1>5, <1>7, <1>9, <1>10, <1>11, <1>12, OneJobSeen
<1>15. HolderIn(redis') = HolderIn(redis)
  BY <1>13, <1>14, SameHolders DEF OneSeen
<1>16. StageIn(redis, fate)[job] = "taken"
  BY <1>1, <1>4, <1>8, StageFacts
<1>17. (redis'.paused # Absent) = (redis.paused # Absent)
  BY <1>5
<1> QED BY <1>5, <1>14, <1>15, <1>16, <1>17 DEF Promise!Prepare, OneSeen

(* Purge ends all of them (the key's one DEL).                             *)
LEMMA PurgeSeen ==
  ASSUME Inv, JobsInv', PurgeAll
  PROVE  Promise!Purge
<1>1. /\ redis' = Purge(redis)
      /\ fate' = [j \in Jobs |-> IF fate[j] = "live" THEN "gone" ELSE fate[j]]
  BY DEF PurgeAll
<1>2. Agree(redis, fate) /\ Agree(redis', fate') /\ IsStore(redis) /\ Sound(redis)
  BY InvAgree DEF Inv, JobsInv, Conserved, Agree
<1>3. InRedis(redis') = {}
  BY <1>1, <1>2, PurgeSound
<1>4. redis'.queue = <<>> /\ redis'.paused = redis.paused
  BY <1>1, <1>2 DEF Purge, IsStore
<1> DEFINE S == {j \in Jobs : StageIn(redis, fate)[j] \in {"queue", "pending"}}
<1>5. ASSUME NEW j \in Jobs
      PROVE  /\ StageIn(redis', fate')[j] = IF j \in S THEN "gone" ELSE StageIn(redis, fate)[j]
             /\ HolderIn(redis')[j] = IF j \in S THEN NoOwner ELSE HolderIn(redis)[j]
  <2>1. j \notin InRedis(redis') /\ j \notin Range(redis'.nacked)
    BY <1>3 DEF InRedis
  <2>2. StageIn(redis', fate')[j] = fate'[j] /\ HolderIn(redis')[j] = NoOwner
    BY <1>2, <2>1, StageFacts, HolderFacts DEF Agree, Exclusive
  <2>3. CASE j \in InRedis(redis)
    <3>1. j \in S
      BY <1>2, <2>3, StageFacts DEF InRedis
    <3>2. fate'[j] = "gone"
      BY <1>1, <1>2, <2>3 DEF Agree
    <3> QED BY <2>2, <3>1, <3>2
  <2>4. CASE j \notin InRedis(redis)
    <3>1. StageIn(redis, fate)[j] = fate[j] /\ fate[j] # "live" /\ HolderIn(redis)[j] = NoOwner
      BY <1>2, <2>4, StageFacts, HolderFacts DEF Agree, Exclusive, InRedis
    <3>2. fate'[j] = fate[j] /\ fate[j] \in Fates
      BY <1>1, <3>1 DEF Inv, JobsInv, HistoryOK
    <3>3. fate[j] \notin {"queue", "pending"}
      BY <3>2 DEF Fates, Kinds
    <3>4. j \notin S
      BY <3>1, <3>3
    <3> QED BY <2>2, <3>1, <3>2, <3>4
  <2> QED BY <2>3, <2>4
<1> HIDE DEF S
<1>6. StageIn(redis', fate') = Promise!Reach(S, "gone") /\ HolderIn(redis') = Promise!With(S, NoOwner)
  BY <1>5, StagesSeen, HoldersSeen
<1>7. (redis'.paused # Absent) = (redis.paused # Absent)
  BY <1>4
<1> QED BY <1>4, <1>6, <1>7 DEF Promise!Purge, S

(* Pause and Resume change nothing else (pauseScript, resumeScript).       *)
LEMMA PauseSeen ==
  ASSUME Inv, Pause \/ Resume
  PROVE  \E p \in BOOLEAN : Promise!SetPause(p)
<1>1. IsStore(redis) /\ now \in Nat \ {0} /\ redis.paused \in Nat
  BY InvAgree DEF Inv, ClientsOK, JobsInv, StoreOK
<1>2. redis' = PauseKey(redis, now) \/ redis' = ResumeKey(redis)
  BY DEF Pause, Resume
<1>3. redis'.queue = redis.queue /\ redis'.nacked = redis.nacked
  BY <1>1, <1>2 DEF PauseKey, ResumeKey, IsStore
<1>4. fate' = fate
  BY DEF Pause, Resume, history
<1>5. StageIn(redis', fate') = StageIn(redis, fate) /\ HolderIn(redis') = HolderIn(redis)
  BY <1>3, <1>4 DEF StageIn, HolderIn
<1>6. Promise!SetPause(redis'.paused # Absent)
  BY <1>3, <1>5 DEF Promise!SetPause
<1> QED BY <1>6

(* Sweeps, releases and requeues put jobs back, and touch no pause (start, *)
(* tick, release, requeue).                                                *)
LEMMA SweepSeen ==
  ASSUME Inv, NEW o \in Owners, Start(o) \/ Tick(o) \/ Release(o) \/ RequeueNackedItems(o)
  PROVE  \E S \in SUBSET {j \in Jobs : StageIn(redis, fate)[j] = "pending"} :
           \E front \in Promise!SetToSeqs(S) : Promise!PutBack(S, front)
<1>1. Keeps(redis, redis') /\ JobsInv' /\ JobsInv
  BY SweepJobs DEF Inv
<1>2. IsStore(redis)
  BY InvAgree DEF Inv
<1>3. redis'.paused = redis.paused
  <2>1. CASE Start(o)
    BY <1>2, <2>1, TicksSamePause DEF Start, SamePause
  <2>2. CASE Tick(o)
    BY <1>2, <2>2, TicksSamePause DEF Tick, SamePause
  <2>3. CASE Release(o)
    BY <1>2, <2>3, ReleasesSamePause DEF Release, CloseReleases, SamePause
  <2>4. CASE RequeueNackedItems(o)
    BY <1>2, <2>4, RequeuesSamePause DEF RequeueNackedItems, SamePause
  <2> QED BY <2>1, <2>2, <2>3, <2>4
<1>4. UNCHANGED fate
  BY DEF Start, Tick, Release, RequeueNackedItems, history
<1> QED BY <1>1, <1>3, <1>4, PutsBack

(* Every step of the queue is a step of what it promises, or is not seen.  *)
LEMMA StepSeen ==
  ASSUME AllInv, AllInv', Next
  PROVE  Promise!Next \/ UNCHANGED Promise!vars
<1>1. Inv /\ JobsInv'
  BY DEF AllInv, Inv
<1>2. CASE UNCHANGED <<redis, fate>>
  BY <1>2 DEF Promise!vars
<1>3. ASSUME NEW o \in Owners, Start(o) \/ Tick(o) \/ Release(o) \/ RequeueNackedItems(o)
      PROVE  Promise!Next
  BY <1>1, <1>3, SweepSeen DEF Promise!Next
<1>4. ASSUME NEW o \in Owners, NEW job \in Jobs, Prepare(o, job)
      PROVE  Promise!Next
  BY <1>1, <1>4, PrepareSeen DEF Promise!Next
<1>5. ASSUME NEW r \in Resv, RunPop(r)
      PROVE  Promise!Next \/ UNCHANGED Promise!vars
  <2>1. r.owner \in Owners
    BY DEF Resv
  <2> QED BY <1>1, <1>5, <2>1, RunPopSeen DEF Promise!Next
<1>6. ASSUME NEW a \in acks, RunFinish(a)
      PROVE  Promise!Next \/ UNCHANGED Promise!vars
  BY <1>1, <1>6, RunFinishSeen DEF Promise!Next
<1>7. ASSUME NEW i \in 1..Len(redis.queue), RemoveItem(i)
      PROVE  Promise!Next
  BY <1>1, <1>7, RemoveItemSeen DEF Promise!Next
<1>8. CASE Enqueue \/ Dequeue \/ PurgeAll \/ Pause \/ Resume
  BY <1>1, <1>8, EnqueueSeen, DequeueSeen, PurgeSeen, PauseSeen DEF Promise!Next
<1>9. ASSUME NEW o \in Owners, NEW want \in 1..MaxWant,
             \/ Close(o) \/ Crash(o) \/ Disconnect(o) \/ Reconnect(o)
             \/ ReserveKept(o) \/ SetAside(o) \/ ReserveFresh(o, want)
      PROVE  UNCHANGED <<redis, fate>>
  BY <1>9 DEF Close, Crash, Disconnect, Reconnect, ReserveKept, SetAside, ReserveFresh, history
<1>10. ASSUME NEW r \in Resv, NEW want \in 1..MaxWant,
              LoseCopy(r) \/ FailPop(r) \/ PutBack(r, want)
       PROVE  UNCHANGED <<redis, fate>>
  BY <1>10 DEF LoseCopy, FailPop, PutBack, history
<1>11. ASSUME NEW m \in held, NEW kind \in Kinds, BeginFinish(m, kind)
       PROVE  UNCHANGED <<redis, fate>>
  BY <1>11 DEF BeginFinish
<1>12. CASE Advance
  BY <1>2, <1>12 DEF Advance, history
<1>13. 1 \in 1..MaxWant
  BY BoundsAssumption
<1>14. CASE \E o \in Owners :
         \/ Start(o) \/ Tick(o) \/ Close(o) \/ Release(o) \/ Crash(o)
         \/ Disconnect(o) \/ Reconnect(o)
         \/ ReserveKept(o) \/ SetAside(o) \/ RequeueNackedItems(o)
         \/ \E want \in 1..MaxWant : ReserveFresh(o, want)
         \/ \E job \in Jobs : Prepare(o, job)
  BY <1>2, <1>3, <1>4, <1>9, <1>13, <1>14
<1>15. CASE \E r \in Resv :
         \/ RunPop(r) \/ LoseCopy(r) \/ FailPop(r)
         \/ \E want \in 1..MaxWant : PutBack(r, want)
  BY <1>2, <1>5, <1>10, <1>13, <1>15
<1> QED BY <1>2, <1>6, <1>7, <1>8, <1>11, <1>12, <1>14, <1>15 DEF Next

(* A new key shows an empty queue.                                         *)
LEMMA InitSeen ==
  ASSUME Init
  PROVE  Promise!Init
<1>1. redis = EmptyStore /\ fate = [j \in Jobs |-> "unborn"]
  BY DEF Init
<1>2. redis.queue = <<>> /\ redis.nacked = EmptyMap /\ redis.paused = Absent
  BY <1>1 DEF EmptyStore
<1>3. \A j : j \notin Range(redis.nacked)
  BY <1>2, EmptyFacts
<1>4. StageIn(redis, fate) = [j \in Jobs |-> "unborn"]
  BY <1>1 DEF StageIn
<1>5. HolderIn(redis) = [j \in Jobs |-> NoOwner]
  BY <1>3 DEF HolderIn
<1> QED BY <1>2, <1>4, <1>5 DEF Promise!Init

(* The queue keeps its promise: with every number of objects, jobs, copies *)
(* and calls, whatever is lost, re-sent, late, swept, closed or dead, its  *)
(* users see a ListQueue (queue.go).                                       *)
THEOREM QueueKeepsPromise == Spec => KeepsPromise
<1>1. Init => Promise!Init
  BY InitSeen
<1>2. AllInv /\ AllInv' /\ [Next]_vars => [Promise!Next]_(Promise!vars)
  <2> SUFFICES ASSUME AllInv, AllInv', [Next]_vars
               PROVE  Promise!Next \/ UNCHANGED Promise!vars
    OBVIOUS
  <2>1. CASE Next
    BY <2>1, StepSeen
  <2>2. CASE UNCHANGED vars
    BY <2>2 DEF vars, history, Promise!vars
  <2> QED BY <2>1, <2>2
<1> QED BY <1>1, <1>2, Invariance, PTL DEF Spec, KeepsPromise, Promise!Spec

(* The jobs that a step of the promise takes from the queue wait there.    *)
LEMMA WaitingSeen ==
  ASSUME JobsInv, NEW i \in 1..Len(redis.queue)
  PROVE  redis.queue[i] \in Jobs /\ StageIn(redis, fate)[redis.queue[i]] = "queue"
<1>1. Agree(redis, fate) /\ redis.queue \in Seq(Jobs)
  BY InvAgree
<1>2. redis.queue[i] \in Jobs /\ redis.queue[i] \in Range(redis.queue)
  BY <1>1, QueueFacts
<1> QED BY <1>1, <1>2, StageFacts

(* What a step of the promise does to a job that ended, and to one that    *)
(* stays pending.                                                          *)
LEMMA PromiseStep ==
  ASSUME JobsInv, Promise!Next, NEW j \in Jobs
  PROVE  LET was == StageIn(redis, fate)[j]
             is == StageIn(redis', fate')[j]
         IN  /\ was \in Promise!Ended => is = was
             /\ was = "pending" /\ is = "pending" => HolderIn(redis')[j] = HolderIn(redis)[j]
<1> DEFINE was == StageIn(redis, fate)[j]
           is == StageIn(redis', fate')[j]
           Done == /\ was \in Promise!Ended => is = was
                   /\ was = "pending" /\ is = "pending" =>
                        HolderIn(redis')[j] = HolderIn(redis)[j]
<1>1. \A S, to : StageIn(redis', fate') = Promise!Reach(S, to) =>
                   is = IF j \in S THEN to ELSE was
  BY DEF Promise!Reach
<1>2. \A S, h : HolderIn(redis') = Promise!With(S, h) =>
                  HolderIn(redis')[j] = IF j \in S THEN h ELSE HolderIn(redis)[j]
  BY DEF Promise!With
<1>3. \A i \in 1..Len(redis.queue) : StageIn(redis, fate)[redis.queue[i]] = "queue"
  BY WaitingSeen
<1>4. Promise!Ended = {"completed", "failed", "gone"}
  BY DEF Promise!Ended, Promise!Kinds
<1> HIDE DEF was, is
<1>5. ASSUME NEW k \in Jobs, Promise!Push(k) PROVE Done
  <2>1. StageIn(redis, fate)[k] = "unborn"
        /\ StageIn(redis', fate') = Promise!Reach({k}, "queue")
        /\ HolderIn(redis') = HolderIn(redis)
    BY <1>5 DEF Promise!Push
  <2> QED BY <1>1, <1>4, <2>1 DEF was
<1>6. ASSUME NEW k \in Jobs, Promise!Prepare(k) PROVE Done
  <2>1. StageIn(redis, fate)[k] = "taken"
        /\ StageIn(redis', fate') = Promise!Reach({k}, "pending")
        /\ HolderIn(redis') = HolderIn(redis)
    BY <1>6 DEF Promise!Prepare
  <2> QED BY <1>1, <1>4, <2>1 DEF was
<1>7. ASSUME NEW k \in Jobs, NEW kind \in Promise!Kinds, Promise!Finish(k, kind) PROVE Done
  <2>1. StageIn(redis, fate)[k] = "pending"
        /\ StageIn(redis', fate') = Promise!Reach({k}, kind)
        /\ HolderIn(redis') = Promise!With({k}, NoOwner)
    BY <1>7 DEF Promise!Finish
  <2>2. kind # "pending"
    BY <1>7 DEF Promise!Kinds
  <2> QED BY <1>1, <1>2, <1>4, <2>1, <2>2 DEF was
<1>8. ASSUME NEW h \in Owners, NEW n \in 1..Len(redis.queue), Promise!Take(h, n) PROVE Done
  <2> DEFINE S == {redis.queue[i] : i \in 1..n}
  <2>1. StageIn(redis', fate') = Promise!Reach(S, "pending")
        /\ HolderIn(redis') = Promise!With(S, h)
    BY <1>8 DEF Promise!Take
  <2>2. j \in S => was = "queue"
    <3>1. n <= Len(redis.queue) /\ Len(redis.queue) \in Nat
      BY InvAgree, LenProperties
    <3>2. \A i \in 1..n : i \in 1..Len(redis.queue)
      BY <3>1
    <3> QED BY <1>3, <3>2 DEF was
  <2> HIDE DEF S
  <2> QED BY <1>1, <1>2, <1>4, <2>1, <2>2
<1>9. ASSUME NEW S \in SUBSET {k \in Jobs : StageIn(redis, fate)[k] = "pending"},
             NEW front \in Promise!SetToSeqs(S), Promise!PutBack(S, front)
      PROVE  Done
  <2>1. StageIn(redis', fate') = Promise!Reach(S, "queue")
        /\ HolderIn(redis') = Promise!With(S, NoOwner)
    BY <1>9 DEF Promise!PutBack
  <2>2. j \in S => was = "pending"
    BY DEF was
  <2> QED BY <1>1, <1>2, <1>4, <2>1, <2>2
<1>10. ASSUME NEW i \in 1..Len(redis.queue), Promise!RemoveItem(i) PROVE Done
  <2>1. StageIn(redis', fate') = Promise!Reach({redis.queue[i]}, "gone")
        /\ HolderIn(redis') = HolderIn(redis)
    BY <1>10 DEF Promise!RemoveItem
  <2> QED BY <1>1, <1>3, <1>4, <2>1 DEF was
<1>11. CASE Promise!TakeRaw
  <2>1. StageIn(redis', fate') = Promise!Reach({Head(redis.queue)}, "taken")
        /\ HolderIn(redis') = HolderIn(redis) /\ redis.queue # <<>>
    BY <1>11 DEF Promise!TakeRaw
  <2>2. StageIn(redis, fate)[Head(redis.queue)] = "queue"
    <3>1. redis.queue \in Seq(Jobs)
      BY InvAgree
    <3>2. 1 \in 1..Len(redis.queue) /\ Head(redis.queue) = redis.queue[1]
      BY <2>1, <3>1, EmptySeq
    <3> QED BY <1>3, <3>2
  <2>3. is = IF j \in {Head(redis.queue)} THEN "taken" ELSE was
    BY <1>1, <2>1
  <2>4. j = Head(redis.queue) => was = "queue"
    BY <2>2 DEF was
  <2>5. was \in Promise!Ended => is = was
    BY <1>4, <2>3, <2>4
  <2> QED BY <2>1, <2>5 DEF was, is
<1>12. CASE Promise!Purge
  <2> DEFINE S == {k \in Jobs : StageIn(redis, fate)[k] \in {"queue", "pending"}}
  <2>1. StageIn(redis', fate') = Promise!Reach(S, "gone")
        /\ HolderIn(redis') = Promise!With(S, NoOwner)
    BY <1>12 DEF Promise!Purge
  <2>2. j \in S <=> was \in {"queue", "pending"}
    BY DEF was
  <2> HIDE DEF S
  <2>3. is = IF j \in S THEN "gone" ELSE was
    BY <1>1, <2>1
  <2>4. HolderIn(redis')[j] = IF j \in S THEN NoOwner ELSE HolderIn(redis)[j]
    BY <1>2, <2>1
  <2>5. was \in Promise!Ended => is = was
    BY <1>4, <2>2, <2>3
  <2>6. is = "pending" => j \notin S
    BY <2>3
  <2> QED BY <2>4, <2>5, <2>6 DEF was, is
<1>13. ASSUME NEW p \in BOOLEAN, Promise!SetPause(p) PROVE Done
  BY <1>13 DEF Promise!SetPause, was, is
<1> QED BY <1>5, <1>6, <1>7, <1>8, <1>9, <1>10, <1>11, <1>12, <1>13 DEF Promise!Next, was, is

(* Every step of the queue leaves the jobs that ended and the holders of   *)
(* the pending ones alone, as seen through the promise.                    *)
LEMMA PromiseSteps ==
  ASSUME AllInv, AllInv', [Next]_vars
  PROVE  /\ [Promise!EndedStay]_(Promise!vars)
         /\ [Promise!HolderStays]_(Promise!vars)
<1>1. CASE UNCHANGED vars
  BY <1>1 DEF vars, history, Promise!vars
<1>2. CASE Promise!Next
  <2>1. Promise!EndedStay
    BY <1>2, PromiseStep DEF AllInv, Inv, Promise!EndedStay
  <2>2. Promise!HolderStays
    BY <1>2, PromiseStep DEF AllInv, Inv, Promise!HolderStays
  <2> QED BY <2>1, <2>2
<1> QED BY <1>1, <1>2, StepSeen

(* A job that was acknowledged, rejected, removed or purged never comes    *)
(* back, whatever runs late (finishScript, Purge, Remove).                 *)
THEOREM JobsEndForGood == Spec => Promise!EndsForGood
<1>1. AllInv /\ AllInv' /\ [Next]_vars => [Promise!EndedStay]_(Promise!vars)
  BY PromiseSteps
<1> QED BY <1>1, Invariance, PTL DEF Spec, Promise!EndsForGood

(* While a job is pending its holder stays the same: it reaches another    *)
(* consumer only through the queue (popHead's re-send guard).              *)
THEOREM NeverHandedOver == Spec => Promise!NoHandover
<1>1. AllInv /\ AllInv' /\ [Next]_vars => [Promise!HolderStays]_(Promise!vars)
  BY PromiseSteps
<1> QED BY <1>1, Invariance, PTL DEF Spec, Promise!NoHandover

=============================================================================
