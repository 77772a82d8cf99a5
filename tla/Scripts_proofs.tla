--------------------------- MODULE Scripts_proofs ---------------------------
(***************************************************************************)
(* What each script does to the jobs a store holds, for every store: a     *)
(* pop, a finish, a requeue, a sweep or a release keeps each job in one    *)
(* place and moves only the jobs it is meant to.                           *)
(***************************************************************************)
EXTENDS Scripts, SequenceTheorems, FiniteSetTheorems, TLAPS

(* What the lemmas assume of a store, and show of the next one.            *)
Sound(s) == StoreOK(s) /\ Exclusive(s) /\ Covered(s)

(* The queue of t is that of s behind n jobs that were pending in s.       *)
Ahead(s, t, n) ==
  /\ Len(t.queue) = n + Len(s.queue)
  /\ \A i \in 1..n : t.queue[i] \in Range(s.nacked)
  /\ \A i \in 1..Len(s.queue) : t.queue[n + i] = s.queue[i]

(* t is s with nothing but jobs moved from pending to the queue's head.    *)
Requeued(s, t) ==
  /\ DOMAIN t.nacked \subseteq DOMAIN s.nacked
  /\ \A id \in DOMAIN t.nacked : t.nacked[id] = s.nacked[id]
  /\ \E n \in Nat : Ahead(s, t, n)

(* t holds the jobs of s, none under a new ack ID and none taken from the  *)
(* queue.                                                                  *)
Keeps(s, t) ==
  /\ Sound(t) /\ InRedis(t) = InRedis(s)
  /\ DOMAIN t.nacked \subseteq DOMAIN s.nacked
  /\ Range(s.queue) \subseteq Range(t.queue)
  /\ Requeued(s, t)

(* Jobs moved to the head by one script and by the next were moved there   *)
(* by both.                                                                *)
LEMMA RequeuedTransitive ==
  ASSUME NEW s, NEW t, NEW u, s.queue \in Seq(Jobs), Requeued(s, t), Requeued(t, u)
  PROVE  Requeued(s, u)
<1>1. PICK n \in Nat : Ahead(s, t, n)
  BY DEF Requeued
<1>2. PICK m \in Nat : Ahead(t, u, m)
  BY DEF Requeued
<1>3. Len(s.queue) \in Nat
  BY LenProperties
<1>4. Range(t.nacked) \subseteq Range(s.nacked)
  BY DEF Requeued, Range
<1>5. Len(u.queue) = (m + n) + Len(s.queue)
  <2>1. Len(t.queue) = n + Len(s.queue)
    BY <1>1 DEF Ahead
  <2>2. Len(u.queue) = m + (n + Len(s.queue))
    BY <1>2, <2>1 DEF Ahead
  <2>3. \A a, b, c \in Nat : a + (b + c) = (a + b) + c
    OBVIOUS
  <2>4. m \in Nat /\ n \in Nat
    OBVIOUS
  <2> QED BY <1>3, <2>2, <2>3, <2>4
<1>6. ASSUME NEW i \in 1..m + n PROVE u.queue[i] \in Range(s.nacked)
  <2>1. CASE i <= m
    BY <1>2, <1>4, <2>1 DEF Ahead
  <2>2. CASE ~(i <= m)
    <3>1. i - m \in 1..n /\ i - m \in 1..Len(t.queue) /\ m + (i - m) = i
      BY <1>1, <1>3, <2>2 DEF Ahead
    <3>2. u.queue[m + (i - m)] = t.queue[i - m]
      BY <1>2, <3>1 DEF Ahead
    <3> QED BY <1>1, <3>1, <3>2 DEF Ahead
  <2> QED BY <2>1, <2>2
<1>7. ASSUME NEW i \in 1..Len(s.queue) PROVE u.queue[(m + n) + i] = s.queue[i]
  <2>1. n + i \in 1..Len(t.queue) /\ m + (n + i) = (m + n) + i
    BY <1>1, <1>3 DEF Ahead
  <2>2. u.queue[m + (n + i)] = t.queue[n + i]
    BY <1>2, <2>1 DEF Ahead
  <2> QED BY <1>1, <2>1, <2>2 DEF Ahead
<1>8. Ahead(s, u, m + n) /\ m + n \in Nat
  BY <1>5, <1>6, <1>7 DEF Ahead
<1>9. \A id \in DOMAIN u.nacked : id \in DOMAIN s.nacked /\ u.nacked[id] = s.nacked[id]
  BY DEF Requeued
<1> QED BY <1>8, <1>9 DEF Requeued

(* A script that leaves the queue and the pending items alone moves none.  *)
LEMMA RequeuedNone ==
  ASSUME NEW s, NEW t, s.queue \in Seq(Jobs), t.queue = s.queue, t.nacked = s.nacked
  PROVE  Requeued(s, t)
<1>1. Len(s.queue) \in Nat
  BY LenProperties
<1>2. Ahead(s, t, 0)
  BY <1>1 DEF Ahead
<1> QED BY <1>2 DEF Requeued

(* Scripts that keep the jobs one after another keep them together.        *)
LEMMA KeepsTransitive ==
  ASSUME NEW s, NEW t, NEW u, Sound(s), Keeps(s, t), Keeps(t, u)
  PROVE  Keeps(s, u)
<1>1. Requeued(s, u)
  BY RequeuedTransitive DEF Keeps, Sound, StoreOK
<1> QED BY <1>1 DEF Keeps

(* A script that changes nothing keeps the jobs.                           *)
LEMMA KeepsSelf ==
  ASSUME NEW s, Sound(s)
  PROVE  Keeps(s, s)
<1>1. Requeued(s, s)
  BY RequeuedNone DEF Sound, StoreOK
<1> QED BY <1>1 DEF Keeps

(* The queue of a store as a function.                                     *)
LEMMA QueueFacts ==
  ASSUME NEW q \in Seq(Jobs)
  PROVE  /\ Len(q) \in Nat
         /\ DOMAIN q = 1..Len(q)
         /\ Range(q) = {q[i] : i \in 1..Len(q)}
         /\ \A i \in 1..Len(q) : q[i] \in Jobs
  BY LenProperties, RangeEquality, ElementOfSeq

(* Dropping keys leaves a smaller partial function.                        *)
LEMMA DropFacts ==
  ASSUME NEW f, NEW S, NEW A, NEW B, IsPartial(f, A, B)
  PROVE  /\ DOMAIN Drop(f, S) = DOMAIN f \ S
         /\ \A x \in DOMAIN f \ S : Drop(f, S)[x] = f[x]
         /\ IsPartial(Drop(f, S), A, B)
  BY DEF Drop, IsPartial

(* An ordering of a finite set is a sequence without repetitions.          *)
LEMMA OrderingFacts ==
  ASSUME NEW S, IsFiniteSet(S), NEW ids \in Orderings(S)
  PROVE  /\ ids \in Seq(S)
         /\ Len(ids) \in Nat
         /\ DOMAIN ids = 1..Len(ids)
         /\ \A i \in 1..Len(ids) : ids[i] \in S
         /\ \A i, j \in 1..Len(ids) : ids[i] = ids[j] => i = j
         /\ \A x \in S : \E i \in 1..Len(ids) : ids[i] = x
<1>1. Cardinality(S) \in Nat
  BY FS_CardinalityType
<1>2. ids \in [1..Cardinality(S) -> S]
  BY DEF Orderings
<1>3. ids \in Seq(S)
  BY <1>1, <1>2, SeqDef
<1>4. Len(ids) \in Nat /\ DOMAIN ids = 1..Len(ids)
  BY <1>3, LenProperties
<1> QED BY <1>2, <1>3, <1>4 DEF Orderings, IsInjective, Range

(* A requeue moves the pending jobs of S to the head of the queue and      *)
(* loses none.                                                             *)
LEMMA MoveSound ==
  ASSUME NEW s, Sound(s), NEW S,
         NEW ids \in Orderings(S \cap DOMAIN s.nacked)
  PROVE  /\ Keeps(s, Move(s, S, ids))
         /\ Move(s, S, ids).nacked = Drop(s.nacked, S)
         /\ Move(s, S, ids).timeouts = Drop(s.timeouts, S)
         /\ Move(s, S, ids).heartbeats = s.heartbeats
         /\ Move(s, S, ids).presence = s.presence
<1> DEFINE P == S \cap DOMAIN s.nacked
           n == Len(ids)
           items == [i \in 1..n |-> s.nacked[ids[i]]]
           rev == Reverse(items)
           t == Move(s, S, ids)
<1>1. IsFiniteSet(P)
  BY FS_Subset DEF Sound, StoreOK
<1>2. /\ n \in Nat
      /\ \A i \in 1..n : ids[i] \in P
      /\ \A i, j \in 1..n : ids[i] = ids[j] => i = j
      /\ \A x \in P : \E i \in 1..n : ids[i] = x
  BY <1>1, OrderingFacts
<1>3. /\ items \in Seq(Jobs) /\ Len(items) = n
      /\ \A i \in 1..n : items[i] = s.nacked[ids[i]]
  <2>1. \A i \in 1..n : s.nacked[ids[i]] \in Jobs
    BY <1>2 DEF Sound, StoreOK, IsPartial
  <2>2. items \in [1..n -> Jobs]
    BY <2>1
  <2>3. items \in Seq(Jobs)
    BY <1>2, <2>2, SeqDef
  <2>4. \A i \in 1..n : items[i] = s.nacked[ids[i]]
    OBVIOUS
  <2>5. Len(items) = n
    BY <1>2, <2>2, <2>3, LenProperties
  <2> QED BY <2>3, <2>4, <2>5
<1>4. /\ rev \in Seq(Jobs) /\ Len(rev) = n
      /\ \A i \in 1..n : rev[i] = s.nacked[ids[n - i + 1]]
  <2> HIDE DEF n, items, t
  <2>1. rev = [i \in 1..n |-> items[(n - i) + 1]]
    BY <1>3 DEF Reverse
  <2>2. \A i \in 1..n : (n - i) + 1 \in 1..n
    BY <1>2
  <2>3. \A i \in 1..n : items[i] \in Jobs
    BY <1>3, QueueFacts
  <2>4. rev \in [1..n -> Jobs]
    BY <2>1, <2>2, <2>3
  <2>5. rev \in Seq(Jobs)
    BY <1>2, <2>4, SeqDef
  <2>6. Len(rev) = n
    BY <1>2, <2>4, <2>5, LenProperties
  <2>7. \A i \in 1..n : rev[i] = s.nacked[ids[n - i + 1]]
    BY <1>3, <2>1, <2>2
  <2> QED BY <2>5, <2>6, <2>7
<1>5. s.queue \in Seq(Jobs) /\ Len(s.queue) \in Nat
  BY QueueFacts DEF Sound, StoreOK
<1>6. /\ t = [s EXCEPT !.queue = rev \o s.queue, !.nacked = Drop(s.nacked, S),
                       !.timeouts = Drop(s.timeouts, S)]
  BY DEF Move
<1>7. /\ t.queue = rev \o s.queue
      /\ t.nacked = Drop(s.nacked, S)
      /\ t.timeouts = Drop(s.timeouts, S)
      /\ t.heartbeats = s.heartbeats
      /\ t.presence = s.presence
      /\ t.clock = s.clock
      /\ t.paused = s.paused
      /\ IsStore(t)
  BY <1>6 DEF Sound, StoreOK, IsStore
<1>8. /\ t.queue \in Seq(Jobs)
      /\ Len(t.queue) = n + Len(s.queue)
      /\ \A i \in 1..n + Len(s.queue) :
           t.queue[i] = IF i <= n THEN s.nacked[ids[n - i + 1]] ELSE s.queue[i - n]
  <2> HIDE DEF n, items, rev, t
  <2>1. /\ rev \o s.queue \in Seq(Jobs)
        /\ Len(rev \o s.queue) = Len(rev) + Len(s.queue)
        /\ \A i \in 1..Len(rev) + Len(s.queue) : (rev \o s.queue)[i] =
              IF i <= Len(rev) THEN rev[i] ELSE s.queue[i - Len(rev)]
    BY <1>4, <1>5, ConcatProperties
  <2> QED BY <2>1, <1>2, <1>4, <1>5, <1>7
<1> HIDE DEF n, items, rev, t
<1>9. /\ DOMAIN t.nacked = DOMAIN s.nacked \ S
      /\ \A x \in DOMAIN s.nacked \ S : t.nacked[x] = s.nacked[x]
      /\ IsPartial(t.nacked, AckIds, Jobs)
      /\ IsPartial(t.timeouts, AckIds, Nat)
      /\ IsFiniteSet(DOMAIN t.nacked)
      /\ DOMAIN t.timeouts = DOMAIN s.timeouts \ S
  <2>1. IsFiniteSet(DOMAIN s.nacked \ S)
    BY FS_Subset DEF Sound, StoreOK
  <2>2. IsPartial(s.nacked, AckIds, Jobs) /\ IsPartial(s.timeouts, AckIds, Nat)
    BY DEF Sound, StoreOK
  <2>3. /\ DOMAIN Drop(s.nacked, S) = DOMAIN s.nacked \ S
        /\ \A x \in DOMAIN s.nacked \ S : Drop(s.nacked, S)[x] = s.nacked[x]
        /\ IsPartial(Drop(s.nacked, S), AckIds, Jobs)
    BY <2>2, DropFacts
  <2>4. /\ IsPartial(Drop(s.timeouts, S), AckIds, Nat)
        /\ DOMAIN Drop(s.timeouts, S) = DOMAIN s.timeouts \ S
    BY <2>2, DropFacts
  <2> QED BY <2>1, <2>3, <2>4, <1>7
<1>10. StoreOK(t)
  BY <1>7, <1>8, <1>9 DEF Sound, StoreOK
<1>11. /\ \A x, y \in DOMAIN s.nacked : s.nacked[x] = s.nacked[y] => x = y
       /\ \A i, j \in 1..Len(s.queue) : s.queue[i] = s.queue[j] => i = j
       /\ \A x \in DOMAIN s.nacked, i \in 1..Len(s.queue) : s.nacked[x] # s.queue[i]
  <2>1. \A x, y \in DOMAIN s.nacked : s.nacked[x] = s.nacked[y] => x = y
    BY DEF Sound, Exclusive, IsInjective
  <2>2. DOMAIN s.queue = 1..Len(s.queue)
    BY <1>5, QueueFacts
  <2>3. \A i, j \in 1..Len(s.queue) : s.queue[i] = s.queue[j] => i = j
    BY <2>2 DEF Sound, Exclusive, IsInjective
  <2>4. \A x \in DOMAIN s.nacked, i \in 1..Len(s.queue) : s.nacked[x] # s.queue[i]
    BY <2>2 DEF Sound, Exclusive, Range
  <2> QED BY <2>1, <2>3, <2>4
<1>12. DOMAIN t.queue = 1..n + Len(s.queue)
  BY <1>8, QueueFacts
<1>13. IsInjective(t.queue)
  <2> SUFFICES ASSUME NEW a \in 1..n + Len(s.queue), NEW b \in 1..n + Len(s.queue),
                      t.queue[a] = t.queue[b]
               PROVE  a = b
    BY <1>12 DEF IsInjective
  <2>1. CASE a <= n /\ b <= n
    <3>1. n - a + 1 \in 1..n /\ n - b + 1 \in 1..n
      BY <2>1, <1>2
    <3>2. s.nacked[ids[n - a + 1]] = s.nacked[ids[n - b + 1]]
      BY <2>1, <1>8
    <3>3. ids[n - a + 1] = ids[n - b + 1]
      BY <3>1, <3>2, <1>2, <1>11
    <3> QED BY <3>1, <3>3, <1>2
  <2>2. CASE a <= n /\ b > n
    <3>1. n - a + 1 \in 1..n /\ b - n \in 1..Len(s.queue)
      BY <2>2, <1>2, <1>5
    <3>2. s.nacked[ids[n - a + 1]] = s.queue[b - n]
      BY <2>2, <1>2, <1>5, <1>8
    <3> QED BY <3>1, <3>2, <1>2, <1>11
  <2>3. CASE a > n /\ b <= n
    <3>1. n - b + 1 \in 1..n /\ a - n \in 1..Len(s.queue)
      BY <2>3, <1>2, <1>5
    <3>2. s.nacked[ids[n - b + 1]] = s.queue[a - n]
      BY <2>3, <1>2, <1>5, <1>8
    <3> QED BY <3>1, <3>2, <1>2, <1>11
  <2>4. CASE a > n /\ b > n
    <3>1. a - n \in 1..Len(s.queue) /\ b - n \in 1..Len(s.queue)
      BY <2>4, <1>2, <1>5
    <3>2. t.queue[a] = s.queue[a - n] /\ t.queue[b] = s.queue[b - n]
      BY <2>4, <1>2, <1>5, <1>8
    <3>3. a - n = b - n
      BY <3>1, <3>2, <1>11
    <3> QED BY <3>3, <1>2, <1>5
  <2> QED BY <2>1, <2>2, <2>3, <2>4, <1>2, <1>5
<1>14. IsInjective(t.nacked)
  BY <1>9, <1>11 DEF IsInjective
<1>15. Range(t.queue) \cap Range(t.nacked) = {}
  <2> SUFFICES ASSUME NEW i \in 1..n + Len(s.queue), NEW x \in DOMAIN s.nacked \ S
               PROVE  t.queue[i] # t.nacked[x]
    BY <1>9, <1>12 DEF Range
  <2>1. CASE i <= n
    <3>1. n - i + 1 \in 1..n /\ t.queue[i] = s.nacked[ids[n - i + 1]]
      BY <2>1, <1>2, <1>8
    <3>2. ids[n - i + 1] \in S \cap DOMAIN s.nacked
      BY <3>1, <1>2
    <3> QED BY <3>1, <3>2, <1>9, <1>11
  <2>2. CASE i > n
    <3>1. i - n \in 1..Len(s.queue) /\ t.queue[i] = s.queue[i - n]
      BY <2>2, <1>2, <1>5, <1>8
    <3> QED BY <3>1, <1>9, <1>11
  <2> QED BY <2>1, <2>2, <1>2, <1>5
<1>16. InRedis(t) = InRedis(s)
  <2>1. ASSUME NEW j \in InRedis(t) PROVE j \in InRedis(s)
    <3>1. CASE \E i \in 1..n + Len(s.queue) : j = t.queue[i]
      <4> PICK i \in 1..n + Len(s.queue) : j = t.queue[i]
        BY <3>1
      <4>1. CASE i <= n
        BY <4>1, <1>2, <1>8 DEF InRedis, Range
      <4>2. CASE i > n
        <5>1. i - n \in 1..Len(s.queue) /\ j = s.queue[i - n]
          BY <4>2, <1>2, <1>5, <1>8
        <5> QED BY <5>1, <1>5, QueueFacts DEF InRedis
      <4> QED BY <4>1, <4>2, <1>2, <1>5
    <3>2. CASE \E x \in DOMAIN s.nacked \ S : j = t.nacked[x]
      BY <3>2, <1>9 DEF InRedis, Range
    <3> QED BY <2>1, <3>1, <3>2, <1>9, <1>12 DEF InRedis, Range
  <2>2. ASSUME NEW j \in InRedis(s) PROVE j \in InRedis(t)
    <3>1. CASE \E i \in 1..Len(s.queue) : j = s.queue[i]
      <4> PICK i \in 1..Len(s.queue) : j = s.queue[i]
        BY <3>1
      <4>1. i + n \in 1..n + Len(s.queue) /\ j = t.queue[i + n]
        BY <1>2, <1>5, <1>8
      <4> QED BY <4>1, <1>12 DEF InRedis, Range
    <3>2. CASE \E x \in DOMAIN s.nacked \cap S : j = s.nacked[x]
      <4> PICK x \in P : j = s.nacked[x]
        BY <3>2
      <4> PICK i \in 1..n : ids[i] = x
        BY <1>2
      <4>1. n - i + 1 \in 1..n /\ n - (n - i + 1) + 1 = i
        BY <1>2
      <4> DEFINE k == n - i + 1
      <4>2. k \in 1..n + Len(s.queue) /\ k <= n /\ n - k + 1 = i
        BY <4>1, <1>2, <1>5
      <4>3. t.queue[k] = s.nacked[ids[n - k + 1]]
        BY <4>2, <1>8
      <4> QED BY <4>2, <4>3, <1>12 DEF InRedis, Range
    <3>3. CASE \E x \in DOMAIN s.nacked \ S : j = s.nacked[x]
      BY <3>3, <1>9 DEF InRedis, Range
    <3> QED BY <2>2, <3>1, <3>2, <3>3, <1>5, QueueFacts DEF InRedis, Range
  <2> QED BY <2>1, <2>2
<1>17. Covered(t)
  BY <1>7, <1>9 DEF Covered, Sound
<1>18. Range(s.queue) \subseteq Range(t.queue)
  <2> SUFFICES ASSUME NEW i \in 1..Len(s.queue) PROVE s.queue[i] \in Range(t.queue)
    BY <1>5, QueueFacts
  <2>1. i + n \in 1..n + Len(s.queue) /\ s.queue[i] = t.queue[i + n]
    BY <1>2, <1>5, <1>8
  <2> QED BY <2>1, <1>12 DEF Range
<1>19. DOMAIN t.nacked \subseteq DOMAIN s.nacked
  BY <1>9
<1>20. Sound(t)
  BY <1>10, <1>13, <1>14, <1>15, <1>17 DEF Sound, Exclusive
<1>21. Requeued(s, t)
  <2>1. \A i \in 1..n : t.queue[i] \in Range(s.nacked)
    <3> TAKE i \in 1..n
    <3>1. n - i + 1 \in 1..n /\ i \in 1..n + Len(s.queue) /\ i <= n
      BY <1>2, <1>5
    <3>2. t.queue[i] = s.nacked[ids[n - i + 1]] /\ ids[n - i + 1] \in DOMAIN s.nacked
      BY <1>2, <1>8, <3>1
    <3> QED BY <3>2 DEF Range
  <2>2. \A i \in 1..Len(s.queue) : t.queue[n + i] = s.queue[i]
    <3> TAKE i \in 1..Len(s.queue)
    <3>1. n + i \in 1..n + Len(s.queue) /\ ~(n + i <= n) /\ (n + i) - n = i
      BY <1>2, <1>5
    <3> QED BY <1>8, <3>1
  <2>3. Ahead(s, t, n)
    BY <1>8, <2>1, <2>2 DEF Ahead
  <2> QED BY <1>2, <1>9, <2>3 DEF Requeued
<1> QED BY <1>7, <1>16, <1>18, <1>19, <1>20, <1>21 DEF t, Keeps

-----------------------------------------------------------------------------
(* Steps that leave the jobs and deadlines alone.                          *)

SameJobs(s, t) ==
  /\ IsStore(t)
  /\ t.queue = s.queue /\ t.nacked = s.nacked /\ t.timeouts = s.timeouts

(* A step that leaves the queue, the pending items and their deadlines     *)
(* alone keeps the jobs, as long as no owner of a pending item loses its   *)
(* heartbeat entry.                                                        *)
LEMMA SameJobsSound ==
  ASSUME NEW s, Sound(s), NEW t, SameJobs(s, t),
         t.clock \in Nat, t.paused \in Nat,
         IsPartial(t.heartbeats, Owners, Nat), IsPartial(t.presence, Owners, Nat),
         \A id \in DOMAIN s.nacked :
           id.owner \in Owners /\ HBT[id.owner] > 0 => id.owner \in DOMAIN t.heartbeats
  PROVE  Keeps(s, t)
<1>1. StoreOK(t)
  BY DEF Sound, StoreOK, SameJobs
<1>2. Exclusive(t) /\ Covered(t)
  BY DEF Sound, Exclusive, Covered, SameJobs
<1>3. Requeued(s, t)
  BY RequeuedNone DEF Sound, StoreOK, SameJobs
<1> QED BY <1>1, <1>2, <1>3 DEF Keeps, Sound, InRedis, SameJobs

(* beat() keeps the jobs and leaves its owner a heartbeat entry (beatFn).  *)
LEMMA BeatSound ==
  ASSUME NEW s, Sound(s), NEW o \in Owners, NEW now \in Nat
  PROVE  /\ Keeps(s, Beat(s, o, now)) /\ SameJobs(s, Beat(s, o, now))
         /\ HBT[o] > 0 => o \in DOMAIN Beat(s, o, now).heartbeats
<1> DEFINE t == Beat(s, o, now)
           h == IF HBT[o] > 0 THEN Put(s.heartbeats, {o}, now + HBT[o]) ELSE s.heartbeats
<1>1. t = [s EXCEPT !.heartbeats = h]
  BY DEF Beat
<1>2. /\ SameJobs(s, t) /\ t.heartbeats = h /\ t.presence = s.presence
      /\ t.clock = s.clock /\ t.paused = s.paused
  BY <1>1 DEF Sound, StoreOK, IsStore, SameJobs
<1>3. HBT[o] \in Nat /\ now + HBT[o] \in Nat
  BY TimeoutAssumption
<1>4. IsPartial(s.heartbeats, Owners, Nat)
  BY DEF Sound, StoreOK
<1>5. /\ IsPartial(h, Owners, Nat) /\ DOMAIN s.heartbeats \subseteq DOMAIN h
      /\ HBT[o] > 0 => o \in DOMAIN h
  <2> DEFINE v == now + HBT[o]
             S == {o}
  <2>1. S \subseteq Owners /\ v \in Nat
    BY <1>3
  <2> HIDE DEF v, S
  <2>2. /\ DOMAIN Put(s.heartbeats, S, v) = DOMAIN s.heartbeats \cup S
        /\ IsPartial(Put(s.heartbeats, S, v), Owners, Nat)
    BY <2>1, <1>4 DEF Put, IsPartial
  <2> QED BY <2>2, <1>4 DEF v, S
<1> HIDE DEF t, h
<1>6. Keeps(s, t)
  BY <1>2, <1>5, SameJobsSound DEF Sound, StoreOK, Covered
<1> QED BY <1>2, <1>5, <1>6 DEF t

(* The stall shift of a sweep keeps the jobs (tickBody).                   *)
LEMMA ShiftSound ==
  ASSUME NEW s, Sound(s), NEW now \in Nat
  PROVE  Keeps(s, Shift(s, now))
<1>1. CASE ~(s.clock # Absent /\ now - s.clock > SweepGap)
  BY <1>1, KeepsSelf DEF Shift
<1>2. CASE s.clock # Absent /\ now - s.clock > SweepGap
  <2> DEFINE gap == now - s.clock
             h == [m \in DOMAIN s.heartbeats |-> s.heartbeats[m] + gap]
             p == [m \in DOMAIN s.presence |->
                     IF s.presence[m] = Subscribed THEN s.presence[m] ELSE s.presence[m] + gap]
             t == Shift(s, now)
  <2>1. t = [s EXCEPT !.heartbeats = h, !.presence = p]
    BY <1>2 DEF Shift
  <2>2. gap \in Nat
    BY <1>2, TimeoutAssumption DEF Sound, StoreOK
  <2>3. /\ SameJobs(s, t) /\ t.heartbeats = h /\ t.presence = p
        /\ t.clock = s.clock /\ t.paused = s.paused
    BY <2>1 DEF Sound, StoreOK, IsStore, SameJobs
  <2>4. IsPartial(s.heartbeats, Owners, Nat) /\ IsPartial(s.presence, Owners, Nat)
    BY DEF Sound, StoreOK
  <2> HIDE DEF gap
  <2>5. /\ IsPartial(h, Owners, Nat) /\ DOMAIN h = DOMAIN s.heartbeats
        /\ IsPartial(p, Owners, Nat)
    BY <2>2, <2>4 DEF IsPartial, Subscribed
  <2> HIDE DEF t, h, p
  <2> QED BY <2>3, <2>5, SameJobsSound DEF t, Sound, StoreOK, Covered
<1> QED BY <1>1, <1>2

(* So does setting the sweep clock.                                        *)
LEMMA ClockSound ==
  ASSUME NEW s, Sound(s), NEW c \in Nat
  PROVE  LET t == [s EXCEPT !.clock = c]
         IN  Keeps(s, t)
<1> DEFINE t == [s EXCEPT !.clock = c]
<1>1. /\ SameJobs(s, t) /\ t.heartbeats = s.heartbeats /\ t.presence = s.presence
      /\ t.clock = c /\ t.paused = s.paused
  BY DEF Sound, StoreOK, IsStore, SameJobs
<1> HIDE DEF t
<1>2. Keeps(s, t)
  BY <1>1, SameJobsSound DEF Sound, StoreOK, Covered
<1> QED BY <1>2 DEF t

(* So does renewing or dropping the sweeper's own heartbeat.               *)
LEMMA RenewOwnSound ==
  ASSUME NEW s, Sound(s), NEW o \in Owners, NEW now \in Nat
  PROVE  Keeps(s, RenewOwn(s, o, now))
<1> DEFINE t == RenewOwn(s, o, now)
<1>1. IsPartial(s.heartbeats, Owners, Nat) /\ IsPartial(s.presence, Owners, Nat)
  BY DEF Sound, StoreOK
<1>2. HBT[o] \in Nat /\ now + HBT[o] \in Nat
  BY TimeoutAssumption
<1>3. CASE o \notin DOMAIN s.heartbeats
  BY <1>3, KeepsSelf DEF RenewOwn
<1>4. CASE o \in DOMAIN s.heartbeats /\ HBT[o] > 0
  <2> DEFINE h == [s.heartbeats EXCEPT ![o] = now + HBT[o]]
             p == [m \in DOMAIN s.presence |-> IF m = o THEN Subscribed ELSE s.presence[m]]
  <2>1. t = [s EXCEPT !.heartbeats = h, !.presence = p]
    BY <1>4 DEF RenewOwn, Sound, StoreOK, IsStore
  <2>2. /\ SameJobs(s, t) /\ t.heartbeats = h /\ t.presence = p
        /\ t.clock = s.clock /\ t.paused = s.paused
    BY <2>1 DEF Sound, StoreOK, IsStore, SameJobs
  <2>3. /\ IsPartial(h, Owners, Nat) /\ DOMAIN h = DOMAIN s.heartbeats
        /\ IsPartial(p, Owners, Nat)
    BY <1>1, <1>2 DEF IsPartial, Subscribed
  <2> HIDE DEF t, h, p
  <2> QED BY <2>2, <2>3, SameJobsSound DEF t, Sound, StoreOK, Covered
<1>5. CASE o \in DOMAIN s.heartbeats /\ ~(HBT[o] > 0)
  <2> DEFINE h == Drop(s.heartbeats, {o})
             p == Drop(s.presence, {o})
  <2>1. t = [s EXCEPT !.heartbeats = h, !.presence = p]
    BY <1>5 DEF RenewOwn
  <2>2. /\ SameJobs(s, t) /\ t.heartbeats = h /\ t.presence = p
        /\ t.clock = s.clock /\ t.paused = s.paused
    BY <2>1 DEF Sound, StoreOK, IsStore, SameJobs
  <2>3. /\ IsPartial(h, Owners, Nat) /\ DOMAIN h = DOMAIN s.heartbeats \ {o}
        /\ IsPartial(p, Owners, Nat)
    BY <1>1, DropFacts
  <2>4. \A id \in DOMAIN s.nacked :
          id.owner \in Owners /\ HBT[id.owner] > 0 => id.owner \in DOMAIN h
    BY <1>5, <2>3 DEF Sound, Covered
  <2> HIDE DEF t, h, p
  <2> QED BY <2>2, <2>3, <2>4, SameJobsSound DEF t, Sound, StoreOK
<1> QED BY <1>3, <1>4, <1>5

(* So does marking who is subscribed.                                      *)
LEMMA MarkPresenceSound ==
  ASSUME NEW s, Sound(s), NEW now \in Nat, NEW subs \in SUBSET Owners
  PROVE  Keeps(s, MarkPresence(s, now, subs))
<1> DEFINE seen == Live(s, now) \cap subs
           lost == {m \in (Live(s, now) \ subs) \cap DOMAIN s.presence :
                      s.presence[m] = Subscribed}
           p == Put(Put(s.presence, seen, Subscribed), lost, now)
           t == MarkPresence(s, now, subs)
<1>1. t = [s EXCEPT !.presence = p]
  BY DEF MarkPresence
<1>2. /\ SameJobs(s, t) /\ t.heartbeats = s.heartbeats /\ t.presence = p
      /\ t.clock = s.clock /\ t.paused = s.paused
  BY <1>1 DEF Sound, StoreOK, IsStore, SameJobs
<1>3. IsPartial(s.presence, Owners, Nat)
  BY DEF Sound, StoreOK
<1>4. seen \subseteq Owners /\ lost \subseteq Owners
  BY <1>3 DEF IsPartial
<1>5. Subscribed \in Nat
  BY DEF Subscribed
<1> HIDE DEF seen, lost, t
<1>6. IsPartial(Put(s.presence, seen, Subscribed), Owners, Nat)
  BY <1>3, <1>4, <1>5 DEF Put, IsPartial
<1>7. IsPartial(p, Owners, Nat)
  BY <1>4, <1>6 DEF Put, IsPartial
<1> HIDE DEF p
<1>8. Keeps(s, t)
  BY <1>2, <1>7, SameJobsSound DEF Sound, StoreOK, Covered
<1> QED BY <1>8 DEF t

-----------------------------------------------------------------------------
(* Pops.                                                                   *)

(* The fields of an ack ID that a reservation makes (ackIDOf).             *)
LEMMA IdFacts ==
  ASSUME NEW r \in Reservations, NEW i \in 1..r.want
  PROVE  /\ IdOf(r, i) \in AckIds
         /\ IdOf(r, i).owner = r.owner
         /\ IdOf(r, i).index = i
         /\ r.owner \in Owners /\ r.want \in Nat
  BY DEF Reservations, IdOf, AckIds

(* The first n IDs of a reservation.                                       *)
LEMMA FirstIds ==
  ASSUME NEW r \in Reservations, NEW n \in Nat, n <= r.want
  PROVE  LET ids == {IdOf(r, i) : i \in 1..n}
         IN  /\ ids \subseteq AckIds /\ IsFiniteSet(ids)
             /\ \A id \in ids : id.owner = r.owner /\ id.index \in 1..n
                                /\ id = IdOf(r, id.index)
<1> DEFINE ids == {IdOf(r, i) : i \in 1..n}
           f == [i \in 1..n |-> IdOf(r, i)]
<1>1. r.want \in Nat /\ \A i \in 1..n : i \in 1..r.want
  BY DEF Reservations
<1>2. \A i \in 1..n : /\ IdOf(r, i) \in AckIds /\ IdOf(r, i).owner = r.owner
                      /\ IdOf(r, i).index = i
  BY <1>1, IdFacts
<1>3. f \in Surjection(1..n, ids)
  BY DEF Surjection
<1>4. IsFiniteSet(1..n)
  BY FS_Interval
<1>5. IsFiniteSet(ids)
  BY <1>3, <1>4, FS_Surjection
<1> QED BY <1>2, <1>5

(* A pop that hands back an earlier run's items moves nothing.             *)
LEMMA HandBackSound ==
  ASSUME NEW s, Sound(s), NEW r \in Reservations, NEW now \in Nat
  PROVE  Keeps(s, HandBack(s, r, now))
<1> DEFINE run == {IdOf(r, i) : i \in Leading(s, r)}
           dl == now + VT[r.owner]
           raised == {id \in run : id \notin DOMAIN s.timeouts \/ s.timeouts[id] < dl}
           T == IF VT[r.owner] > 0 THEN Put(s.timeouts, raised, dl) ELSE s.timeouts
           t == [s EXCEPT !.timeouts = T]
<1>1. HandBack(s, r, now) = IF run = {} THEN t ELSE Beat(t, r.owner, now)
  BY DEF HandBack
<1>2. r.owner \in Owners /\ VT[r.owner] \in Nat /\ dl \in Nat
  BY TimeoutAssumption DEF Reservations
<1>3. run \subseteq DOMAIN s.nacked
  BY DEF Leading, Reservations
<1>4. DOMAIN s.nacked \subseteq AckIds /\ IsPartial(s.timeouts, AckIds, Nat)
  BY DEF Sound, StoreOK, IsPartial
<1>5. raised \subseteq run
  OBVIOUS
<1> HIDE DEF run, dl, raised
<1>6. /\ IsPartial(T, AckIds, Nat) /\ DOMAIN s.timeouts \subseteq DOMAIN T
      /\ DOMAIN T \subseteq DOMAIN s.nacked
  <2>1. raised \subseteq AckIds
    BY <1>3, <1>4, <1>5
  <2>2. /\ IsPartial(Put(s.timeouts, raised, dl), AckIds, Nat)
        /\ DOMAIN Put(s.timeouts, raised, dl) = DOMAIN s.timeouts \cup raised
    BY <1>2, <1>4, <2>1 DEF Put, IsPartial
  <2>3. DOMAIN s.timeouts \subseteq DOMAIN s.nacked
    BY DEF Sound, Covered
  <2> QED BY <2>2, <2>3, <1>3, <1>4, <1>5
<1> HIDE DEF T
<1>7. /\ IsStore(t) /\ t.queue = s.queue /\ t.nacked = s.nacked /\ t.timeouts = T
      /\ t.heartbeats = s.heartbeats /\ t.presence = s.presence
      /\ t.clock = s.clock /\ t.paused = s.paused
  BY DEF Sound, StoreOK, IsStore
<1> HIDE DEF t
<1>8. StoreOK(t)
  BY <1>6, <1>7 DEF Sound, StoreOK
<1>9. Exclusive(t) /\ Covered(t)
  BY <1>6, <1>7 DEF Sound, Exclusive, Covered
<1>10. Keeps(s, t)
  <2>1. Requeued(s, t)
    BY <1>7, RequeuedNone DEF Sound, StoreOK
  <2> QED BY <1>7, <1>8, <1>9, <2>1 DEF Keeps, Sound, InRedis
<1>11. Keeps(s, Beat(t, r.owner, now))
  <2>1. Sound(t)
    BY <1>10 DEF Keeps
  <2>2. Keeps(t, Beat(t, r.owner, now))
    BY <1>2, <2>1, BeatSound
  <2> QED BY <1>10, <2>2, KeepsTransitive
<1> QED BY <1>1, <1>10, <1>11

(* A pop that hands back moves no job.                                     *)
LEMMA HandBackMovesNone ==
  ASSUME NEW s, Sound(s), NEW r, NEW now
  PROVE  HandBack(s, r, now).queue = s.queue /\ HandBack(s, r, now).nacked = s.nacked
<1>1. IsStore(s)
  BY DEF Sound, StoreOK
<1> QED BY <1>1 DEF HandBack, Beat, IsStore

(* t is s with the first n jobs of its queue pending under the first n IDs *)
(* of reservation r.                                                       *)
Popped(s, t, r, n) ==
  /\ n <= Len(s.queue) /\ n <= r.want
  /\ Len(t.queue) = Len(s.queue) - n
  /\ \A i \in 1..Len(s.queue) - n : t.queue[i] = s.queue[n + i]
  /\ DOMAIN t.nacked = DOMAIN s.nacked \cup {IdOf(r, i) : i \in 1..n}
  /\ \A id \in DOMAIN s.nacked : t.nacked[id] = s.nacked[id]
  /\ \A i \in 1..n : t.nacked[IdOf(r, i)] = s.queue[i]

(* A script that leaves the queue and the pending items alone popped none. *)
LEMMA PoppedNone ==
  ASSUME NEW s, NEW t, NEW r \in Reservations, s.queue \in Seq(Jobs),
         t.queue = s.queue, t.nacked = s.nacked
  PROVE  Popped(s, t, r, 0)
<1>1. Len(s.queue) \in Nat /\ r.want \in Nat
  BY LenProperties DEF Reservations
<1>2. 0 <= Len(s.queue) /\ 0 <= r.want /\ Len(s.queue) - 0 = Len(s.queue)
  BY <1>1
<1>3. \A i \in 1..Len(s.queue) : 0 + i = i
  BY <1>1
<1>4. {IdOf(r, i) : i \in 1..0} = {}
  OBVIOUS
<1> QED BY <1>2, <1>3, <1>4 DEF Popped

(* A pop moves the head of the queue to pending, under IDs that are not    *)
(* pending yet.                                                            *)
LEMMA PopFreshSound ==
  ASSUME NEW s, Sound(s), NEW r \in Reservations, NEW now \in Nat,
         Ids(r) \cap DOMAIN s.nacked = {}
  PROVE  LET u == PopFresh(s, r, now)
         IN  /\ Sound(u) /\ InRedis(u) = InRedis(s)
             /\ \A id \in DOMAIN u.nacked : id \in DOMAIN s.nacked \/ id.owner \in Owners
             /\ \E n \in Nat : Popped(s, u, r, n)
<1> DEFINE L == Len(s.queue)
           n == IF L < r.want THEN L ELSE r.want
           ids == {IdOf(r, i) : i \in 1..n}
           dl == now + VT[r.owner]
           Q == SubSeq(s.queue, n + 1, L)
           N == [id \in DOMAIN s.nacked \cup ids |->
                   IF id \in ids THEN s.queue[id.index] ELSE s.nacked[id]]
           T == IF VT[r.owner] > 0 THEN Put(s.timeouts, ids, dl) ELSE s.timeouts
           t == [s EXCEPT !.queue = Q, !.nacked = N, !.timeouts = T]
<1>1. PopFresh(s, r, now) = IF n = 0 THEN t ELSE Beat(t, r.owner, now)
  BY DEF PopFresh
<1>2. /\ s.queue \in Seq(Jobs) /\ L \in Nat /\ DOMAIN s.queue = 1..L
      /\ \A i \in 1..L : s.queue[i] \in Jobs
  BY QueueFacts DEF Sound, StoreOK
<1>3. /\ r.owner \in Owners /\ r.want \in Nat /\ VT[r.owner] \in Nat /\ dl \in Nat
      /\ n \in Nat /\ n <= L /\ n <= r.want
  BY <1>2, TimeoutAssumption DEF Reservations
<1> HIDE DEF L, n, dl
<1>4. /\ ids \subseteq AckIds /\ IsFiniteSet(ids)
      /\ \A id \in ids : id.owner = r.owner /\ id.index \in 1..n
                         /\ id = IdOf(r, id.index)
  BY <1>3, FirstIds
<1>5. ids \cap DOMAIN s.nacked = {}
  <2>1. ids \subseteq Ids(r)
    BY <1>3 DEF Ids
  <2> QED BY <2>1
<1>6. \A i \in 1..n : IdOf(r, i) \in ids /\ IdOf(r, i).index = i
  BY <1>3, IdFacts
<1> DEFINE first == {IdOf(r, i) : i \in 1..n}
<1>6a. ids = first /\ L = Len(s.queue)
  BY DEF L
<1> HIDE DEF ids
<1>7. /\ Q \in Seq(Jobs) /\ Len(Q) = L - n
      /\ \A i \in 1..L - n : Q[i] = s.queue[n + i]
      /\ DOMAIN Q = 1..L - n
  <2>1. \A i \in n + 1 .. L : s.queue[i] \in Jobs
    BY <1>2, <1>3
  <2>2. /\ Q \in Seq(Jobs)
        /\ Len(Q) = IF n + 1 <= L THEN L - (n + 1) + 1 ELSE 0
        /\ \A i \in 1..L - (n + 1) + 1 : Q[i] = s.queue[n + 1 + i - 1]
    BY <1>2, <1>3, <2>1, SubSeqProperties
  <2>3. Len(Q) = L - n
    BY <2>2, <1>2, <1>3
  <2>4. \A i \in 1..L - n : Q[i] = s.queue[n + i]
    <3> TAKE i \in 1..L - n
    <3>1. i \in 1..L - (n + 1) + 1 /\ n + 1 + i - 1 = n + i
      BY <1>2, <1>3
    <3> QED BY <2>2, <3>1
  <2> HIDE DEF Q
  <2> QED BY <2>2, <2>3, <2>4, QueueFacts
<1>8. IsPartial(s.nacked, AckIds, Jobs) /\ IsPartial(s.timeouts, AckIds, Nat)
  BY DEF Sound, StoreOK
<1>9. /\ DOMAIN N = DOMAIN s.nacked \cup ids
      /\ \A id \in ids : N[id] = s.queue[id.index]
      /\ \A id \in DOMAIN s.nacked : N[id] = s.nacked[id]
      /\ IsPartial(N, AckIds, Jobs) /\ IsFiniteSet(DOMAIN N)
  <2>1. \A id \in ids : id.index \in 1..L
    BY <1>2, <1>3, <1>4
  <2>2. IsFiniteSet(DOMAIN s.nacked \cup ids)
    BY <1>4, FS_Union DEF Sound, StoreOK
  <2> QED BY <1>2, <1>4, <1>5, <1>8, <2>1, <2>2 DEF IsPartial
<1>10. /\ IsPartial(T, AckIds, Nat)
       /\ DOMAIN T = DOMAIN s.timeouts \cup (IF VT[r.owner] > 0 THEN ids ELSE {})
  <2>1. /\ IsPartial(Put(s.timeouts, ids, dl), AckIds, Nat)
        /\ DOMAIN Put(s.timeouts, ids, dl) = DOMAIN s.timeouts \cup ids
    BY <1>3, <1>4, <1>8 DEF Put, IsPartial
  <2> QED BY <2>1, <1>8
<1> HIDE DEF Q, N, T
<1>11. /\ IsStore(t) /\ t.queue = Q /\ t.nacked = N /\ t.timeouts = T
       /\ t.heartbeats = s.heartbeats /\ t.presence = s.presence
       /\ t.clock = s.clock /\ t.paused = s.paused
  <2>1. IsStore(s)
    BY DEF Sound, StoreOK
  <2>2. t = [s EXCEPT !.queue = Q, !.nacked = N, !.timeouts = T]
    OBVIOUS
  <2> HIDE DEF t
  <2> QED BY <2>1, <2>2 DEF IsStore
<1> HIDE DEF t
<1>12. StoreOK(t)
  BY <1>7, <1>9, <1>10, <1>11 DEF Sound, StoreOK
<1>12a. Popped(s, t, r, n)
  <2>1. \A i \in 1..n : N[IdOf(r, i)] = s.queue[i]
    BY <1>6, <1>9
  <2>2. DOMAIN N = DOMAIN s.nacked \cup first
    BY <1>9, <1>6a
  <2>3. \A i \in 1..L - n : Q[i] = s.queue[n + i]
    BY <1>7
  <2> QED BY <1>3, <1>7, <1>9, <1>11, <1>6a, <2>1, <2>2, <2>3 DEF Popped
<1>13. /\ \A x, y \in DOMAIN s.nacked : s.nacked[x] = s.nacked[y] => x = y
       /\ \A i, j \in 1..L : s.queue[i] = s.queue[j] => i = j
       /\ \A x \in DOMAIN s.nacked, i \in 1..L : s.nacked[x] # s.queue[i]
  BY <1>2 DEF Sound, Exclusive, IsInjective, Range
<1>14. IsInjective(Q)
  <2> SUFFICES ASSUME NEW a \in 1..L - n, NEW b \in 1..L - n, Q[a] = Q[b]
               PROVE  a = b
    BY <1>7 DEF IsInjective
  <2>1. n + a \in 1..L /\ n + b \in 1..L /\ s.queue[n + a] = s.queue[n + b]
    BY <1>2, <1>3, <1>7
  <2> QED BY <2>1, <1>3, <1>13
<1>15. IsInjective(N)
  <2> SUFFICES ASSUME NEW a \in DOMAIN s.nacked \cup ids, NEW b \in DOMAIN s.nacked \cup ids,
                      N[a] = N[b]
               PROVE  a = b
    BY <1>9 DEF IsInjective
  <2>1. \A id \in ids : id.index \in 1..L
    BY <1>2, <1>3, <1>4
  <2>2. CASE a \in ids /\ b \in ids
    <3>1. a.index = b.index
      BY <2>1, <2>2, <1>9, <1>13
    <3> QED BY <2>2, <3>1, <1>4
  <2>3. CASE a \notin ids \/ b \notin ids
    BY <2>1, <2>3, <1>9, <1>13
  <2> QED BY <2>2, <2>3
<1>16. Range(Q) \cap Range(N) = {}
  <2> SUFFICES ASSUME NEW i \in 1..L - n, NEW id \in DOMAIN s.nacked \cup ids
               PROVE  Q[i] # N[id]
    BY <1>7, <1>9 DEF Range
  <2>1. n + i \in 1..L /\ Q[i] = s.queue[n + i]
    BY <1>2, <1>3, <1>7
  <2>2. CASE id \in ids
    <3>1. id.index \in 1..L /\ id.index # n + i
      BY <2>2, <1>2, <1>3, <1>4
    <3> QED BY <2>1, <2>2, <3>1, <1>9, <1>13
  <2>3. CASE id \in DOMAIN s.nacked
    BY <2>1, <2>3, <1>9, <1>13
  <2> QED BY <2>2, <2>3
<1>17. InRedis(t) = InRedis(s)
  <2>1. ASSUME NEW j \in InRedis(t) PROVE j \in InRedis(s)
    <3>1. CASE \E i \in 1..L - n : j = Q[i]
      <4> PICK i \in 1..L - n : j = Q[i]
        BY <3>1
      <4>1. n + i \in 1..L /\ j = s.queue[n + i]
        BY <1>2, <1>3, <1>7
      <4> QED BY <4>1, <1>2 DEF InRedis, Range
    <3>2. CASE \E id \in ids : j = N[id]
      <4> PICK id \in ids : j = N[id]
        BY <3>2
      <4>1. id.index \in 1..L /\ j = s.queue[id.index]
        BY <1>2, <1>3, <1>4, <1>9
      <4> QED BY <4>1, <1>2 DEF InRedis, Range
    <3>3. CASE \E id \in DOMAIN s.nacked : j = N[id]
      BY <3>3, <1>9 DEF InRedis, Range
    <3> QED BY <2>1, <3>1, <3>2, <3>3, <1>7, <1>9, <1>11 DEF InRedis, Range
  <2>2. ASSUME NEW j \in InRedis(s) PROVE j \in InRedis(t)
    <3>1. CASE \E i \in 1..L : j = s.queue[i]
      <4> PICK i \in 1..L : j = s.queue[i]
        BY <3>1
      <4>1. CASE i <= n
        <5>1. IdOf(r, i) \in ids /\ N[IdOf(r, i)] = j
          BY <4>1, <1>3, <1>6, <1>9
        <5> QED BY <5>1, <1>9, <1>11 DEF InRedis, Range
      <4>2. CASE i > n
        <5>1. i - n \in 1..L - n /\ Q[i - n] = j
          <6>1. i - n \in 1..L - n /\ n + (i - n) = i
            BY <4>2, <1>2, <1>3
          <6> QED BY <6>1, <1>7
        <5> QED BY <5>1, <1>7, <1>11 DEF InRedis, Range
      <4> QED BY <4>1, <4>2, <1>3
    <3>2. CASE \E id \in DOMAIN s.nacked : j = s.nacked[id]
      BY <3>2, <1>9, <1>11 DEF InRedis, Range
    <3> QED BY <2>2, <3>1, <3>2, <1>2 DEF InRedis, Range
  <2> QED BY <2>1, <2>2
<1>18. CASE n = 0
  <2>1. ids = {}
    BY <1>3, <1>4, <1>18
  <2>2. Covered(t)
    BY <2>1, <1>9, <1>10, <1>11 DEF Sound, Covered
  <2>3. Sound(t)
    BY <2>2, <1>11, <1>12, <1>14, <1>15, <1>16 DEF Sound, Exclusive
  <2> QED BY <2>1, <2>3, <1>1, <1>3, <1>9, <1>11, <1>17, <1>18, <1>12a
<1>19. CASE n # 0
  <2> DEFINE u == Beat(t, r.owner, now)
             h == IF HBT[r.owner] > 0 THEN Put(t.heartbeats, {r.owner}, now + HBT[r.owner])
                  ELSE t.heartbeats
  <2>1. /\ SameJobs(t, u) /\ u.heartbeats = h /\ u.presence = t.presence
        /\ u.clock = t.clock /\ u.paused = t.paused
    BY <1>11 DEF Beat, IsStore, SameJobs
  <2>2. /\ IsPartial(h, Owners, Nat) /\ DOMAIN t.heartbeats \subseteq DOMAIN h
        /\ HBT[r.owner] > 0 => r.owner \in DOMAIN h
    <3> DEFINE v == now + HBT[r.owner]
               S == {r.owner}
    <3>1. S \subseteq Owners /\ v \in Nat /\ IsPartial(t.heartbeats, Owners, Nat)
      BY <1>3, <1>12, TimeoutAssumption DEF StoreOK
    <3> HIDE DEF v, S
    <3>2. /\ DOMAIN Put(t.heartbeats, S, v) = DOMAIN t.heartbeats \cup S
          /\ IsPartial(Put(t.heartbeats, S, v), Owners, Nat)
      BY <3>1 DEF Put, IsPartial
    <3> QED BY <3>1, <3>2 DEF v, S
  <2> HIDE DEF u, h
  <2>3. StoreOK(u)
    BY <1>12, <2>1, <2>2 DEF StoreOK, SameJobs
  <2>4. Exclusive(u) /\ InRedis(u) = InRedis(t)
    BY <1>11, <1>14, <1>15, <1>16, <2>1 DEF Exclusive, InRedis, SameJobs
  <2>5. Covered(u)
    <3>1. DOMAIN u.timeouts \subseteq DOMAIN u.nacked
      BY <1>9, <1>10, <1>11, <2>1 DEF Sound, Covered, SameJobs
    <3>2. ASSUME NEW id \in DOMAIN u.nacked, id.owner \in Owners
          PROVE  /\ VT[id.owner] > 0 => id \in DOMAIN u.timeouts
                 /\ HBT[id.owner] > 0 => id.owner \in DOMAIN u.heartbeats
      <4>1. CASE id \in ids
        BY <4>1, <1>4, <1>10, <1>11, <2>1, <2>2 DEF SameJobs
      <4>2. CASE id \in DOMAIN s.nacked
        BY <3>2, <4>2, <1>10, <1>11, <2>1, <2>2 DEF SameJobs, Sound, Covered
      <4> QED BY <4>1, <4>2, <1>9, <1>11, <2>1 DEF SameJobs
    <3> QED BY <3>1, <3>2 DEF Covered
  <2>6. \A id \in DOMAIN u.nacked : id \in DOMAIN s.nacked \/ id.owner \in Owners
    BY <2>1, <1>3, <1>4, <1>9, <1>11 DEF SameJobs
  <2>7. Popped(s, u, r, n)
    BY <2>1, <1>12a DEF SameJobs, Popped
  <2> QED BY <2>3, <2>4, <2>5, <2>6, <2>7, <1>1, <1>3, <1>17, <1>19 DEF u, Sound
<1> QED BY <1>18, <1>19

(* A whole pop, whether it hands back, is refused or pops, loses and       *)
(* duplicates no job, makes pending only under its owner's IDs, and takes  *)
(* nothing while the queue is paused (popScript, popOneHead, popOneTail).  *)
LEMMA AckPopSound ==
  ASSUME NEW s, Sound(s), NEW r \in Reservations, NEW now \in Nat
  PROVE  LET u == AckPop(s, r, now)
         IN  /\ Sound(u) /\ InRedis(u) = InRedis(s)
             /\ \A id \in DOMAIN u.nacked : id \in DOMAIN s.nacked \/ id.owner \in Owners
             /\ s.paused # Absent => Keeps(s, u)
             /\ \E n \in Nat : Popped(s, u, r, n)
             /\ Ids(r) \cap DOMAIN s.nacked # {} => u.nacked = s.nacked
<1>0. s.queue \in Seq(Jobs)
  BY DEF Sound, StoreOK
<1>1. CASE Ids(r) \cap DOMAIN s.nacked # {}
  <2> DEFINE u == HandBack(s, r, now)
  <2>1. AckPop(s, r, now) = u
    BY <1>1 DEF AckPop
  <2>2. u.queue = s.queue /\ u.nacked = s.nacked
    BY HandBackMovesNone
  <2>3. Keeps(s, u)
    BY HandBackSound
  <2> HIDE DEF u
  <2>4. Popped(s, u, r, 0)
    BY <1>0, <2>2, PoppedNone
  <2> QED BY <2>1, <2>2, <2>3, <2>4 DEF Keeps
<1>2. CASE Ids(r) \cap DOMAIN s.nacked = {} /\ s.paused # Absent
  <2>1. AckPop(s, r, now) = s
    BY <1>2 DEF AckPop
  <2>2. Keeps(s, s) /\ Popped(s, s, r, 0)
    BY <1>0, KeepsSelf, PoppedNone
  <2> QED BY <1>2, <2>1, <2>2 DEF Keeps
<1>3. CASE Ids(r) \cap DOMAIN s.nacked = {} /\ s.paused = Absent
  BY <1>3, PopFreshSound DEF AckPop
<1> QED BY <1>1, <1>2, <1>3

-----------------------------------------------------------------------------
(* Requeues, releases and sweeps keep every job.                           *)

(* A requeue keeps the jobs (listRequeue).                                 *)
LEMMA RequeuesSound ==
  ASSUME NEW s, Sound(s), NEW vt, NEW now \in Nat, NEW t \in Requeues(s, vt, now)
  PROVE  Keeps(s, t)
<1>1. CASE vt > 0
  <2> DEFINE S == Expired(s, now)
  <2>1. PICK ids \in DeadlineOrders(s, S \cap DOMAIN s.nacked) : t = Move(s, S, ids)
    BY <1>1 DEF Requeues
  <2>2. ids \in Orderings(S \cap DOMAIN s.nacked)
    BY DEF DeadlineOrders
  <2> HIDE DEF S
  <2> QED BY <2>1, <2>2, MoveSound
<1>2. CASE ~(vt > 0)
  <2> DEFINE S == DOMAIN s.nacked
  <2>1. PICK ids \in Orderings(S) : t = Move(s, S, ids)
    BY <1>2 DEF Requeues
  <2>2. ids \in Orderings(S \cap DOMAIN s.nacked)
    <3>1. S \cap DOMAIN s.nacked = S
      OBVIOUS
    <3> QED BY <3>1
  <2> HIDE DEF S
  <2> QED BY <2>1, <2>2, MoveSound
<1> QED BY <1>1, <1>2

(* Releasing all items of some owners, with their heartbeats and presence, *)
(* keeps the jobs (releaseBody).                                           *)
LEMMA ReleasesSound ==
  ASSUME NEW s, Sound(s), NEW O, NEW t \in Releases(s, O)
  PROVE  Keeps(s, t)
<1> DEFINE S == OwnedBy(s, O)
<1>1. PICK ids \in SortedOrders(S) :
        t = [Move(s, S, ids) EXCEPT !.heartbeats = Drop(@, O), !.presence = Drop(@, O)]
  BY DEF Releases
<1>2. ids \in Orderings(S \cap DOMAIN s.nacked)
  <2>1. S \cap DOMAIN s.nacked = S
    BY DEF OwnedBy
  <2> QED BY <2>1 DEF SortedOrders
<1> DEFINE u == Move(s, S, ids)
<1>3. /\ Keeps(s, u) /\ Sound(u) /\ u.nacked = Drop(s.nacked, S)
      /\ u.heartbeats = s.heartbeats
  <2> HIDE DEF S
  <2> QED BY <1>2, MoveSound DEF Keeps
<1>4. \A id \in DOMAIN u.nacked : id.owner \notin O
  BY <1>3 DEF Drop, OwnedBy
<1> HIDE DEF u, S
<1> DEFINE h == Drop(u.heartbeats, O)
           p == Drop(u.presence, O)
<1>5. t = [u EXCEPT !.heartbeats = h, !.presence = p]
  BY <1>1 DEF u
<1>6. /\ SameJobs(u, t) /\ t.heartbeats = h /\ t.presence = p
      /\ t.clock = u.clock /\ t.paused = u.paused
  BY <1>3, <1>5 DEF Sound, StoreOK, IsStore, SameJobs
<1>7. IsPartial(u.heartbeats, Owners, Nat) /\ IsPartial(u.presence, Owners, Nat)
  BY <1>3 DEF Sound, StoreOK
<1>8. /\ IsPartial(h, Owners, Nat) /\ DOMAIN h = DOMAIN u.heartbeats \ O
      /\ IsPartial(p, Owners, Nat)
  BY <1>7, DropFacts
<1>9. \A id \in DOMAIN u.nacked :
        id.owner \in Owners /\ HBT[id.owner] > 0 => id.owner \in DOMAIN h
  BY <1>3, <1>4, <1>8 DEF Sound, Covered
<1> HIDE DEF h, p
<1>10. Keeps(u, t)
  BY <1>3, <1>6, <1>8, <1>9, SameJobsSound DEF Sound, StoreOK
<1> QED BY <1>3, <1>10, KeepsTransitive

(* A whole sweep keeps the jobs, whoever it takes for dead (tickBody).     *)
LEMMA TicksSound ==
  ASSUME NEW s, Sound(s), NEW o \in Owners, NEW now \in Nat,
         NEW subs \in SUBSET Owners, NEW t \in Ticks(s, o, now, subs)
  PROVE  Keeps(s, t)
<1> DEFINE ticked == Ticked(s, now)
           shifted == Shift(s, now)
           clocked == [shifted EXCEPT !.clock = IF ticked THEN now ELSE @]
           renewed == RenewOwn(clocked, o, now)
           late == Expired(renewed, now)
           swept == {Move(renewed, late, ids) :
                       ids \in DeadlineOrders(renewed, late \cap DOMAIN renewed.nacked)}
           dead == Lapsed(renewed, now)
                     \cup (IF ticked THEN Gone(renewed, now, subs) ELSE {})
           Marked(u) == IF ticked THEN MarkPresence(u, now, subs) ELSE u
<1>1. t \in IF s.clock = Absent THEN swept
            ELSE UNION {Releases(Marked(u), dead) : u \in swept}
  BY DEF Ticks
<1>2. Keeps(s, shifted)
  BY ShiftSound
<1> HIDE DEF shifted, ticked
<1>3. Keeps(s, clocked)
  <2> DEFINE c == IF ticked THEN now ELSE shifted.clock
  <2>1. c \in Nat
    BY <1>2 DEF Keeps, Sound, StoreOK
  <2>2. clocked = [shifted EXCEPT !.clock = c]
    OBVIOUS
  <2> HIDE DEF c
  <2>3. Keeps(shifted, clocked)
    BY <1>2, <2>1, <2>2, ClockSound DEF Keeps
  <2> QED BY <1>2, <2>3, KeepsTransitive
<1> HIDE DEF clocked
<1>4. Keeps(s, renewed)
  <2>1. Keeps(clocked, renewed)
    BY <1>3, RenewOwnSound DEF Keeps
  <2> QED BY <1>3, <2>1, KeepsTransitive
<1> HIDE DEF renewed, late
<1>5. ASSUME NEW u \in swept PROVE Keeps(s, u)
  <2>1. PICK ids \in DeadlineOrders(renewed, late \cap DOMAIN renewed.nacked) :
          u = Move(renewed, late, ids)
    OBVIOUS
  <2>2. ids \in Orderings(late \cap DOMAIN renewed.nacked)
    BY DEF DeadlineOrders
  <2>3. Keeps(renewed, u)
    BY <1>4, <2>1, <2>2, MoveSound DEF Keeps
  <2> QED BY <1>4, <2>3, KeepsTransitive
<1> HIDE DEF swept, dead
<1>6. CASE s.clock = Absent
  BY <1>1, <1>5, <1>6
<1>7. CASE s.clock # Absent
  <2>1. PICK u \in swept : t \in Releases(Marked(u), dead)
    BY <1>1, <1>7
  <2>2. Keeps(s, u) /\ Sound(u)
    BY <1>5 DEF Keeps
  <2>3. Keeps(u, Marked(u))
    BY <2>2, MarkPresenceSound, KeepsSelf
  <2> HIDE DEF Marked
  <2>4. Keeps(s, Marked(u)) /\ Sound(Marked(u))
    BY <2>2, <2>3, KeepsTransitive DEF Keeps
  <2> DEFINE m == Marked(u)
  <2> HIDE DEF m
  <2>5. Keeps(m, t)
    BY <2>1, <2>4, ReleasesSound DEF m
  <2> QED BY <2>4, <2>5, KeepsTransitive DEF m
<1> QED BY <1>6, <1>7

-----------------------------------------------------------------------------
(* The calls that add a job or take one out.                               *)

(* Shapes of the empty maps and the empty list.                            *)
LEMMA EmptyFacts ==
  /\ IsPartial(EmptyMap, AckIds, Jobs) /\ IsPartial(EmptyMap, AckIds, Nat)
  /\ IsPartial(EmptyMap, Owners, Nat)
  /\ DOMAIN EmptyMap = {} /\ Range(EmptyMap) = {} /\ IsInjective(EmptyMap)
  /\ <<>> \in Seq(Jobs) /\ Range(<<>>) = {} /\ IsInjective(<<>>)
  /\ IsFiniteSet({})
<1>1. /\ IsPartial(EmptyMap, AckIds, Jobs) /\ IsPartial(EmptyMap, AckIds, Nat)
      /\ IsPartial(EmptyMap, Owners, Nat) /\ DOMAIN EmptyMap = {}
  BY DEF EmptyMap, IsPartial
<1>2. <<>> \in Seq(Jobs) /\ DOMAIN <<>> = {}
  BY EmptySeq
<1> QED BY <1>1, <1>2, FS_EmptySet DEF Range, IsInjective

(* A key that does not exist holds no job.                                 *)
LEMMA EmptySound == Sound(EmptyStore) /\ InRedis(EmptyStore) = {}
<1>1. StoreOK(EmptyStore)
  BY EmptyFacts DEF StoreOK, IsStore, EmptyStore, Absent
<1>2. Exclusive(EmptyStore) /\ Covered(EmptyStore) /\ InRedis(EmptyStore) = {}
  BY EmptyFacts DEF Exclusive, Covered, InRedis, EmptyStore
<1> QED BY <1>1, <1>2 DEF Sound

(* Purge leaves no job and no deadline behind.                             *)
LEMMA PurgeSound ==
  ASSUME NEW s, Sound(s)
  PROVE  Sound(Purge(s)) /\ InRedis(Purge(s)) = {}
<1> DEFINE t == Purge(s)
<1>1. t = [s EXCEPT !.queue = <<>>, !.nacked = EmptyMap, !.timeouts = EmptyMap]
  BY DEF Purge
<1> HIDE DEF t
<1>2. /\ IsStore(t) /\ t.queue = <<>> /\ t.nacked = EmptyMap /\ t.timeouts = EmptyMap
      /\ t.heartbeats = s.heartbeats /\ t.presence = s.presence
      /\ t.clock = s.clock /\ t.paused = s.paused
  BY <1>1 DEF Sound, StoreOK, IsStore
<1>3. StoreOK(t)
  BY <1>2, EmptyFacts DEF Sound, StoreOK
<1>4. Exclusive(t) /\ Covered(t) /\ InRedis(t) = {}
  BY <1>2, EmptyFacts DEF Exclusive, Covered, InRedis
<1> QED BY <1>3, <1>4 DEF t, Sound

(* Pause and Resume keep the jobs (pauseScript, resumeScript).             *)
LEMMA PauseSound ==
  ASSUME NEW s, Sound(s), NEW now \in Nat
  PROVE  Keeps(s, PauseKey(s, now)) /\ Keeps(s, ResumeKey(s))
<1>1. ASSUME NEW p \in Nat, NEW t, t = [s EXCEPT !.paused = p]
      PROVE  Keeps(s, t)
  <2>1. /\ SameJobs(s, t) /\ t.heartbeats = s.heartbeats /\ t.presence = s.presence
        /\ t.clock = s.clock /\ t.paused = p
    BY <1>1 DEF Sound, StoreOK, IsStore, SameJobs
  <2> QED BY <2>1, SameJobsSound DEF Sound, StoreOK, Covered
<1>2. s.paused \in Nat
  BY DEF Sound, StoreOK
<1>3. /\ PauseKey(s, now) = [s EXCEPT !.paused = IF s.paused = Absent THEN now ELSE s.paused]
      /\ ResumeKey(s) = [s EXCEPT !.paused = 0]
  BY DEF PauseKey, ResumeKey, Absent
<1> QED BY <1>1, <1>2, <1>3

(* A change of the queue alone.                                            *)
LEMMA NewQueueSound ==
  ASSUME NEW s, Sound(s), NEW q \in Seq(Jobs), IsInjective(q),
         Range(q) \cap Range(s.nacked) = {}, NEW t, t = [s EXCEPT !.queue = q]
  PROVE  Sound(t) /\ InRedis(t) = Range(q) \cup Range(s.nacked)
<1>1. /\ IsStore(t) /\ t.queue = q /\ t.nacked = s.nacked /\ t.timeouts = s.timeouts
      /\ t.heartbeats = s.heartbeats /\ t.presence = s.presence
      /\ t.clock = s.clock /\ t.paused = s.paused
  BY DEF Sound, StoreOK, IsStore
<1>2. StoreOK(t)
  BY <1>1 DEF Sound, StoreOK
<1> QED BY <1>1, <1>2 DEF Sound, Exclusive, Covered, InRedis

(* A push adds exactly its job (listPush).                                 *)
LEMMA PushSound ==
  ASSUME NEW s, Sound(s), NEW job \in Jobs, job \notin InRedis(s)
  PROVE  Sound(Push(s, job)) /\ InRedis(Push(s, job)) = InRedis(s) \cup {job}
<1> DEFINE L == Len(s.queue)
           q == Append(s.queue, job)
<1>1. /\ s.queue \in Seq(Jobs) /\ L \in Nat /\ DOMAIN s.queue = 1..L
      /\ Range(s.queue) = {s.queue[i] : i \in 1..L}
  BY QueueFacts DEF Sound, StoreOK
<1>2. /\ q \in Seq(Jobs) /\ Len(q) = L + 1
      /\ \A i \in 1..L : q[i] = s.queue[i]
      /\ q[L + 1] = job
  BY <1>1, AppendProperties
<1>3. Push(s, job) = [s EXCEPT !.queue = q]
  BY DEF Push
<1> HIDE DEF L, q
<1>4. DOMAIN q = 1..L + 1 /\ Range(q) = {q[i] : i \in 1..L + 1}
  BY <1>2, QueueFacts
<1>5. \A i \in 1..L + 1 : i \in 1..L \/ i = L + 1
  BY <1>1
<1>6. Range(q) = Range(s.queue) \cup {job}
  <2>1. L + 1 \in 1..L + 1 /\ \A i \in 1..L : i \in 1..L + 1
    BY <1>1
  <2> QED BY <1>1, <1>2, <1>4, <1>5, <2>1
<1>7. IsInjective(q)
  <2>1. \A i \in 1..L : s.queue[i] # job
    BY <1>1 DEF InRedis
  <2>2. \A i, k \in 1..L : s.queue[i] = s.queue[k] => i = k
    BY <1>1 DEF Sound, Exclusive, IsInjective
  <2> QED BY <1>2, <1>4, <1>5, <2>1, <2>2 DEF IsInjective
<1>8. Range(q) \cap Range(s.nacked) = {}
  BY <1>6 DEF Sound, Exclusive, InRedis
<1> QED BY <1>2, <1>3, <1>6, <1>7, <1>8, NewQueueSound DEF InRedis

(* q is the sequence p without item i.                                     *)
Skips(p, q, i) ==
  /\ q \in Seq(Jobs) /\ Len(q) = Len(p) - 1
  /\ \A k \in 1..Len(p) - 1 : q[k] = IF k < i THEN p[k] ELSE p[k + 1]

(* Item i of the queue leaves it.                                          *)
LEMMA WithoutItem ==
  ASSUME NEW s, Sound(s), NEW i \in 1..Len(s.queue), NEW q, Skips(s.queue, q, i),
         NEW t, t = [s EXCEPT !.queue = q]
  PROVE  /\ Sound(t) /\ InRedis(t) = InRedis(s) \ {s.queue[i]}
         /\ s.queue[i] \in InRedis(s)
<1> DEFINE L == Len(s.queue)
<1>1. /\ s.queue \in Seq(Jobs) /\ L \in Nat /\ DOMAIN s.queue = 1..L
      /\ Range(s.queue) = {s.queue[k] : k \in 1..L}
  BY QueueFacts DEF Sound, StoreOK
<1>2. /\ q \in Seq(Jobs) /\ DOMAIN q = 1..L - 1
      /\ Range(q) = {q[k] : k \in 1..L - 1}
  BY QueueFacts DEF Skips
<1> HIDE DEF L
<1>3. \A a, b \in 1..L : s.queue[a] = s.queue[b] => a = b
  BY <1>1 DEF Sound, Exclusive, IsInjective
<1>4. /\ i \in 1..L
      /\ \A k \in 1..L - 1 : q[k] = IF k < i THEN s.queue[k] ELSE s.queue[k + 1]
  BY DEF L, Skips
<1> DEFINE at(k) == IF k < i THEN k ELSE k + 1
<1>5. \A k \in 1..L - 1 : at(k) \in 1..L /\ at(k) # i /\ q[k] = s.queue[at(k)]
  BY <1>1, <1>4
<1>6. \A a, b \in 1..L - 1 : at(a) = at(b) => a = b
  BY <1>1, <1>4
<1>7. \A k \in 1..L : k # i => \E a \in 1..L - 1 : at(a) = k
  <2> SUFFICES ASSUME NEW k \in 1..L, k # i
               PROVE  \E a \in 1..L - 1 : at(a) = k
    OBVIOUS
  <2>1. CASE k < i
    <3>1. k \in 1..L - 1 /\ at(k) = k
      BY <1>1, <1>4, <2>1
    <3> QED BY <3>1
  <2>2. CASE k > i
    <3>1. k - 1 \in 1..L - 1 /\ at(k - 1) = k
      BY <1>1, <1>4, <2>2
    <3> QED BY <3>1
  <2> QED BY <1>1, <2>1, <2>2
<1> HIDE DEF at
<1>8. IsInjective(q)
  BY <1>2, <1>3, <1>5, <1>6 DEF IsInjective
<1>9. Range(q) = Range(s.queue) \ {s.queue[i]}
  <2>1. ASSUME NEW j \in Range(q) PROVE j \in Range(s.queue) \ {s.queue[i]}
    <3>1. PICK k \in 1..L - 1 : j = q[k]
      BY <1>2
    <3>2. j = s.queue[at(k)] /\ at(k) \in 1..L /\ at(k) # i
      BY <3>1, <1>5
    <3>3. s.queue[at(k)] # s.queue[i]
      BY <3>2, <1>3, <1>4
    <3> QED BY <3>2, <3>3, <1>1
  <2>2. ASSUME NEW j \in Range(s.queue) \ {s.queue[i]} PROVE j \in Range(q)
    <3>1. PICK k \in 1..L : j = s.queue[k]
      BY <1>1
    <3>2. PICK a \in 1..L - 1 : at(a) = k
      BY <2>2, <3>1, <1>7
    <3> QED BY <3>1, <3>2, <1>2, <1>5
  <2> QED BY <2>1, <2>2
<1>10. /\ Range(q) \cap Range(s.nacked) = {}
       /\ s.queue[i] \in Range(s.queue) /\ s.queue[i] \notin Range(s.nacked)
  BY <1>1, <1>4, <1>9 DEF Sound, Exclusive
<1>11. Sound(t) /\ InRedis(t) = Range(q) \cup Range(s.nacked)
  BY <1>2, <1>8, <1>10, NewQueueSound
<1> QED BY <1>9, <1>10, <1>11 DEF InRedis

(* A raw pop takes exactly the head (listRawPop).                          *)
LEMMA RawPopSound ==
  ASSUME NEW s, Sound(s), s.queue # <<>>
  PROVE  /\ Sound(RawPop(s)) /\ InRedis(RawPop(s)) = InRedis(s) \ {Head(s.queue)}
         /\ Head(s.queue) \in InRedis(s)
         /\ Skips(s.queue, RawPop(s).queue, 1) /\ Head(s.queue) = s.queue[1]
<1> DEFINE q == Tail(s.queue)
<1>1. s.queue \in Seq(Jobs)
  BY DEF Sound, StoreOK
<1>2. 1 \in 1..Len(s.queue) /\ Len(s.queue) \in Nat
  BY <1>1, EmptySeq
<1>3. /\ q \in Seq(Jobs) /\ Len(q) = Len(s.queue) - 1
      /\ \A k \in 1..Len(q) : q[k] = s.queue[k + 1]
  BY <1>1, HeadTailProperties
<1>4. RawPop(s) = [s EXCEPT !.queue = q]
  BY DEF RawPop
<1>5. Head(s.queue) = s.queue[1]
  BY <1>1
<1> HIDE DEF q
<1>6. Skips(s.queue, q, 1)
  BY <1>2, <1>3 DEF Skips
<1>7. RawPop(s).queue = q
  BY <1>4 DEF Sound, StoreOK, IsStore
<1> QED BY <1>2, <1>4, <1>5, <1>6, <1>7, WithoutItem

(* Remove takes exactly one item (LREM).                                   *)
LEMMA ListRemoveSound ==
  ASSUME NEW s, Sound(s), NEW i \in 1..Len(s.queue)
  PROVE  /\ Sound(ListRemove(s, i))
         /\ InRedis(ListRemove(s, i)) = InRedis(s) \ {s.queue[i]}
         /\ s.queue[i] \in InRedis(s)
         /\ Skips(s.queue, ListRemove(s, i).queue, i)
<1> DEFINE L == Len(s.queue)
           front == SubSeq(s.queue, 1, i - 1)
           back == SubSeq(s.queue, i + 1, L)
           q == front \o back
<1>1. s.queue \in Seq(Jobs) /\ L \in Nat /\ \A k \in 1..L : s.queue[k] \in Jobs
  BY QueueFacts DEF Sound, StoreOK
<1>2. i \in 1..L /\ i \in Nat /\ i <= L /\ 1 <= i
  BY <1>1
<1>3. ListRemove(s, i) = [s EXCEPT !.queue = q]
  BY DEF RemoveAt, ListRemove
<1> HIDE DEF L, front, back, q
<1>4. /\ front \in Seq(Jobs) /\ Len(front) = i - 1
      /\ \A k \in 1..i - 1 : front[k] = s.queue[k]
  <2>1. \A k \in 1..i - 1 : s.queue[k] \in Jobs
    BY <1>1, <1>2
  <2>2. i - 1 \in Int
    BY <1>2
  <2>3. /\ front \in Seq(Jobs)
        /\ Len(front) = IF 1 <= i - 1 THEN i - 1 - 1 + 1 ELSE 0
        /\ \A k \in 1..i - 1 - 1 + 1 : front[k] = s.queue[1 + k - 1]
    BY <2>1, <2>2, SubSeqProperties DEF front
  <2>4. i - 1 - 1 + 1 = i - 1 /\ \A k \in 1..i - 1 : 1 + k - 1 = k
    BY <1>2
  <2> QED BY <1>2, <2>3, <2>4
<1>5. /\ back \in Seq(Jobs) /\ Len(back) = L - i
      /\ \A k \in 1..L - i : back[k] = s.queue[i + k]
  <2>1. \A k \in i + 1..L : s.queue[k] \in Jobs
    BY <1>1, <1>2
  <2>2. i + 1 \in Int /\ L \in Int
    BY <1>1, <1>2
  <2>3. /\ back \in Seq(Jobs)
        /\ Len(back) = IF i + 1 <= L THEN L - (i + 1) + 1 ELSE 0
        /\ \A k \in 1..L - (i + 1) + 1 : back[k] = s.queue[i + 1 + k - 1]
    BY <2>1, <2>2, SubSeqProperties DEF back
  <2>4. L - (i + 1) + 1 = L - i /\ \A k \in 1..L - i : i + 1 + k - 1 = i + k
    BY <1>1, <1>2
  <2> QED BY <1>1, <1>2, <2>3, <2>4
<1>6. /\ q \in Seq(Jobs) /\ Len(q) = Len(front) + Len(back)
      /\ \A k \in 1..Len(front) + Len(back) :
           q[k] = IF k <= Len(front) THEN front[k] ELSE back[k - Len(front)]
  BY <1>4, <1>5, ConcatProperties DEF q
<1>7. Len(q) = L - 1 /\ Len(front) + Len(back) = L - 1
  BY <1>1, <1>2, <1>4, <1>5, <1>6
<1>8. ASSUME NEW k \in 1..L - 1
      PROVE  q[k] = IF k < i THEN s.queue[k] ELSE s.queue[k + 1]
  <2>1. CASE k < i
    <3>1. k \in 1..i - 1 /\ k <= Len(front)
      BY <1>1, <1>2, <1>4, <2>1
    <3> QED BY <1>4, <1>6, <1>7, <2>1, <3>1
  <2>2. CASE ~(k < i)
    <3>1. /\ k - (i - 1) \in 1..L - i /\ ~(k <= Len(front))
          /\ i + (k - (i - 1)) = k + 1
      BY <1>1, <1>2, <1>4, <2>2
    <3>2. q[k] = back[k - (i - 1)]
      BY <1>4, <1>6, <1>7, <3>1
    <3> QED BY <1>5, <2>2, <3>1, <3>2
  <2> QED BY <2>1, <2>2
<1>9. Skips(s.queue, q, i)
  BY <1>6, <1>7, <1>8 DEF Skips, L
<1>10. ListRemove(s, i).queue = q
  BY <1>3 DEF Sound, StoreOK, IsStore
<1> QED BY <1>3, <1>9, <1>10, WithoutItem

(* A finish of a pending ID removes exactly its job and its deadline       *)
(* (finishScript).                                                         *)
LEMMA FinishSound ==
  ASSUME NEW s, Sound(s), NEW id \in DOMAIN s.nacked
  PROVE  /\ Sound(Finish(s, id)) /\ InRedis(Finish(s, id)) = InRedis(s) \ {s.nacked[id]}
         /\ s.nacked[id] \in Jobs /\ s.nacked[id] \in InRedis(s)
<1> DEFINE t == Finish(s, id)
           N == Drop(s.nacked, {id})
           T == Drop(s.timeouts, {id})
<1>1. t = [s EXCEPT !.nacked = N, !.timeouts = T]
  BY DEF Finish
<1>2. IsPartial(s.nacked, AckIds, Jobs) /\ IsPartial(s.timeouts, AckIds, Nat)
  BY DEF Sound, StoreOK
<1>3. /\ DOMAIN N = DOMAIN s.nacked \ {id} /\ IsPartial(N, AckIds, Jobs)
      /\ \A x \in DOMAIN s.nacked \ {id} : N[x] = s.nacked[x]
  BY <1>2, DropFacts
<1>4. DOMAIN T = DOMAIN s.timeouts \ {id} /\ IsPartial(T, AckIds, Nat)
  BY <1>2, DropFacts
<1>5. IsFiniteSet(DOMAIN N)
  BY <1>3, FS_Subset DEF Sound, StoreOK
<1> HIDE DEF N, T, t
<1>6. /\ IsStore(t) /\ t.queue = s.queue /\ t.nacked = N /\ t.timeouts = T
      /\ t.heartbeats = s.heartbeats /\ t.presence = s.presence
      /\ t.clock = s.clock /\ t.paused = s.paused
  BY <1>1 DEF Sound, StoreOK, IsStore
<1>7. StoreOK(t)
  BY <1>3, <1>4, <1>5, <1>6 DEF Sound, StoreOK
<1>8. \A x, y \in DOMAIN s.nacked : s.nacked[x] = s.nacked[y] => x = y
  BY DEF Sound, Exclusive, IsInjective
<1>9. Range(N) = Range(s.nacked) \ {s.nacked[id]} /\ IsInjective(N)
  BY <1>3, <1>8 DEF Range, IsInjective
<1>10. s.nacked[id] \in Range(s.nacked) /\ s.nacked[id] \notin Range(s.queue)
  BY DEF Range, Sound, Exclusive
<1>11. Exclusive(t) /\ InRedis(t) = InRedis(s) \ {s.nacked[id]}
  BY <1>6, <1>9, <1>10 DEF Sound, Exclusive, InRedis
<1>12. Covered(t)
  BY <1>3, <1>4, <1>6 DEF Sound, Covered
<1>13. s.nacked[id] \in Jobs
  BY <1>2 DEF IsPartial
<1> QED BY <1>7, <1>10, <1>11, <1>12, <1>13 DEF Sound, InRedis, t

(* PrepareForFutureAck under an unused ID adds exactly its job, with a     *)
(* deadline (prepareAck).                                                  *)
LEMMA PrepareAckSound ==
  ASSUME NEW s, Sound(s), NEW id \in AckIds, id.owner \notin Owners,
         id \notin DOMAIN s.nacked, NEW job \in Jobs, job \notin InRedis(s),
         NEW vt \in Nat, NEW now \in Nat
  PROVE  /\ Sound(PrepareAck(s, id, job, vt, now))
         /\ InRedis(PrepareAck(s, id, job, vt, now)) = InRedis(s) \cup {job}
         /\ DOMAIN PrepareAck(s, id, job, vt, now).nacked = DOMAIN s.nacked \cup {id}
<1> DEFINE t == PrepareAck(s, id, job, vt, now)
           S == {id}
           dl == now + vt
           N == Put(s.nacked, S, job)
           T == IF vt > 0 THEN Put(s.timeouts, S, dl) ELSE s.timeouts
<1>1. t = [s EXCEPT !.nacked = N, !.timeouts = T]
  BY DEF PrepareAck
<1>2. IsPartial(s.nacked, AckIds, Jobs) /\ IsPartial(s.timeouts, AckIds, Nat)
  BY DEF Sound, StoreOK
<1>3. S \subseteq AckIds /\ dl \in Nat /\ S \cap DOMAIN s.nacked = {}
  OBVIOUS
<1>4. IsFiniteSet(DOMAIN s.nacked \cup S)
  BY FS_AddElement DEF Sound, StoreOK
<1> HIDE DEF S, dl
<1>5. /\ DOMAIN N = DOMAIN s.nacked \cup S /\ IsPartial(N, AckIds, Jobs)
      /\ \A x \in DOMAIN s.nacked : N[x] = s.nacked[x]
      /\ \A x \in S : N[x] = job
  BY <1>2, <1>3 DEF Put, IsPartial
<1>6. /\ DOMAIN T \subseteq DOMAIN s.timeouts \cup S /\ IsPartial(T, AckIds, Nat)
      /\ DOMAIN s.timeouts \subseteq DOMAIN T
  BY <1>2, <1>3 DEF Put, IsPartial
<1> HIDE DEF N, T, t
<1>7. /\ IsStore(t) /\ t.queue = s.queue /\ t.nacked = N /\ t.timeouts = T
      /\ t.heartbeats = s.heartbeats /\ t.presence = s.presence
      /\ t.clock = s.clock /\ t.paused = s.paused
  BY <1>1 DEF Sound, StoreOK, IsStore
<1>8. StoreOK(t)
  BY <1>4, <1>5, <1>6, <1>7 DEF Sound, StoreOK
<1>9. /\ \A x, y \in DOMAIN s.nacked : s.nacked[x] = s.nacked[y] => x = y
      /\ \A x \in DOMAIN s.nacked : s.nacked[x] # job
  BY DEF Sound, Exclusive, IsInjective, InRedis, Range
<1>10. Range(N) = Range(s.nacked) \cup {job}
  BY <1>5 DEF Range, S
<1>11. IsInjective(N)
  BY <1>5, <1>9 DEF IsInjective, S
<1>12. Exclusive(t) /\ InRedis(t) = InRedis(s) \cup {job}
  BY <1>7, <1>10, <1>11 DEF Sound, Exclusive, InRedis
<1>13. Covered(t)
  BY <1>5, <1>6, <1>7 DEF Sound, Covered, S
<1> QED BY <1>5, <1>7, <1>8, <1>12, <1>13 DEF Sound, t, S

-----------------------------------------------------------------------------
(* The pause.                                                              *)

(* t is a store that is paused as s is.                                    *)
SamePause(s, t) == IsStore(t) /\ t.paused = s.paused

(* No script but Pause's and Resume's touches the pause (pauseScript).     *)
LEMMA ItemsSamePause ==
  ASSUME NEW s, IsStore(s), NEW q, NEW N, NEW T, NEW t,
         t = [s EXCEPT !.queue = q, !.nacked = N, !.timeouts = T]
  PROVE  SamePause(s, t)
<1>1. t = [queue |-> q, nacked |-> N, timeouts |-> T, heartbeats |-> s.heartbeats,
           clock |-> s.clock, presence |-> s.presence, paused |-> s.paused]
  BY DEF IsStore
<1> QED BY <1>1 DEF SamePause, IsStore

(* Moving items back to the queue touches no pause (moveItemsBack).        *)
LEMMA MoveSamePause ==
  ASSUME NEW s, IsStore(s), NEW S, NEW ids
  PROVE  SamePause(s, Move(s, S, ids))
<1> DEFINE q == Reverse([i \in 1..Len(ids) |-> s.nacked[ids[i]]]) \o s.queue
           N == Drop(s.nacked, S)
           T == Drop(s.timeouts, S)
<1>1. Move(s, S, ids) = [s EXCEPT !.queue = q, !.nacked = N, !.timeouts = T]
  BY DEF Move
<1> HIDE DEF q, N, T
<1> QED BY <1>1, ItemsSamePause

(* Nor does releasing the items of closed or dead consumers (release).     *)
LEMMA ReleasesSamePause ==
  ASSUME NEW s, IsStore(s), NEW O, NEW t \in Releases(s, O)
  PROVE  SamePause(s, t)
<1>1. PICK ids \in SortedOrders(OwnedBy(s, O)) :
        t = [Move(s, OwnedBy(s, O), ids) EXCEPT !.heartbeats = Drop(@, O), !.presence = Drop(@, O)]
  BY DEF Releases
<1> DEFINE u == Move(s, OwnedBy(s, O), ids)
<1>2. SamePause(s, u)
  BY MoveSamePause
<1> HIDE DEF u
<1>3. t = [u EXCEPT !.heartbeats = Drop(u.heartbeats, O), !.presence = Drop(u.presence, O)]
  BY <1>1 DEF u
<1> QED BY <1>2, <1>3 DEF SamePause, IsStore

(* Nor does requeueing the items that waited too long (requeueScript).     *)
LEMMA RequeuesSamePause ==
  ASSUME NEW s, IsStore(s), NEW vt, NEW at, NEW t \in Requeues(s, vt, at)
  PROVE  SamePause(s, t)
<1>1. \E S, ids : t = Move(s, S, ids)
  <2>1. CASE vt > 0
    BY <2>1 DEF Requeues
  <2>2. CASE ~(vt > 0)
    BY <2>2 DEF Requeues
  <2> QED BY <2>1, <2>2
<1> QED BY <1>1, MoveSamePause

(* Nor does a tick, its sweep or its removal of dead consumers.            *)
LEMMA TicksSamePause ==
  ASSUME NEW s, IsStore(s), NEW o, NEW at, NEW sub, NEW t \in Ticks(s, o, at, sub)
  PROVE  SamePause(s, t)
<1> DEFINE ticked == Ticked(s, at)
           shifted == Shift(s, at)
           clocked == [shifted EXCEPT !.clock = IF ticked THEN at ELSE @]
           renewed == RenewOwn(clocked, o, at)
           late == Expired(renewed, at)
           swept == {Move(renewed, late, ids) :
                       ids \in DeadlineOrders(renewed, late \cap DOMAIN renewed.nacked)}
           dead == Lapsed(renewed, at)
                     \cup (IF ticked THEN Gone(renewed, at, sub) ELSE {})
           Marked(u) == IF ticked THEN MarkPresence(u, at, sub) ELSE u
<1>1. t \in IF s.clock = Absent THEN swept
            ELSE UNION {Releases(Marked(u), dead) : u \in swept}
  BY DEF Ticks
<1>2. SamePause(s, shifted)
  BY DEF Shift, SamePause, IsStore
<1> HIDE DEF shifted, ticked
<1>3. SamePause(s, clocked)
  BY <1>2 DEF SamePause, IsStore
<1> HIDE DEF clocked
<1>4. SamePause(s, renewed)
  BY <1>3 DEF RenewOwn, SamePause, IsStore
<1> HIDE DEF renewed, late
<1>5. ASSUME NEW u \in swept PROVE SamePause(s, u)
  <2>1. PICK ids \in DeadlineOrders(renewed, late \cap DOMAIN renewed.nacked) :
          u = Move(renewed, late, ids)
    OBVIOUS
  <2>2. SamePause(renewed, u)
    BY <1>4, <2>1, MoveSamePause DEF SamePause
  <2> QED BY <1>4, <2>2 DEF SamePause
<1> HIDE DEF swept, dead
<1>6. CASE s.clock = Absent
  BY <1>1, <1>5, <1>6
<1>7. CASE s.clock # Absent
  <2>1. PICK u \in swept : t \in Releases(Marked(u), dead)
    BY <1>1, <1>7
  <2>2. SamePause(s, u)
    BY <1>5
  <2>3. SamePause(s, Marked(u))
    BY <2>2 DEF MarkPresence, SamePause, IsStore
  <2> DEFINE m == Marked(u)
  <2> HIDE DEF Marked, m
  <2>4. SamePause(m, t)
    BY <2>1, <2>3, ReleasesSamePause DEF m, SamePause
  <2> QED BY <2>3, <2>4 DEF m, SamePause
<1> QED BY <1>6, <1>7

(* Nor does a pop, with items to hand back, to hand over or none.          *)
LEMMA AckPopSamePause ==
  ASSUME NEW s, IsStore(s), NEW r, NEW at
  PROVE  SamePause(s, AckPop(s, r, at))
<1>1. \A t : SamePause(s, t) => SamePause(s, Beat(t, r.owner, at))
  BY DEF Beat, SamePause, IsStore
<1>2. SamePause(s, HandBack(s, r, at))
  <2> DEFINE run == {IdOf(r, i) : i \in Leading(s, r)}
             dl == at + VT[r.owner]
             raised == {id \in run : id \notin DOMAIN s.timeouts \/ s.timeouts[id] < dl}
             T == IF VT[r.owner] > 0 THEN Put(s.timeouts, raised, dl) ELSE s.timeouts
             t == [s EXCEPT !.timeouts = T]
  <2>1. HandBack(s, r, at) = IF run = {} THEN t ELSE Beat(t, r.owner, at)
    BY DEF HandBack
  <2> HIDE DEF T, run
  <2>2. SamePause(s, t)
    BY DEF SamePause, IsStore
  <2> HIDE DEF t
  <2> QED BY <1>1, <2>1, <2>2
<1>3. SamePause(s, PopFresh(s, r, at))
  <2> DEFINE n == IF Len(s.queue) < r.want THEN Len(s.queue) ELSE r.want
             ids == {IdOf(r, i) : i \in 1..n}
             q == SubSeq(s.queue, n + 1, Len(s.queue))
             N == [id \in DOMAIN s.nacked \cup ids |->
                     IF id \in ids THEN s.queue[id.index] ELSE s.nacked[id]]
             T == IF VT[r.owner] > 0 THEN Put(s.timeouts, ids, at + VT[r.owner]) ELSE s.timeouts
             t == [s EXCEPT !.queue = q, !.nacked = N, !.timeouts = T]
  <2>1. PopFresh(s, r, at) = IF n = 0 THEN t ELSE Beat(t, r.owner, at)
    BY DEF PopFresh
  <2> HIDE DEF n, q, N, T
  <2>2. SamePause(s, t)
    BY ItemsSamePause
  <2> HIDE DEF t
  <2> QED BY <1>1, <2>1, <2>2
<1> QED BY <1>2, <1>3 DEF AckPop, SamePause

=============================================================================
