----------------------- MODULE FailureDetector_proofs -----------------------
(***************************************************************************)
(* What the sweeps keep, for any timeouts and any number of consumers and  *)
(* sweepers (FailureDetector): the presence marks that go with heartbeats; *)
(* when no stall of Redis falls between the presence grace and the longest *)
(* normal gap, the jobs of every consumer that still sweeps; and, when     *)
(* there is no stall, how soon a dead consumer's jobs are back.            *)
(***************************************************************************)
EXTENDS FailureDetector, Scripts_proofs

-----------------------------------------------------------------------------
(* What a sweep does to the heartbeats and the presence marks.             *)

(* By how much a sweep moves the heartbeats and the graces on.             *)
MovedOn(s, t) == IF s.clock # Absent /\ t - s.clock > SweepGap THEN t - s.clock ELSE 0

(* t holds the jobs, the deadlines and the pause of s.                     *)
SamePending(s, t) == t.nacked = s.nacked /\ t.timeouts = s.timeouts /\ t.paused = s.paused

LEMMA ShiftTimes ==
  ASSUME NEW s, Sound(s), NEW time \in Nat
  PROVE  LET t == Shift(s, time)
             gap == MovedOn(s, time)
         IN  /\ SamePending(s, t) /\ t.clock = s.clock /\ gap \in Nat
             /\ DOMAIN t.heartbeats = DOMAIN s.heartbeats
             /\ DOMAIN t.presence = DOMAIN s.presence
             /\ \A m \in DOMAIN s.heartbeats : t.heartbeats[m] = s.heartbeats[m] + gap
             /\ \A m \in DOMAIN s.presence :
                  t.presence[m] = IF s.presence[m] = Subscribed THEN Subscribed
                                  ELSE s.presence[m] + gap
<1>1. /\ IsStore(s) /\ s.clock \in Nat
      /\ IsPartial(s.heartbeats, Owners, Nat) /\ IsPartial(s.presence, Owners, Nat)
  BY DEF Sound, StoreOK
<1>2. /\ \A m \in DOMAIN s.heartbeats : s.heartbeats[m] \in Nat
      /\ \A m \in DOMAIN s.presence : s.presence[m] \in Nat
  BY <1>1 DEF IsPartial
<1>3. MovedOn(s, time) \in Nat
  BY <1>1, TimeoutAssumption DEF MovedOn
<1>4. CASE s.clock # Absent /\ time - s.clock > SweepGap
  <2> DEFINE gap == time - s.clock
             h == [m \in DOMAIN s.heartbeats |-> s.heartbeats[m] + gap]
             p == [m \in DOMAIN s.presence |->
                     IF s.presence[m] = Subscribed THEN s.presence[m] ELSE s.presence[m] + gap]
             t == Shift(s, time)
  <2>1. t = [s EXCEPT !.heartbeats = h, !.presence = p]
    BY <1>4 DEF Shift
  <2>2. gap = MovedOn(s, time)
    BY <1>4 DEF MovedOn
  <2> HIDE DEF gap, h, p, t
  <2>3. /\ SamePending(s, t) /\ t.clock = s.clock /\ t.heartbeats = h /\ t.presence = p
    BY <1>1, <2>1 DEF IsStore, SamePending
  <2>4. /\ DOMAIN h = DOMAIN s.heartbeats /\ DOMAIN p = DOMAIN s.presence
        /\ \A m \in DOMAIN s.heartbeats : h[m] = s.heartbeats[m] + gap
        /\ \A m \in DOMAIN s.presence :
             p[m] = IF s.presence[m] = Subscribed THEN Subscribed ELSE s.presence[m] + gap
    BY DEF h, p
  <2> QED BY <1>3, <2>2, <2>3, <2>4 DEF t
<1>5. CASE ~(s.clock # Absent /\ time - s.clock > SweepGap)
  <2>1. Shift(s, time) = s
    BY <1>5 DEF Shift
  <2>2. MovedOn(s, time) = 0
    BY <1>5 DEF MovedOn
  <2> QED BY <1>2, <1>3, <2>1, <2>2 DEF SamePending
<1> QED BY <1>4, <1>5

LEMMA RenewTimes ==
  ASSUME NEW s, Sound(s), NEW o \in Owners, NEW time \in Nat
  PROVE  LET t == RenewOwn(s, o, time)
         IN  /\ SamePending(s, t) /\ t.clock = s.clock
             /\ DOMAIN t.heartbeats = DOMAIN s.heartbeats \ (IF HBT[o] > 0 THEN {} ELSE {o})
             /\ DOMAIN t.presence \subseteq DOMAIN s.presence
             /\ o \in DOMAIN t.presence => HBT[o] > 0 \/ o \notin DOMAIN s.heartbeats
             /\ \A m \in DOMAIN t.heartbeats :
                  t.heartbeats[m] = IF m = o THEN time + HBT[o] ELSE s.heartbeats[m]
             /\ \A m \in DOMAIN t.presence :
                  t.presence[m] = IF m = o /\ o \in DOMAIN s.heartbeats
                                  THEN Subscribed ELSE s.presence[m]
<1> DEFINE t == RenewOwn(s, o, time)
<1>1. /\ IsStore(s)
      /\ IsPartial(s.heartbeats, Owners, Nat) /\ IsPartial(s.presence, Owners, Nat)
  BY DEF Sound, StoreOK
<1>2. CASE o \notin DOMAIN s.heartbeats
  <2>1. t = s
    BY <1>2 DEF RenewOwn
  <2> QED BY <1>2, <2>1 DEF SamePending
<1>3. CASE o \in DOMAIN s.heartbeats /\ HBT[o] > 0
  <2> DEFINE h == [s.heartbeats EXCEPT ![o] = time + HBT[o]]
             p == [m \in DOMAIN s.presence |-> IF m = o THEN Subscribed ELSE s.presence[m]]
  <2>1. t = [s EXCEPT !.heartbeats = h, !.presence = p]
    BY <1>1, <1>3 DEF RenewOwn, IsStore
  <2> HIDE DEF h, p, t
  <2>2. /\ SamePending(s, t) /\ t.clock = s.clock /\ t.heartbeats = h /\ t.presence = p
    BY <1>1, <2>1 DEF IsStore, SamePending
  <2>3. /\ DOMAIN h = DOMAIN s.heartbeats /\ DOMAIN p = DOMAIN s.presence
        /\ \A m \in DOMAIN s.heartbeats :
             h[m] = IF m = o THEN time + HBT[o] ELSE s.heartbeats[m]
        /\ \A m \in DOMAIN s.presence :
             p[m] = IF m = o THEN Subscribed ELSE s.presence[m]
    BY <1>1 DEF h, p, IsPartial
  <2> QED BY <1>3, <2>2, <2>3 DEF t
<1>4. CASE o \in DOMAIN s.heartbeats /\ ~(HBT[o] > 0)
  <2> DEFINE h == Drop(s.heartbeats, {o})
             p == Drop(s.presence, {o})
  <2>1. t = [s EXCEPT !.heartbeats = h, !.presence = p]
    BY <1>4 DEF RenewOwn
  <2> HIDE DEF h, p, t
  <2>2. /\ SamePending(s, t) /\ t.clock = s.clock /\ t.heartbeats = h /\ t.presence = p
    BY <1>1, <2>1 DEF IsStore, SamePending
  <2>3. /\ DOMAIN h = DOMAIN s.heartbeats \ {o} /\ DOMAIN p = DOMAIN s.presence \ {o}
        /\ \A m \in DOMAIN h : h[m] = s.heartbeats[m]
        /\ \A m \in DOMAIN p : p[m] = s.presence[m]
    BY DEF h, p, Drop
  <2> QED BY <1>4, <2>2, <2>3 DEF t
<1> QED BY <1>2, <1>3, <1>4

LEMMA MarkTimes ==
  ASSUME NEW s, Sound(s), NEW time \in Nat, NEW seers \in SUBSET Owners
  PROVE  LET t == MarkPresence(s, time, seers)
         IN  /\ SamePending(s, t) /\ t.clock = s.clock /\ t.heartbeats = s.heartbeats
             /\ DOMAIN t.presence \subseteq DOMAIN s.presence \cup DOMAIN s.heartbeats
             /\ \A m \in DOMAIN t.presence :
                  \/ t.presence[m] \in {Subscribed, time}
                  \/ m \in DOMAIN s.presence /\ t.presence[m] = s.presence[m]
             /\ \A m \in DOMAIN t.presence :
                  m \in DOMAIN s.heartbeats /\ s.heartbeats[m] >= time =>
                    IF m \in seers THEN t.presence[m] = Subscribed
                    ELSE /\ m \in DOMAIN s.presence
                         /\ t.presence[m] = IF s.presence[m] = Subscribed THEN time
                                            ELSE s.presence[m]
<1> DEFINE seen == Live(s, time) \cap seers
           lost == {m \in (Live(s, time) \ seers) \cap DOMAIN s.presence :
                      s.presence[m] = Subscribed}
           p == Put(Put(s.presence, seen, Subscribed), lost, time)
           t == MarkPresence(s, time, seers)
<1>1. IsStore(s)
  BY DEF Sound, StoreOK
<1>2. t = [s EXCEPT !.presence = p]
  BY DEF MarkPresence
<1>3. seen \subseteq DOMAIN s.heartbeats /\ lost \subseteq DOMAIN s.presence
  BY DEF Live
<1>6. \A m \in DOMAIN s.heartbeats : s.heartbeats[m] >= time =>
        /\ m \in seen <=> m \in seers
        /\ m \in lost <=> m \notin seers /\ m \in DOMAIN s.presence
                            /\ s.presence[m] = Subscribed
  BY DEF Live
<1> HIDE DEF seen, lost
<1>7. \A m \in DOMAIN p :
        m \in DOMAIN s.heartbeats /\ s.heartbeats[m] >= time =>
          IF m \in seers THEN p[m] = Subscribed
          ELSE /\ m \in DOMAIN s.presence
               /\ p[m] = IF s.presence[m] = Subscribed THEN time ELSE s.presence[m]
  BY <1>3, <1>6 DEF Put
<1>4. /\ DOMAIN p \subseteq DOMAIN s.presence \cup DOMAIN s.heartbeats
      /\ \A m \in DOMAIN p : \/ p[m] \in {Subscribed, time}
                             \/ m \in DOMAIN s.presence /\ p[m] = s.presence[m]
  BY <1>3 DEF Put
<1> HIDE DEF p, t
<1>5. /\ SamePending(s, t) /\ t.clock = s.clock /\ t.heartbeats = s.heartbeats
      /\ t.presence = p
  BY <1>1, <1>2 DEF IsStore, SamePending
<1> QED BY <1>4, <1>5, <1>7 DEF t

LEMMA ReleaseTimes ==
  ASSUME NEW s, Sound(s), NEW O, NEW t \in Releases(s, O)
  PROVE  /\ t.paused = s.paused /\ t.clock = s.clock
         /\ DOMAIN t.nacked = {id \in DOMAIN s.nacked : id.owner \notin O}
         /\ DOMAIN t.timeouts \subseteq DOMAIN s.timeouts
         /\ DOMAIN t.heartbeats = DOMAIN s.heartbeats \ O
         /\ DOMAIN t.presence = DOMAIN s.presence \ O
         /\ \A m \in DOMAIN t.heartbeats : t.heartbeats[m] = s.heartbeats[m]
         /\ \A m \in DOMAIN t.presence : t.presence[m] = s.presence[m]
<1> DEFINE S == OwnedBy(s, O)
<1>1. PICK ids \in SortedOrders(S) :
        t = [Move(s, S, ids) EXCEPT !.heartbeats = Drop(@, O), !.presence = Drop(@, O)]
  BY DEF Releases
<1>2. S = {id \in DOMAIN s.nacked : id.owner \in O}
  BY DEF OwnedBy
<1> HIDE DEF S
<1> DEFINE q == Reverse([i \in 1..Len(ids) |-> s.nacked[ids[i]]]) \o s.queue
           n == Drop(s.nacked, S)
           d == Drop(s.timeouts, S)
           h == Drop(s.heartbeats, O)
           p == Drop(s.presence, O)
<1>3. IsStore(s)
  BY DEF Sound, StoreOK
<1>4. Move(s, S, ids) = [s EXCEPT !.queue = q, !.nacked = n, !.timeouts = d]
  BY DEF Move
<1> HIDE DEF q, n, d
<1>5. /\ t = [s EXCEPT !.queue = q, !.nacked = n, !.timeouts = d,
                       !.heartbeats = h, !.presence = p]
  BY <1>1, <1>3, <1>4 DEF IsStore
<1> HIDE DEF h, p
<1>6. /\ t.paused = s.paused /\ t.clock = s.clock /\ t.nacked = n /\ t.timeouts = d
      /\ t.heartbeats = h /\ t.presence = p
  BY <1>3, <1>5 DEF IsStore
<1>7. DOMAIN n = {id \in DOMAIN s.nacked : id.owner \notin O}
  BY <1>2 DEF n, Drop
<1>8. /\ DOMAIN d \subseteq DOMAIN s.timeouts
      /\ DOMAIN h = DOMAIN s.heartbeats \ O /\ DOMAIN p = DOMAIN s.presence \ O
      /\ \A m \in DOMAIN h : h[m] = s.heartbeats[m]
      /\ \A m \in DOMAIN p : p[m] = s.presence[m]
  BY DEF d, h, p, Drop
<1> QED BY <1>6, <1>7, <1>8

(* A sweep without expired deadlines: whom it may take for dead, and what  *)
(* it leaves of the heartbeats and the marks of the others (tickBody).     *)
Swept(s, t, o, time, dead) ==
  LET gap == MovedOn(s, time) IN
  /\ t.paused = s.paused /\ DOMAIN t.timeouts = {}
  /\ t.clock = IF Ticked(s, time) THEN time ELSE s.clock
  /\ DOMAIN t.nacked = {id \in DOMAIN s.nacked : id.owner \notin dead}
  /\ DOMAIN t.heartbeats \subseteq DOMAIN s.heartbeats
  /\ DOMAIN t.presence \subseteq DOMAIN t.heartbeats
  /\ s.clock = Absent => dead = {}
  /\ o \in DOMAIN t.heartbeats => HBT[o] > 0
  /\ o \notin dead
  /\ \A m \in DOMAIN t.heartbeats :
       t.heartbeats[m] = IF m = o THEN time + HBT[o] ELSE s.heartbeats[m] + gap
  /\ \A m \in DOMAIN t.presence :
       \/ t.presence[m] \in {Subscribed, time}
       \/ /\ m # o /\ m \in DOMAIN s.presence /\ s.presence[m] # Subscribed
          /\ t.presence[m] = s.presence[m] + gap
  /\ \A m \in dead :
       /\ m \in DOMAIN s.heartbeats
       /\ \/ s.heartbeats[m] + gap <= time
          \/ /\ m \in DOMAIN s.presence /\ s.presence[m] # Subscribed
             /\ time - (s.presence[m] + gap) >= PresenceGrace

(* What the sweep has found out about those that it does not take for      *)
(* dead, seers being subscribed.                                           *)
Found(s, t, o, time, seers) ==
  LET gap == MovedOn(s, time) IN
  /\ \A m \in DOMAIN t.heartbeats : t.heartbeats[m] > time
  /\ \A m \in DOMAIN t.presence :
       LET was == IF m = o \/ s.presence[m] = Subscribed THEN Subscribed
                  ELSE s.presence[m] + gap
           mark == t.presence[m]
       IN  IF ~Ticked(s, time) THEN m \in DOMAIN s.presence /\ mark = was
           ELSE IF m \in seers THEN mark = Subscribed
           ELSE /\ m \in DOMAIN s.presence
                /\ IF was = Subscribed THEN mark = time
                   ELSE mark = was /\ time - was < PresenceGrace

LEMMA TicksTimes ==
  ASSUME NEW s, Sound(s), NEW o \in Owners, NEW time \in Nat,
         NEW seers \in SUBSET Owners, NEW t \in Ticks(s, o, time, seers),
         DOMAIN s.timeouts = {}, DOMAIN s.presence \subseteq DOMAIN s.heartbeats
  PROVE  \E dead : /\ Swept(s, t, o, time, dead)
                   /\ s.clock # Absent => Found(s, t, o, time, seers)
<1> DEFINE ticked == Ticked(s, time)
           shifted == Shift(s, time)
           clocked == [shifted EXCEPT !.clock = IF ticked THEN time ELSE @]
           renewed == RenewOwn(clocked, o, time)
           late == Expired(renewed, time)
           swept == {Move(renewed, late, ids) :
                       ids \in DeadlineOrders(renewed, late \cap DOMAIN renewed.nacked)}
           dead == Lapsed(renewed, time)
                     \cup (IF ticked THEN Gone(renewed, time, seers) ELSE {})
           Marked(u) == IF ticked THEN MarkPresence(u, time, seers) ELSE u
           gap == MovedOn(s, time)
<1>1. t \in IF s.clock = Absent THEN swept
            ELSE UNION {Releases(Marked(u), dead) : u \in swept}
  BY DEF Ticks
<1>2. /\ Sound(shifted) /\ SamePending(s, shifted) /\ shifted.clock = s.clock /\ gap \in Nat
      /\ DOMAIN shifted.heartbeats = DOMAIN s.heartbeats
      /\ DOMAIN shifted.presence = DOMAIN s.presence
      /\ \A m \in DOMAIN s.heartbeats : shifted.heartbeats[m] = s.heartbeats[m] + gap
      /\ \A m \in DOMAIN s.presence :
           shifted.presence[m] = IF s.presence[m] = Subscribed THEN Subscribed
                                 ELSE s.presence[m] + gap
  BY ShiftSound, ShiftTimes DEF Keeps
<1> HIDE DEF shifted, ticked, gap
<1>3. /\ Sound(clocked) /\ SamePending(s, clocked)
      /\ clocked.clock = IF ticked THEN time ELSE s.clock
      /\ clocked.heartbeats = shifted.heartbeats /\ clocked.presence = shifted.presence
  <2> DEFINE c == IF ticked THEN time ELSE shifted.clock
  <2>1. c \in Nat /\ IsStore(shifted)
    BY <1>2 DEF Sound, StoreOK
  <2>2. clocked = [shifted EXCEPT !.clock = c]
    OBVIOUS
  <2>3. c = IF ticked THEN time ELSE s.clock
    BY <1>2
  <2> HIDE DEF c, clocked
  <2>4. /\ clocked.nacked = shifted.nacked /\ clocked.timeouts = shifted.timeouts
        /\ clocked.paused = shifted.paused /\ clocked.clock = c
        /\ clocked.heartbeats = shifted.heartbeats /\ clocked.presence = shifted.presence
    BY <2>1, <2>2 DEF IsStore
  <2>5. Sound(clocked)
    BY <1>2, <2>1, <2>2, ClockSound DEF Keeps
  <2> QED BY <1>2, <2>3, <2>4, <2>5 DEF SamePending
<1> HIDE DEF clocked
<1>4. /\ Sound(renewed) /\ SamePending(s, renewed)
      /\ renewed.clock = IF ticked THEN time ELSE s.clock
      /\ DOMAIN renewed.heartbeats = DOMAIN s.heartbeats \ (IF HBT[o] > 0 THEN {} ELSE {o})
      /\ DOMAIN renewed.presence \subseteq DOMAIN s.presence
      /\ o \in DOMAIN renewed.presence => HBT[o] > 0 \/ o \notin DOMAIN s.heartbeats
      /\ \A m \in DOMAIN renewed.heartbeats :
           renewed.heartbeats[m] = IF m = o THEN time + HBT[o] ELSE s.heartbeats[m] + gap
      /\ \A m \in DOMAIN renewed.presence :
           renewed.presence[m] = IF m = o \/ s.presence[m] = Subscribed
                                 THEN Subscribed ELSE s.presence[m] + gap
  <2>1. Sound(renewed)
    BY <1>3, RenewOwnSound DEF Keeps
  <2>2. LET r == RenewOwn(clocked, o, time)
         IN  /\ SamePending(clocked, r) /\ r.clock = clocked.clock
             /\ DOMAIN r.heartbeats = DOMAIN clocked.heartbeats \ (IF HBT[o] > 0 THEN {} ELSE {o})
             /\ DOMAIN r.presence \subseteq DOMAIN clocked.presence
             /\ o \in DOMAIN r.presence => HBT[o] > 0 \/ o \notin DOMAIN clocked.heartbeats
             /\ \A m \in DOMAIN r.heartbeats :
                  r.heartbeats[m] = IF m = o THEN time + HBT[o] ELSE clocked.heartbeats[m]
             /\ \A m \in DOMAIN r.presence :
                  r.presence[m] = IF m = o /\ o \in DOMAIN clocked.heartbeats
                                  THEN Subscribed ELSE clocked.presence[m]
    BY <1>3, RenewTimes
  <2> HIDE DEF renewed
  <2>3. /\ SamePending(s, renewed) /\ renewed.clock = IF ticked THEN time ELSE s.clock
    BY <1>3, <2>2 DEF SamePending, renewed
  <2>4. /\ DOMAIN renewed.heartbeats = DOMAIN s.heartbeats \ (IF HBT[o] > 0 THEN {} ELSE {o})
        /\ DOMAIN renewed.presence \subseteq DOMAIN s.presence
        /\ o \in DOMAIN renewed.presence => HBT[o] > 0 \/ o \notin DOMAIN s.heartbeats
    BY <1>2, <1>3, <2>2 DEF renewed
  <2>5. \A m \in DOMAIN renewed.heartbeats :
           renewed.heartbeats[m] = IF m = o THEN time + HBT[o] ELSE s.heartbeats[m] + gap
    BY <1>2, <1>3, <2>2, <2>4 DEF renewed
  <2>6. \A m \in DOMAIN renewed.presence :
           renewed.presence[m] = IF m = o \/ s.presence[m] = Subscribed
                                 THEN Subscribed ELSE s.presence[m] + gap
    BY <1>2, <1>3, <2>2, <2>4 DEF renewed
  <2> QED BY <2>1, <2>3, <2>4, <2>5, <2>6
<1> HIDE DEF renewed
<1>5. late = {}
  BY <1>4 DEF Expired, SamePending
<1>6. ASSUME NEW u \in swept
      PROVE  /\ Sound(u) /\ u.paused = s.paused /\ DOMAIN u.timeouts = {}
             /\ DOMAIN u.nacked = DOMAIN s.nacked
             /\ u.clock = renewed.clock /\ u.heartbeats = renewed.heartbeats
             /\ u.presence = renewed.presence
  <2>1. PICK ids \in DeadlineOrders(renewed, late \cap DOMAIN renewed.nacked) :
          u = Move(renewed, late, ids)
    OBVIOUS
  <2>2. ids \in Orderings(late \cap DOMAIN renewed.nacked)
    BY DEF DeadlineOrders
  <2>3. /\ Keeps(renewed, u) /\ u.nacked = Drop(renewed.nacked, late)
        /\ u.timeouts = Drop(renewed.timeouts, late)
        /\ u.heartbeats = renewed.heartbeats /\ u.presence = renewed.presence
    BY <1>4, <2>1, <2>2, MoveSound
  <2>4. u.clock = renewed.clock /\ u.paused = renewed.paused
    BY <1>4, <2>1 DEF Move, Sound, StoreOK, IsStore
  <2> QED BY <1>4, <1>5, <2>3, <2>4 DEF Keeps, Drop, SamePending
<1> HIDE DEF swept
<1>7. /\ dead \subseteq DOMAIN renewed.heartbeats /\ o \notin dead
      /\ \A m \in dead :
           /\ m \in DOMAIN s.heartbeats
           /\ \/ s.heartbeats[m] + gap <= time
              \/ /\ m \in DOMAIN s.presence /\ s.presence[m] # Subscribed
                 /\ time - (s.presence[m] + gap) >= PresenceGrace
  <2>1. ASSUME NEW m \in Lapsed(renewed, time)
        PROVE  m \in DOMAIN renewed.heartbeats /\ m # o /\ s.heartbeats[m] + gap <= time
    <3>1. m \in DOMAIN renewed.heartbeats /\ renewed.heartbeats[m] <= time
      BY DEF Lapsed
    <3>2. m # o
      <4> SUFFICES ASSUME m = o PROVE FALSE
        OBVIOUS
      <4>1. HBT[o] > 0 /\ HBT[o] \in Nat
        BY <1>4, <3>1, TimeoutAssumption
      <4> QED BY <1>4, <3>1, <4>1
    <3> QED BY <1>4, <3>1, <3>2
  <2>2. ASSUME NEW m \in Gone(renewed, time, seers)
        PROVE  /\ m \in DOMAIN renewed.heartbeats /\ m # o
               /\ m \in DOMAIN s.presence /\ s.presence[m] # Subscribed
               /\ time - (s.presence[m] + gap) >= PresenceGrace
    <3>1. /\ m \in DOMAIN renewed.heartbeats /\ m \in DOMAIN renewed.presence
          /\ renewed.presence[m] # Subscribed
          /\ time - renewed.presence[m] >= PresenceGrace
      BY DEF Gone, Live
    <3> QED BY <1>4, <3>1
  <2>3. DOMAIN renewed.heartbeats \subseteq DOMAIN s.heartbeats
    BY <1>4
  <2>4. \A m \in dead : m \in Lapsed(renewed, time) \/ m \in Gone(renewed, time, seers)
    OBVIOUS
  <2> HIDE DEF dead
  <2> QED BY <2>1, <2>2, <2>3, <2>4
<1>10. /\ \A m \in DOMAIN renewed.heartbeats :
             m \notin dead /\ renewed.heartbeats[m] \in Nat => renewed.heartbeats[m] > time
       /\ \A m \in DOMAIN renewed.heartbeats \ seers :
            m \in DOMAIN renewed.presence /\ renewed.presence[m] # Subscribed
              /\ renewed.heartbeats[m] >= time /\ ticked /\ m \notin dead =>
            time - renewed.presence[m] < PresenceGrace
  <2>1. \A m \in DOMAIN renewed.presence : renewed.presence[m] \in Nat
    BY <1>4 DEF Sound, StoreOK, IsPartial
  <2>2. PresenceGrace \in Nat
    BY TimeoutAssumption
  <2> QED BY <2>1, <2>2 DEF Lapsed, Gone, Live
<1> HIDE DEF dead
<1>8. CASE s.clock = Absent
  <2>1. t \in swept
    BY <1>1, <1>8
  <2>2. /\ t.paused = s.paused /\ DOMAIN t.timeouts = {} /\ DOMAIN t.nacked = DOMAIN s.nacked
        /\ t.clock = renewed.clock /\ t.heartbeats = renewed.heartbeats
        /\ t.presence = renewed.presence
    BY <1>6, <2>1
  <2>3. o \in DOMAIN t.heartbeats => HBT[o] > 0
    BY <1>4, <2>2
  <2>4. DOMAIN t.presence \subseteq DOMAIN t.heartbeats
    BY <1>4, <2>2
  <2>5. \A m \in DOMAIN t.presence :
          \/ t.presence[m] \in {Subscribed, time}
          \/ /\ m # o /\ m \in DOMAIN s.presence /\ s.presence[m] # Subscribed
             /\ t.presence[m] = s.presence[m] + gap
    BY <1>4, <2>2
  <2>6. Swept(s, t, o, time, {})
    BY <1>4, <2>2, <2>3, <2>4, <2>5 DEF Swept, ticked, gap
  <2> QED BY <1>8, <2>6
<1>9. CASE s.clock # Absent
  <2>1. PICK u \in swept : t \in Releases(Marked(u), dead)
    BY <1>1, <1>9
  <2> DEFINE m0 == Marked(u)
  <2>2. /\ Sound(m0) /\ m0.paused = s.paused /\ DOMAIN m0.timeouts = {}
        /\ DOMAIN m0.nacked = DOMAIN s.nacked /\ m0.clock = renewed.clock
        /\ m0.heartbeats = renewed.heartbeats
        /\ DOMAIN m0.presence \subseteq DOMAIN renewed.presence \cup DOMAIN renewed.heartbeats
        /\ \A m \in DOMAIN m0.presence :
             \/ m0.presence[m] \in {Subscribed, time}
             \/ m \in DOMAIN renewed.presence /\ m0.presence[m] = renewed.presence[m]
        /\ ~ticked => m0.presence = renewed.presence
        /\ ticked => \A m \in DOMAIN m0.presence :
             m \in DOMAIN renewed.heartbeats /\ renewed.heartbeats[m] >= time =>
               IF m \in seers THEN m0.presence[m] = Subscribed
               ELSE /\ m \in DOMAIN renewed.presence
                    /\ m0.presence[m] = IF renewed.presence[m] = Subscribed THEN time
                                        ELSE renewed.presence[m]
    <3>1. CASE ticked
      <4>1. m0 = MarkPresence(u, time, seers) BY <3>1
      <4> HIDE DEF m0
      <4>2. Sound(m0) BY <1>6, <4>1, MarkPresenceSound DEF Keeps
      <4> QED BY <1>6, <3>1, <4>1, <4>2, MarkTimes DEF SamePending
    <3>2. CASE ~ticked
      <4>1. m0 = u BY <3>2
      <4> HIDE DEF m0
      <4> QED BY <1>6, <3>2, <4>1
    <3> QED BY <3>1, <3>2
  <2>3. t \in Releases(m0, dead) BY <2>1
  <2> HIDE DEF m0
  <2>4. /\ t.paused = s.paused /\ t.clock = renewed.clock
        /\ DOMAIN t.nacked = {id \in DOMAIN s.nacked : id.owner \notin dead}
        /\ DOMAIN t.timeouts = {}
        /\ DOMAIN t.heartbeats = DOMAIN renewed.heartbeats \ dead
        /\ DOMAIN t.presence = DOMAIN m0.presence \ dead
        /\ \A m \in DOMAIN t.heartbeats : t.heartbeats[m] = renewed.heartbeats[m]
        /\ \A m \in DOMAIN t.presence : t.presence[m] = m0.presence[m]
    BY <2>2, <2>3, ReleaseTimes
  <2>5. o \in DOMAIN t.heartbeats => HBT[o] > 0
    BY <1>4, <2>4
  <2>6. DOMAIN t.presence \subseteq DOMAIN t.heartbeats
    BY <1>4, <2>2, <2>4
  <2>7. \A m \in DOMAIN t.presence :
          \/ t.presence[m] \in {Subscribed, time}
          \/ /\ m # o /\ m \in DOMAIN s.presence /\ s.presence[m] # Subscribed
             /\ t.presence[m] = s.presence[m] + gap
    BY <1>4, <2>2, <2>4
  <2>8. \A m \in DOMAIN t.heartbeats :
          t.heartbeats[m] = IF m = o THEN time + HBT[o] ELSE s.heartbeats[m] + gap
    BY <1>4, <2>4
  <2>9. DOMAIN t.heartbeats \subseteq DOMAIN s.heartbeats
    BY <1>4, <2>4
  <2>10. Swept(s, t, o, time, dead)
    BY <1>4, <1>7, <1>9, <2>4, <2>5, <2>6, <2>7, <2>8, <2>9 DEF Swept, ticked, gap
  <2>11. /\ \A m \in DOMAIN t.heartbeats : t.heartbeats[m] > time
         /\ \A m \in DOMAIN t.presence : renewed.heartbeats[m] > time /\ m \in DOMAIN renewed.heartbeats
    <3>1. \A m \in DOMAIN renewed.heartbeats : renewed.heartbeats[m] \in Nat
      BY <1>4 DEF Sound, StoreOK, IsPartial
    <3>2. \A m \in DOMAIN t.heartbeats : m \in DOMAIN renewed.heartbeats /\ renewed.heartbeats[m] > time
      BY <1>10, <2>4, <3>1
    <3> QED BY <2>4, <2>6, <3>2
  <2>12. Found(s, t, o, time, seers)
    <3> DEFINE Was(m) == IF m = o \/ s.presence[m] = Subscribed THEN Subscribed
                         ELSE s.presence[m] + gap
    <3> SUFFICES ASSUME NEW m \in DOMAIN t.presence
                 PROVE  IF ~ticked THEN m \in DOMAIN s.presence /\ t.presence[m] = Was(m)
                        ELSE IF m \in seers THEN t.presence[m] = Subscribed
                        ELSE /\ m \in DOMAIN s.presence
                             /\ IF Was(m) = Subscribed THEN t.presence[m] = time
                                ELSE t.presence[m] = Was(m) /\ time - Was(m) < PresenceGrace
      BY <2>11 DEF Found, ticked, gap
    <3>1. /\ m \in DOMAIN m0.presence /\ t.presence[m] = m0.presence[m] /\ m \notin dead
          /\ m \in DOMAIN renewed.heartbeats /\ renewed.heartbeats[m] > time
          /\ renewed.heartbeats[m] \in Nat /\ renewed.heartbeats[m] >= time
      BY <1>4, <2>4, <2>11 DEF Sound, StoreOK, IsPartial
    <3>2. m \in DOMAIN renewed.presence => m \in DOMAIN s.presence /\ renewed.presence[m] = Was(m)
      BY <1>4
    <3> HIDE DEF Was
    <3>3. CASE ~ticked
      BY <2>2, <3>1, <3>2, <3>3
    <3>4. CASE ticked /\ m \in seers
      BY <2>2, <3>1, <3>4
    <3>5. CASE ticked /\ m \notin seers
      <4>1. /\ m \in DOMAIN renewed.presence
            /\ t.presence[m] = IF renewed.presence[m] = Subscribed THEN time
                               ELSE renewed.presence[m]
        BY <2>2, <3>1, <3>5
      <4>2. renewed.presence[m] # Subscribed => time - renewed.presence[m] < PresenceGrace
        BY <1>10, <3>1, <3>5, <4>1
      <4> QED BY <3>2, <3>5, <4>1, <4>2
    <3> QED BY <3>3, <3>4, <3>5
  <2> QED BY <2>10, <2>12
<1> QED BY <1>8, <1>9

(* A store whose queue and pending items are replaced.                     *)
LEMMA NewQueueAndPending ==
  ASSUME NEW s, IsStore(s), NEW q, NEW n, NEW u, u = [s EXCEPT !.queue = q, !.nacked = n]
  PROVE  /\ u.heartbeats = s.heartbeats /\ u.nacked = n /\ u.paused = s.paused
         /\ u.clock = s.clock /\ u.timeouts = s.timeouts /\ u.presence = s.presence
         /\ IsStore(u)
BY DEF IsStore

(* The first and only pop of an owner (AckPop).                            *)
FirstPop(o) == [owner |-> o, start |-> 1, want |-> 1]

LEMMA PopTimes ==
  ASSUME NEW s, Sound(s), NEW o \in Owners, NEW time \in Nat, VT[o] = 0,
         s.queue # <<>>, s.paused = Absent, \A id \in DOMAIN s.nacked : id.owner # o
  PROVE  LET t == AckPop(s, FirstPop(o), time)
         IN  /\ Sound(t) /\ t.paused = s.paused /\ t.clock = s.clock
             /\ t.timeouts = s.timeouts /\ t.presence = s.presence
             /\ DOMAIN t.nacked = DOMAIN s.nacked \cup {IdOf(FirstPop(o), 1)}
             /\ t.heartbeats = IF HBT[o] > 0 THEN Put(s.heartbeats, {o}, time + HBT[o])
                               ELSE s.heartbeats
<1> DEFINE r == FirstPop(o)
           ids == {IdOf(r, i) : i \in 1..1}
           q == SubSeq(s.queue, 2, Len(s.queue))
           n == [id \in DOMAIN s.nacked \cup ids |->
                   IF id \in ids THEN s.queue[id.index] ELSE s.nacked[id]]
           u == [s EXCEPT !.queue = q, !.nacked = n]
           h == IF HBT[o] > 0 THEN Put(s.heartbeats, {o}, time + HBT[o]) ELSE s.heartbeats
           t == AckPop(s, r, time)
<1>1. /\ IsStore(s) /\ Len(s.queue) \in Nat /\ Len(s.queue) # 0
  BY EmptySeq, LenProperties DEF Sound, StoreOK
<1>2. r \in Reservations /\ r.owner = o /\ r.want = 1
  BY DEF FirstPop, Reservations
<1>3. Sound(t)
  <2> HIDE DEF r, t
  <2>1. LET u1 == AckPop(s, r, time) IN Sound(u1)
    BY <1>2, AckPopSound
  <2> QED BY <2>1 DEF t
<1>4. Ids(r) = ids /\ ids = {IdOf(r, 1)}
  BY <1>2 DEF Ids
<1>5. Ids(r) \cap DOMAIN s.nacked = {}
  BY <1>2, <1>4 DEF IdOf
<1>6. t = PopFresh(s, r, time)
  BY <1>5 DEF AckPop
<1>7. (IF Len(s.queue) < r.want THEN Len(s.queue) ELSE r.want) = 1
  BY <1>1, <1>2
<1>8. t = Beat(u, o, time)
  <2> DEFINE k == IF Len(s.queue) < r.want THEN Len(s.queue) ELSE r.want
             some == {IdOf(r, i) : i \in 1..k}
             v == [s EXCEPT
                     !.queue = SubSeq(@, k + 1, Len(@)),
                     !.nacked = [id \in DOMAIN @ \cup some |->
                                   IF id \in some THEN s.queue[id.index] ELSE @[id]],
                     !.timeouts = IF VT[r.owner] > 0
                                  THEN Put(@, some, time + VT[r.owner]) ELSE @]
  <2>1. t = IF k = 0 THEN v ELSE Beat(v, r.owner, time)
    BY <1>6 DEF PopFresh
  <2>2. k = 1 /\ some = ids /\ ~(VT[r.owner] > 0) /\ k + 1 = 2 /\ k # 0
    BY <1>2, <1>7
  <2> HIDE DEF k, some
  <2>3. v = [s EXCEPT !.queue = q, !.nacked = n, !.timeouts = s.timeouts]
    BY <1>1, <2>2 DEF IsStore
  <2>4. v = u
    BY <1>1, <2>3 DEF IsStore
  <2> HIDE DEF v, u
  <2> QED BY <1>2, <2>1, <2>2, <2>4
<1> HIDE DEF t, n, q, u, h
<1>9. /\ u.heartbeats = s.heartbeats /\ u.nacked = n /\ u.paused = s.paused
      /\ u.clock = s.clock /\ u.timeouts = s.timeouts /\ u.presence = s.presence
      /\ IsStore(u)
  BY <1>1, NewQueueAndPending DEF u
<1>10. t = [u EXCEPT !.heartbeats = h]
  BY <1>8, <1>9 DEF Beat, h
<1>11. /\ t.heartbeats = h /\ t.nacked = n /\ t.paused = s.paused
       /\ t.clock = s.clock /\ t.timeouts = s.timeouts /\ t.presence = s.presence
  BY <1>9, <1>10 DEF IsStore
<1>12. DOMAIN n = DOMAIN s.nacked \cup {IdOf(r, 1)}
  BY <1>4 DEF n
<1> QED BY <1>3, <1>11, <1>12 DEF t, h

-----------------------------------------------------------------------------
(* The type invariant and the marks.                                       *)

(* The invariant behind both: the store is sound, there are no deadlines   *)
(* and no pause, and what is pending or beats belongs to holders that have *)
(* popped.                                                                 *)
FDInv ==
  /\ TypeOK /\ Sound(redis)
  /\ DOMAIN redis.timeouts = {} /\ redis.paused = Absent
  /\ NoStaleMarks
  /\ \A id \in DOMAIN redis.nacked : id.owner \in took
  /\ \A o \in DOMAIN redis.heartbeats : HBT[o] > 0 /\ o \in took

(* The next multiple of a number.                                          *)
LEMMA NextMultiple ==
  ASSUME NEW p \in Nat \ {0}, NEW x \in Nat
  PROVE  (x + p - (x % p)) % p = 0
OBVIOUS

(* The next tick of a ticker, however late its sweep.                      *)
LEMMA NextTick ==
  ASSUME NEW d \in Nat, NEW time \in Nat, d <= time
  PROVE  \E t \in time + 1 .. time + Period : (t - d) % Period = 0
<1> DEFINE x == time - d
           t == time + Period - (x % Period)
<1>1. Period \in Nat \ {0} /\ x \in Nat
  BY FDAssumption
<1>2. x % Period \in 0 .. Period - 1
  BY <1>1
<1>3. (x + Period - (x % Period)) % Period = 0
  <2> HIDE DEF x
  <2> QED BY <1>1, NextMultiple
<1>4. x % Period \in Int /\ t \in time + 1 .. time + Period
  BY <1>1, <1>2
<1>5. t - d = x + Period - (x % Period)
  BY <1>1, <1>4
<1> HIDE DEF t
<1> QED BY <1>3, <1>4, <1>5

(* A step that leaves Redis alone.                                         *)
LEMMA SameRedis ==
  ASSUME FDInv, UNCHANGED <<redis, took>>, TypeOK' PROVE FDInv'
BY DEF FDInv, NoStaleMarks

(* A sweep, whoever runs it.                                               *)
LEMMA SweepKeepsInv ==
  ASSUME FDInv, NEW o \in Owners, redis' \in Ticks(redis, o, now, subs'), subs' \in SUBSET Owners,
         took' = took, StoreOK(redis') => TypeOK'
  PROVE  /\ FDInv'
         /\ \E dead : Swept(redis, redis', o, now, dead)
         /\ redis.clock # Absent => Found(redis, redis', o, now, subs')
<1>1. Sound(redis) /\ now \in Nat
  BY DEF FDInv, TypeOK
<1>2. Sound(redis')
  BY <1>1, TicksSound DEF Keeps
<1>3. PICK dead : /\ Swept(redis, redis', o, now, dead)
                  /\ redis.clock # Absent => Found(redis, redis', o, now, subs')
  BY <1>1, TicksTimes DEF FDInv, NoStaleMarks
<1>4. TypeOK'
  BY <1>2 DEF FDInv, Sound
<1>5. /\ DOMAIN redis'.timeouts = {} /\ redis'.paused = redis.paused
      /\ DOMAIN redis'.nacked \subseteq DOMAIN redis.nacked
      /\ DOMAIN redis'.heartbeats \subseteq DOMAIN redis.heartbeats
      /\ DOMAIN redis'.presence \subseteq DOMAIN redis'.heartbeats
  BY <1>3 DEF Swept
<1>6. FDInv'
  BY <1>2, <1>4, <1>5 DEF FDInv, NoStaleMarks
<1> QED BY <1>3, <1>6

LEMMA FDInit == ASSUME Init PROVE FDInv
<1> DEFINE q == SetToSeq(Jobs)
<1>1. q \in Seq(Jobs) /\ IsInjective(q)
  <2>1. IsFiniteSet(Jobs) /\ Cardinality(Jobs) \in Nat
    BY FDAssumption, FS_CardinalityType
  <2>2. PICK f \in [1..Cardinality(Jobs) -> Jobs] : IsInjective(f)
    <3>1. PICK f \in Bijection(1..Cardinality(Jobs), Jobs) : TRUE
      BY <2>1, FS_CardinalityType DEF ExistsBijection
    <3>2. f \in [1..Cardinality(Jobs) -> Jobs] /\ IsInjective(f)
      BY <3>1 DEF Bijection, Injection, Surjection, IsInjective
    <3> QED BY <3>2
  <2>3. q \in [1..Cardinality(Jobs) -> Jobs] /\ IsInjective(q)
    BY <2>2 DEF SetToSeq
  <2> QED BY <2>1, <2>3
<1> HIDE DEF q
<1>2. Range(q) \cap Range(EmptyStore.nacked) = {}
  BY EmptyFacts DEF EmptyStore
<1>3. Sound(redis)
  <2>1. redis = [EmptyStore EXCEPT !.queue = q]
    BY DEF Init, q
  <2> QED BY <1>1, <1>2, <2>1, EmptySound, NewQueueSound
<1>4. /\ redis.timeouts = EmptyMap /\ redis.paused = Absent /\ redis.clock = Absent
      /\ redis.nacked = EmptyMap /\ redis.heartbeats = EmptyMap /\ redis.presence = EmptyMap
  BY DEF Init, EmptyStore
<1>5. TypeOK
  BY <1>3, FDAssumption DEF Init, TypeOK, Sound
<1> QED BY <1>3, <1>4, <1>5, EmptyFacts DEF FDInv, NoStaleMarks

(* A holder that has not popped has nothing pending, and its pop takes the *)
(* job at the head and sets its heartbeat.                                 *)
LEMMA PopStep ==
  ASSUME FDInv, NEW o \in Owners, Pop(o)
  PROVE  /\ Sound(redis') /\ redis'.paused = redis.paused /\ redis'.clock = redis.clock
         /\ redis'.timeouts = redis.timeouts /\ redis'.presence = redis.presence
         /\ DOMAIN redis'.nacked = DOMAIN redis.nacked \cup {IdOf(FirstPop(o), 1)}
         /\ redis'.heartbeats = IF HBT[o] > 0 THEN Put(redis.heartbeats, {o}, now + HBT[o])
                                ELSE redis.heartbeats
         /\ o \notin took /\ took' = took \cup {o}
<1>1. /\ redis' = AckPop(redis, FirstPop(o), now) /\ redis.queue # <<>> /\ o \notin took
      /\ took' = took \cup {o}
  BY DEF Pop, FirstPop
<1>2. VT[o] = 0 /\ now \in Nat
  BY FDAssumption DEF FDInv, TypeOK
<1>3. \A id \in DOMAIN redis.nacked : id.owner # o
  BY <1>1 DEF FDInv
<1>4. Sound(redis) /\ redis.paused = Absent
  BY DEF FDInv
<1> QED BY <1>1, <1>2, <1>3, <1>4, PopTimes

LEMMA FDStep == ASSUME FDInv, [Next]_vars PROVE FDInv'
<1>0. TypeOK
  BY DEF FDInv
<1>1. CASE UNCHANGED vars
  BY <1>1 DEF vars, FDInv, TypeOK, NoStaleMarks
<1>2. ASSUME NEW o \in Owners, Start(o) PROVE FDInv'
  <2>1. StoreOK(redis') => TypeOK'
    BY <1>0, <1>2, FDAssumption DEF Start, TypeOK
  <2>2. subs' \in SUBSET Owners
    BY <1>0, <1>2 DEF Start, TypeOK
  <2> QED BY <1>2, <2>1, <2>2, SweepKeepsInv DEF Start
<1>3. ASSUME NEW o \in Owners, Pop(o) PROVE FDInv'
  <2>1. TypeOK'
    BY <1>0, <1>3, PopStep DEF Pop, TypeOK, Sound
  <2>2. \A id \in DOMAIN redis'.nacked : id.owner \in took'
    <3>1. /\ DOMAIN redis'.nacked = DOMAIN redis.nacked \cup {IdOf(FirstPop(o), 1)}
          /\ took' = took \cup {o}
      BY <1>3, PopStep
    <3>2. IdOf(FirstPop(o), 1).owner = o
      BY DEF IdOf, FirstPop
    <3>3. \A id \in DOMAIN redis.nacked : id.owner \in took
      BY DEF FDInv
    <3> QED BY <3>1, <3>2, <3>3
  <2>3. /\ \A q \in DOMAIN redis'.heartbeats : HBT[q] > 0 /\ q \in took'
        /\ DOMAIN redis.heartbeats \subseteq DOMAIN redis'.heartbeats
    <3>1. /\ redis'.heartbeats = IF HBT[o] > 0 THEN Put(redis.heartbeats, {o}, now + HBT[o])
                                 ELSE redis.heartbeats
          /\ took' = took \cup {o}
      BY <1>3, PopStep
    <3>2. \A q \in DOMAIN redis.heartbeats : HBT[q] > 0 /\ q \in took
      BY DEF FDInv
    <3>3. CASE HBT[o] > 0
      <4>1. DOMAIN redis'.heartbeats = DOMAIN redis.heartbeats \cup {o}
        BY <3>1, <3>3 DEF Put
      <4> QED BY <3>1, <3>2, <3>3, <4>1
    <3>4. CASE ~(HBT[o] > 0)
      BY <3>1, <3>2, <3>4
    <3> QED BY <3>3, <3>4
  <2> QED BY <1>3, <2>1, <2>2, <2>3, PopStep DEF FDInv, NoStaleMarks
<1>4. ASSUME NEW o \in Owners, Sweep(o) PROVE FDInv'
  <2>1. PICK t \in now + 1 .. now + Period : due' = [due EXCEPT ![o] = t]
    <3>1. due[o] \in Nat /\ now \in Nat /\ due[o] <= now
      BY <1>0, <1>4, FDAssumption DEF Sweep, TypeOK
    <3> QED BY <1>4, <3>1, NextTick DEF Sweep
  <2>2. due' \in [Owners -> 0 .. MaxTime + Period]
    <3>1. t \in 0 .. MaxTime + Period
      BY <1>0, FDAssumption DEF TypeOK
    <3> QED BY <1>0, <2>1, <3>1 DEF TypeOK
  <2>3. StoreOK(redis') => TypeOK'
    BY <1>0, <1>4, <2>2 DEF Sweep, TypeOK
  <2>4. subs' = subs /\ subs' \in SUBSET Owners
    BY <1>0, <1>4 DEF Sweep, TypeOK
  <2> QED BY <1>4, <2>3, <2>4, SweepKeepsInv DEF Sweep
<1>5. ASSUME NEW o \in Owners, NEW how \in {"killed", "lost"}, Die(o, how) PROVE FDInv'
  <2>1. TypeOK' BY <1>0, <1>5, FDAssumption DEF Die, TypeOK
  <2> QED BY <1>5, <2>1, SameRedis DEF Die
<1>6. ASSUME NEW o \in Owners, Unsubscribe(o) \/ Resubscribe(o) PROVE FDInv'
  <2>1. TypeOK' BY <1>0, <1>6 DEF Unsubscribe, Resubscribe, TypeOK
  <2> QED BY <1>6, <2>1, SameRedis DEF Unsubscribe, Resubscribe
<1>7. ASSUME NEW d \in Stalls, Stall(d) PROVE FDInv'
  <2>1. TypeOK' BY <1>0, <1>7, FDAssumption DEF Stall, TypeOK
  <2> QED BY <1>7, <2>1, SameRedis DEF Stall
<1>8. CASE Advance
  <2>1. TypeOK' BY <1>0, <1>8, FDAssumption DEF Advance, TypeOK
  <2> QED BY <1>8, <2>1, SameRedis DEF Advance
<1> QED BY <1>1, <1>2, <1>3, <1>4, <1>5, <1>6, <1>7, <1>8 DEF Next

(* The type invariant of the failure detector, for any timeouts and any    *)
(* number of owners; in particular every sweep finds the next tick of its  *)
(* ticker within one period.                                               *)
THEOREM DetectorTypes == Spec => []TypeOK
<1>1. Init => FDInv
  BY FDInit
<1>2. FDInv /\ [Next]_vars => FDInv'
  BY FDStep
<1>3. FDInv => TypeOK
  BY DEF FDInv
<1> QED BY <1>1, <1>2, <1>3, PTL DEF Spec

(* No presence mark outlives its heartbeat: a sweep that takes an owner    *)
(* for dead drops both, a sweeper without a heartbeat timeout drops its    *)
(* own, and only an owner with a live heartbeat is marked (tickBody), so   *)
(* no mark of an earlier life shortens the grace of a later pop.           *)
THEOREM MarksAreFresh == Spec => []NoStaleMarks
<1>1. Init => FDInv
  BY FDInit
<1>2. FDInv /\ [Next]_vars => FDInv'
  BY FDStep
<1>3. FDInv => NoStaleMarks
  BY DEF FDInv
<1> QED BY <1>1, <1>2, <1>3, PTL DEF Spec

-----------------------------------------------------------------------------
(* Why a consumer that sweeps keeps its jobs.                              *)

(* A heartbeat and a grace outlast a period after which the next sweep     *)
(* comes d late.                                                           *)
Tolerates(d) ==
  /\ d + Period < PresenceGrace
  /\ \A o \in Holders : HBT[o] > 0 => d + Period < HBT[o]

(* Either they outlast a stall too, or it is so long that the next sweep   *)
(* moves them on.  (The code's times leave out stalls of 1.5 to 2 s, which *)
(* do cost a live consumer its jobs.)                                      *)
StallsTolerated ==
  /\ Tolerates(0)
  /\ \A d \in Stalls : d > SweepGap \/ Tolerates(d)

LiveHolders == {o \in took : Alive(o) /\ HBT[o] > 0}

(* o's heartbeat and grace are no older than one period before time t.     *)
Fresh(o, t) ==
  /\ redis.heartbeats[o] + Period >= t + HBT[o]
  /\ o \in DOMAIN redis.presence /\ redis.presence[o] # Subscribed =>
       redis.presence[o] + Period >= t

(* Whoever runs has swept, and swept in time unless Redis stalled.         *)
Started ==
  /\ redis.clock <= now
  /\ \A o \in Owners : state[o] # "new" => redis.clock # Absent
  /\ \A o \in took : state[o] # "new"
InTime ==
  \A o \in Owners : Alive(o) => (now <= due[o] \/ now <= stall) /\ due[o] <= now + Period

(* A stall began before the sweeps that it delays were due; after it no    *)
(* sweep has run yet, or it was short, or the first sweep has moved the    *)
(* heartbeats on.                                                          *)
Stalled ==
  stall # 0 => \E d \in Stalls :
    /\ d <= stall /\ stall - d <= now
    /\ \A o \in Owners : Alive(o) => stall - d <= due[o]
    /\ \/ redis.clock <= stall - d
       \/ d <= SweepGap
       \/ \A o \in LiveHolders : Fresh(o, stall)

LiveInv ==
  /\ StallsTolerated /\ FDInv /\ Started /\ InTime /\ Stalled
  /\ LiveKeepsJobs
  /\ \A o \in LiveHolders : Fresh(o, due[o])

(* The numbers of a live holder.                                           *)
LEMMA HolderFacts ==
  ASSUME FDInv, LiveKeepsJobs, NEW o \in LiveHolders
  PROVE  /\ o \in Owners /\ o \in Holders /\ o \in took /\ Alive(o)
         /\ HBT[o] \in Nat /\ HBT[o] > 0
         /\ o \in DOMAIN redis.heartbeats /\ redis.heartbeats[o] \in Nat
         /\ o \in DOMAIN redis.presence => redis.presence[o] \in Nat
<1>1. o \in Owners /\ o \in Holders /\ o \in took /\ Alive(o) /\ HBT[o] > 0
  BY FDAssumption DEF LiveHolders, FDInv, TypeOK
<1>2. HBT[o] \in Nat
  BY <1>1, TimeoutAssumption
<1>3. o \in DOMAIN redis.heartbeats
  <2>1. PICK id \in DOMAIN redis.nacked : id.owner = o
    BY <1>1 DEF LiveKeepsJobs, Holds, OwnedBy
  <2> QED BY <1>1, <2>1 DEF FDInv, Sound, Covered
<1>4. IsPartial(redis.heartbeats, Owners, Nat) /\ IsPartial(redis.presence, Owners, Nat)
  BY DEF FDInv, Sound, StoreOK
<1> QED BY <1>1, <1>2, <1>3, <1>4 DEF IsPartial

(* The numbers of everyone.                                                *)
LEMMA ClockFacts ==
  ASSUME FDInv
  PROVE  /\ now \in Nat \ {0} /\ redis.clock \in Nat /\ stall \in Nat
         /\ Period \in Nat \ {0} /\ SweepGap \in Nat /\ PresenceGrace \in Nat
         /\ Stalls \subseteq Nat
         /\ \A o \in Owners : due[o] \in Nat
         /\ MovedOn(redis, now) \in Nat
<1>1. now \in Nat \ {0} /\ stall \in Nat /\ redis.clock \in Nat
  BY FDAssumption DEF FDInv, TypeOK, StoreOK
<1>2. \A o \in Owners : due[o] \in Nat
  BY FDAssumption DEF FDInv, TypeOK
<1> QED BY <1>1, <1>2, FDAssumption, TimeoutAssumption DEF MovedOn

(* When Redis runs, what a sweep sees of a live holder is late by no more  *)
(* than its heartbeat and grace tolerate.                                  *)
LEMMA HolderInTime ==
  ASSUME LiveInv, Running, NEW o \in LiveHolders
  PROVE  LET gap == MovedOn(redis, now)
         IN  \E d \in Nat :
               /\ Tolerates(d)
               /\ redis.heartbeats[o] + gap + Period + d >= now + HBT[o]
               /\ o \in DOMAIN redis.presence /\ redis.presence[o] # Subscribed =>
                    redis.presence[o] + gap + Period + d >= now
<1> DEFINE gap == MovedOn(redis, now)
           h == redis.heartbeats[o]
           p == redis.presence[o]
           marked == o \in DOMAIN redis.presence /\ redis.presence[o] # Subscribed
<1>0. FDInv /\ LiveKeepsJobs
  BY DEF LiveInv
<1>1. /\ o \in Owners /\ Alive(o) /\ HBT[o] \in Nat /\ h \in Nat /\ (marked => p \in Nat)
      /\ o \in took
  BY <1>0, HolderFacts
<1>2. /\ now \in Nat /\ redis.clock \in Nat /\ stall \in Nat /\ Period \in Nat
      /\ SweepGap \in Nat /\ Stalls \subseteq Nat /\ due[o] \in Nat /\ gap \in Nat
  BY <1>0, <1>1, ClockFacts
<1>3. h + Period >= due[o] + HBT[o] /\ (marked => p + Period >= due[o])
  BY DEF LiveInv, Fresh
<1>4. Tolerates(0) /\ 0 \in Nat
  BY DEF LiveInv, StallsTolerated
<1> HIDE DEF marked, h, p
<1>5. CASE now <= due[o]
  <2>1. h + gap + Period + 0 >= now + HBT[o] /\ (marked => p + gap + Period + 0 >= now)
    BY <1>1, <1>2, <1>3, <1>5 DEF gap
  <2> QED BY <1>4, <2>1 DEF marked, h, p
<1>6. CASE ~(now <= due[o])
  <2>1. now = stall /\ stall # 0
    <3>1. now <= stall
      BY <1>1, <1>6 DEF LiveInv, InTime
    <3>2. stall <= now
      BY DEF Running
    <3>3. now # 0
      BY <1>0, ClockFacts
    <3> QED BY <1>2, <3>1, <3>2, <3>3
  <2>2. PICK d \in Stalls :
          /\ d <= stall /\ stall - d <= now
          /\ \A q \in Owners : Alive(q) => stall - d <= due[q]
          /\ \/ redis.clock <= stall - d
             \/ d <= SweepGap
             \/ \A q \in LiveHolders : Fresh(q, stall)
    BY <2>1 DEF LiveInv, Stalled
  <2>3. d \in Nat /\ stall - d <= due[o]
    BY <1>1, <1>2, <2>2
  <2>4. CASE d <= SweepGap
    <3>1. Tolerates(d)
      <4>1. d > SweepGap \/ Tolerates(d)
        BY DEF LiveInv, StallsTolerated
      <4> QED BY <1>2, <2>3, <2>4, <4>1
    <3>2. h + gap + Period + d >= now + HBT[o] /\ (marked => p + gap + Period + d >= now)
      BY <1>1, <1>2, <1>3, <2>1, <2>3 DEF gap
    <3> QED BY <2>3, <3>1, <3>2 DEF marked, h, p
  <2>5. CASE ~(d <= SweepGap) /\ redis.clock <= stall - d
    <3>1. redis.clock # Absent
      BY <1>1 DEF LiveInv, Started, Alive
    <3>2. gap = now - redis.clock /\ gap >= d
      BY <1>2, <2>1, <2>3, <2>5, <3>1 DEF MovedOn
    <3> HIDE DEF gap
    <3>3. h + gap + Period + 0 >= now + HBT[o] /\ (marked => p + gap + Period + 0 >= now)
      BY <1>1, <1>2, <1>3, <2>1, <2>3, <3>2
    <3> QED BY <1>4, <3>3 DEF marked, h, p, gap
  <2>6. CASE \A q \in LiveHolders : Fresh(q, stall)
    <3>1. h + Period >= stall + HBT[o] /\ (marked => p + Period >= stall)
      BY <2>6 DEF Fresh, marked, h, p
    <3>2. h + gap + Period + 0 >= now + HBT[o] /\ (marked => p + gap + Period + 0 >= now)
      BY <1>1, <1>2, <2>1, <3>1 DEF gap
    <3> QED BY <1>4, <3>2 DEF marked, h, p
  <2> QED BY <2>2, <2>4, <2>5, <2>6
<1> QED BY <1>5, <1>6

(* No sweep takes a live consumer that has popped for dead.                *)
LEMMA LiveNotDead ==
  ASSUME LiveInv, Running, NEW p \in Owners, NEW t, NEW dead,
         Swept(redis, t, p, now, dead), NEW o \in took, Alive(o)
  PROVE  o \notin dead
<1> SUFFICES ASSUME o \in dead PROVE FALSE
  OBVIOUS
<1> DEFINE gap == MovedOn(redis, now)
<1>1. /\ o \in DOMAIN redis.heartbeats
      /\ \/ redis.heartbeats[o] + gap <= now
         \/ /\ o \in DOMAIN redis.presence /\ redis.presence[o] # Subscribed
            /\ now - (redis.presence[o] + gap) >= PresenceGrace
  BY DEF Swept
<1>2. o \in LiveHolders
  BY <1>1 DEF LiveInv, FDInv, LiveHolders
<1>3. FDInv /\ LiveKeepsJobs
  BY DEF LiveInv
<1>4. /\ o \in Holders /\ HBT[o] \in Nat /\ HBT[o] > 0 /\ redis.heartbeats[o] \in Nat
      /\ o \in DOMAIN redis.presence => redis.presence[o] \in Nat
  BY <1>2, <1>3, HolderFacts
<1>5. now \in Nat /\ Period \in Nat /\ PresenceGrace \in Nat /\ gap \in Nat
  BY <1>3, ClockFacts
<1>6. PICK d \in Nat :
        /\ Tolerates(d)
        /\ redis.heartbeats[o] + gap + Period + d >= now + HBT[o]
        /\ o \in DOMAIN redis.presence /\ redis.presence[o] # Subscribed =>
             redis.presence[o] + gap + Period + d >= now
  BY <1>2, HolderInTime
<1>7. d + Period < PresenceGrace /\ d + Period < HBT[o]
  BY <1>4, <1>6 DEF Tolerates
<1> HIDE DEF gap
<1> QED BY <1>1, <1>4, <1>5, <1>6, <1>7

(* What a sweep by p leaves of a live holder: it keeps its jobs, and the   *)
(* sweep makes it no staler; it moves it on by the gap.                    *)
LEMMA SweptHolder ==
  ASSUME LiveInv, Running, NEW p \in Owners, NEW dead,
         Swept(redis, redis', p, now, dead), FDInv', took' = took,
         NEW o \in took, Alive(o)
  PROVE  /\ OwnedBy(redis', {o}) # {}
         /\ HBT[o] > 0 => o \in DOMAIN redis'.heartbeats
         /\ \A t \in Nat :
              HBT[o] > 0 /\ t <= now + Period /\ (o = p \/ Fresh(o, t)) => Fresh(o, t)'
         /\ \A t \in Nat :
              HBT[o] > 0 /\ t <= now + Period /\ Fresh(o, due[o])
                /\ t <= due[o] + MovedOn(redis, now) => Fresh(o, t)'
<1> DEFINE gap == MovedOn(redis, now)
<1>0. FDInv /\ LiveKeepsJobs
  BY DEF LiveInv
<1>1. PICK id \in DOMAIN redis.nacked : id.owner = o
  BY <1>0 DEF LiveKeepsJobs, Holds, OwnedBy
<1>2. id \in DOMAIN redis'.nacked
  BY <1>1, LiveNotDead DEF Swept
<1>3. OwnedBy(redis', {o}) # {}
  BY <1>1, <1>2 DEF OwnedBy
<1>4. ASSUME HBT[o] > 0
      PROVE  /\ o \in DOMAIN redis'.heartbeats
             /\ \A t \in Nat : t <= now + Period /\ (o = p \/ Fresh(o, t)) => Fresh(o, t)'
             /\ \A t \in Nat : t <= now + Period /\ Fresh(o, due[o]) /\ t <= due[o] + gap
                                 => Fresh(o, t)'
  <2>1. o \in LiveHolders
    BY <1>4 DEF LiveHolders
  <2>2. /\ o \in Owners /\ HBT[o] \in Nat /\ redis.heartbeats[o] \in Nat
        /\ o \in DOMAIN redis.presence => redis.presence[o] \in Nat
    BY <1>0, <2>1, HolderFacts
  <2>3. /\ now \in Nat /\ Period \in Nat /\ gap \in Nat /\ due[o] \in Nat
    BY <1>0, <2>2, ClockFacts
  <2>4. o \in DOMAIN redis'.heartbeats
    BY <1>1, <1>2, <1>4, <2>2 DEF FDInv, Sound, Covered
  <2> DEFINE h == redis'.heartbeats[o]
             q == redis'.presence[o]
             marked == o \in DOMAIN redis'.presence /\ redis'.presence[o] # Subscribed
             was == o \in DOMAIN redis.presence /\ redis.presence[o] # Subscribed
  <2>5. h = IF o = p THEN now + HBT[o] ELSE redis.heartbeats[o] + gap
    BY <2>4 DEF Swept
  <2>6. marked => q = now \/ (o # p /\ was /\ q = redis.presence[o] + gap)
    BY DEF Swept
  <2>7. was => redis.presence[o] \in Nat
    BY <2>2
  <2> HIDE DEF gap, h, q, marked, was
  <2>8. ASSUME NEW t \in Nat, t <= now + Period, o = p \/ Fresh(o, t)
        PROVE  Fresh(o, t)'
    <3>1. o # p => redis.heartbeats[o] + Period >= t + HBT[o]
                   /\ (was => redis.presence[o] + Period >= t)
      BY <2>8 DEF Fresh, was
    <3>2. h + Period >= t + HBT[o]
      BY <2>2, <2>3, <2>5, <2>8, <3>1
    <3>3. marked => q + Period >= t
      BY <2>3, <2>6, <2>7, <2>8, <3>1
    <3> QED BY <3>2, <3>3 DEF Fresh, h, q, marked
  <2>9. ASSUME NEW t \in Nat, t <= now + Period, Fresh(o, due[o]), t <= due[o] + gap
        PROVE  Fresh(o, t)'
    <3>1. /\ redis.heartbeats[o] + Period >= due[o] + HBT[o]
          /\ was => redis.presence[o] + Period >= due[o]
      BY <2>9 DEF Fresh, was
    <3>2. h + Period >= t + HBT[o]
      BY <2>2, <2>3, <2>5, <2>9, <3>1
    <3>3. marked => q + Period >= t
      BY <2>3, <2>6, <2>7, <2>9, <3>1
    <3> QED BY <3>2, <3>3 DEF Fresh, h, q, marked
  <2> QED BY <2>4, <2>8, <2>9 DEF gap
<1> QED BY <1>3, <1>4

(* A sweep by p, when it starts or when its ticker fired.                  *)
LEMMA SweepStep ==
  ASSUME LiveInv, FDInv', Running, NEW p \in Owners, p \notin took \/ Alive(p),
         NEW dead, Swept(redis, redis', p, now, dead),
         UNCHANGED <<now, stall, took>>,
         state' = [state EXCEPT ![p] = "alive"],
         NEW t \in now + 1 .. now + Period, due' = [due EXCEPT ![p] = t]
  PROVE  LiveInv'
<1>0. FDInv /\ LiveKeepsJobs /\ Started /\ InTime /\ Stalled /\ StallsTolerated /\ TypeOK
  BY DEF LiveInv, FDInv
<1>1. /\ now \in Nat \ {0} /\ redis.clock \in Nat /\ stall \in Nat /\ Period \in Nat \ {0}
      /\ SweepGap \in Nat /\ Stalls \subseteq Nat /\ MovedOn(redis, now) \in Nat
      /\ \A o \in Owners : due[o] \in Nat
  BY <1>0, ClockFacts
<1>2. /\ due'[p] = t /\ state'[p] = "alive"
      /\ \A o \in Owners : o # p => due'[o] = due[o] /\ state'[o] = state[o]
      /\ \A o \in took : o \in Owners /\ (Alive(o)' <=> Alive(o)) /\ (o # p => due'[o] = due[o])
  <2>1. p \in took => state[p] = "alive"
    BY DEF Alive
  <2>2. took \subseteq Owners /\ state \in [Owners -> {"new", "alive", "killed", "lost"}]
        /\ DOMAIN due = Owners
    BY <1>0, FDAssumption DEF TypeOK
  <2> QED BY <2>1, <2>2 DEF Alive
<1>3. LiveHolders' = LiveHolders
  BY <1>2 DEF LiveHolders
<1>4. t \in Nat /\ t > now /\ t <= now + Period
  BY <1>1
<1>5. redis'.clock = (IF Ticked(redis, now) THEN now ELSE redis.clock)
  BY DEF Swept
<1>6. Started'
  <2>1. redis'.clock <= now'
    BY <1>0, <1>1, <1>5 DEF Started
  <2>2. redis'.clock # Absent
    BY <1>1, <1>5 DEF Ticked, Absent
  <2>3. \A o \in took' : state'[o] # "new"
    BY <1>0, <1>2 DEF Started
  <2> QED BY <2>1, <2>2, <2>3 DEF Started
<1>7. InTime'
  <2> SUFFICES ASSUME NEW o \in Owners, Alive(o)'
               PROVE  (now' <= due'[o] \/ now' <= stall') /\ due'[o] <= now' + Period
    BY DEF InTime
  <2>1. CASE o = p
    BY <1>1, <1>2, <1>4, <2>1
  <2>2. CASE o # p
    BY <1>0, <1>2, <2>2 DEF InTime, Alive
  <2> QED BY <2>1, <2>2
<1>8. LiveKeepsJobs'
  BY <1>2, SweptHolder DEF LiveKeepsJobs, Holds
<1>9. ASSUME NEW o \in LiveHolders PROVE Fresh(o, due[o])'
  <2>1. o \in took /\ Alive(o) /\ HBT[o] > 0 /\ o \in Owners
    BY <1>2 DEF LiveHolders
  <2>2. CASE o = p
    BY <1>2, <1>4, <2>1, <2>2, SweptHolder DEF Fresh
  <2>3. CASE o # p
    <3>1. due'[o] = due[o] /\ due[o] <= now + Period /\ due[o] \in Nat
      BY <1>0, <1>1, <1>2, <2>1, <2>3 DEF InTime
    <3>2. Fresh(o, due[o])
      BY DEF LiveInv
    <3> QED BY <2>1, <3>1, <3>2, SweptHolder DEF Fresh
  <2> QED BY <2>2, <2>3
<1>10. Stalled'
  <2> SUFFICES ASSUME stall # 0
               PROVE \E d \in Stalls :
                       /\ d <= stall /\ stall - d <= now
                       /\ \A o \in Owners : Alive(o)' => stall - d <= due'[o]
                       /\ \/ redis'.clock <= stall - d
                          \/ d <= SweepGap
                          \/ \A o \in LiveHolders : Fresh(o, stall)'
    BY <1>3 DEF Stalled
  <2>1. PICK d \in Stalls :
          /\ d <= stall /\ stall - d <= now
          /\ \A o \in Owners : Alive(o) => stall - d <= due[o]
          /\ \/ redis.clock <= stall - d
             \/ d <= SweepGap
             \/ \A o \in LiveHolders : Fresh(o, stall)
    BY <1>0 DEF Stalled
  <2>2. d \in Nat /\ stall <= now
    BY <1>1 DEF Running
  <2>3. \A o \in Owners : Alive(o)' => stall - d <= due'[o]
    BY <1>1, <1>2, <1>4, <2>1, <2>2 DEF Alive
  <2>4. ASSUME NEW o \in LiveHolders, Fresh(o, stall) PROVE Fresh(o, stall)'
    <3>1. o \in took /\ Alive(o) /\ HBT[o] > 0
      BY DEF LiveHolders
    <3>2. stall \in Nat /\ stall <= now + Period
      BY <1>1, <2>2
    <3> QED BY <2>4, <3>1, <3>2, SweptHolder DEF Fresh
  <2>5. CASE redis.clock <= stall - d /\ ~(d <= SweepGap)
    <3>1. ASSUME NEW o \in LiveHolders PROVE Fresh(o, stall)'
      <4>1. o \in took /\ Alive(o) /\ HBT[o] > 0 /\ o \in Owners
        BY <1>2 DEF LiveHolders
      <4>2. redis.clock # Absent
        BY <1>0, <4>1 DEF Started
      <4>3. MovedOn(redis, now) = now - redis.clock
        BY <1>1, <2>1, <2>2, <2>5, <4>2 DEF MovedOn
      <4>4. stall - d <= due[o]
        BY <2>1, <4>1
      <4>5. stall <= due[o] + MovedOn(redis, now) /\ stall <= now + Period
        BY <1>1, <2>2, <2>5, <4>1, <4>3, <4>4
      <4>6. Fresh(o, due[o])
        BY DEF LiveInv
      <4> QED BY <1>1, <4>1, <4>5, <4>6, SweptHolder DEF Fresh
    <3> QED BY <2>1, <2>3, <3>1
  <2>6. CASE d <= SweepGap
    BY <2>1, <2>3, <2>6
  <2>7. CASE \A o \in LiveHolders : Fresh(o, stall)
    BY <2>1, <2>3, <2>4, <2>7
  <2> QED BY <2>1, <2>5, <2>6, <2>7
<1>11. StallsTolerated'
  BY <1>0 DEF StallsTolerated, Tolerates
<1> QED BY <1>3, <1>6, <1>7, <1>8, <1>9, <1>10, <1>11 DEF LiveInv

(* A pop sets a heartbeat that is fresh, and touches nobody else's.        *)
LEMMA PopLives ==
  ASSUME LiveInv, FDInv', NEW o \in Owners, Pop(o)
  PROVE  LiveInv'
<1>0. FDInv /\ LiveKeepsJobs /\ Started /\ InTime /\ Stalled /\ StallsTolerated /\ TypeOK
  BY DEF LiveInv, FDInv
<1>1. /\ UNCHANGED <<now, state, due, stall>> /\ Alive(o) /\ Running /\ took' = took \cup {o}
      /\ o \notin took
  BY DEF Pop
<1>2. /\ redis'.clock = redis.clock /\ redis'.presence = redis.presence
      /\ DOMAIN redis'.nacked = DOMAIN redis.nacked \cup {IdOf(FirstPop(o), 1)}
      /\ redis'.heartbeats = IF HBT[o] > 0 THEN Put(redis.heartbeats, {o}, now + HBT[o])
                             ELSE redis.heartbeats
  BY <1>0, PopStep
<1>3. /\ now \in Nat /\ stall \in Nat /\ Period \in Nat /\ due[o] \in Nat /\ HBT[o] \in Nat
  BY <1>0, ClockFacts, TimeoutAssumption
<1>4. Started' /\ InTime' /\ StallsTolerated'
  <2>1. state[o] # "new"
    BY <1>1 DEF Alive
  <2> QED BY <1>0, <1>1, <1>2, <2>1 DEF Started, InTime, StallsTolerated, Tolerates, Alive
<1>5. LiveKeepsJobs'
  <2> SUFFICES ASSUME NEW q \in took', Alive(q)
               PROVE  \E id \in DOMAIN redis'.nacked : id.owner = q
    BY <1>1 DEF LiveKeepsJobs, Holds, OwnedBy, Alive
  <2>1. CASE q = o
    <3>1. IdOf(FirstPop(o), 1).owner = o
      BY DEF IdOf, FirstPop
    <3> QED BY <1>2, <2>1, <3>1
  <2>2. CASE q # o
    <3>1. \E id \in DOMAIN redis.nacked : id.owner = q
      BY <1>0, <1>1, <2>2 DEF LiveKeepsJobs, Holds, OwnedBy
    <3> QED BY <1>2, <3>1
  <2> QED BY <2>1, <2>2
<1>6. ASSUME NEW q \in LiveHolders', NEW t \in Nat, t <= now + Period,
             q # o => Fresh(q, t)
      PROVE  Fresh(q, t)'
  <2>1. q \in took' /\ Alive(q) /\ HBT[q] > 0
    BY <1>1 DEF LiveHolders, Alive
  <2>2. CASE q = o
    <3>1. redis'.heartbeats[q] = now + HBT[o]
      BY <1>2, <2>1, <2>2 DEF Put
    <3>2. o \notin DOMAIN redis.presence
      BY <1>0, <1>1 DEF FDInv, NoStaleMarks
    <3>3. redis'.heartbeats[q] + Period >= t + HBT[q]
      BY <1>3, <1>6, <2>2, <3>1
    <3> QED BY <1>2, <2>2, <3>2, <3>3 DEF Fresh
  <2>3. CASE q # o
    <3>1. q \in LiveHolders
      BY <1>1, <2>1, <2>3 DEF LiveHolders
    <3>2. q \in DOMAIN redis.heartbeats
      BY <1>0, <3>1, HolderFacts
    <3>3. redis'.heartbeats[q] = redis.heartbeats[q]
      BY <1>2, <2>3, <3>2 DEF Put
    <3>4. Fresh(q, t)
      BY <1>6, <2>3
    <3> QED BY <1>2, <3>3, <3>4 DEF Fresh
  <2> QED BY <2>2, <2>3
<1>7. \A q \in LiveHolders' : q # o => q \in LiveHolders
  BY <1>1 DEF LiveHolders, Alive
<1>8. ASSUME NEW q \in LiveHolders' PROVE Fresh(q, due[q])'
  <2>1. Alive(q) /\ q \in Owners
    BY <1>0, <1>1, FDAssumption DEF LiveHolders, Alive, TypeOK
  <2>2. due[q] \in Nat /\ due[q] <= now + Period
    BY <1>0, <2>1, ClockFacts DEF InTime
  <2>3. q # o => Fresh(q, due[q])
    BY <1>7 DEF LiveInv
  <2> QED BY <1>1, <1>6, <2>2, <2>3 DEF Fresh
<1>9. Stalled'
  <2> SUFFICES ASSUME stall # 0
               PROVE \E d \in Stalls :
                       /\ d <= stall /\ stall - d <= now
                       /\ \A q \in Owners : Alive(q) => stall - d <= due[q]
                       /\ \/ redis'.clock <= stall - d
                          \/ d <= SweepGap
                          \/ \A q \in LiveHolders' : Fresh(q, stall)'
    BY <1>1 DEF Stalled, Alive
  <2>1. PICK d \in Stalls :
          /\ d <= stall /\ stall - d <= now
          /\ \A q \in Owners : Alive(q) => stall - d <= due[q]
          /\ \/ redis.clock <= stall - d
             \/ d <= SweepGap
             \/ \A q \in LiveHolders : Fresh(q, stall)
    BY <1>0 DEF Stalled
  <2>2. stall <= now + Period
    BY <1>1, <1>3 DEF Running
  <2>3. (\A q \in LiveHolders : Fresh(q, stall)) => \A q \in LiveHolders' : Fresh(q, stall)'
    BY <1>1, <1>3, <1>6, <1>7, <2>2
  <2> QED BY <1>2, <2>1, <2>3
<1> QED BY <1>4, <1>5, <1>8, <1>9 DEF LiveInv

(* A step that leaves Redis, the tickers and the pops alone and starts     *)
(* nobody loses nobody's job.                                              *)
LEMMA QuietStep ==
  ASSUME LiveInv, FDInv', UNCHANGED <<redis, due, took>>, now' >= now,
         \A o \in Owners : Alive(o)' => Alive(o),
         \A o \in Owners : state'[o] # "new" <=> state[o] # "new",
         InTime', Stalled'
  PROVE  LiveInv'
<1>1. took \subseteq Owners /\ redis.clock \in Nat /\ now \in Nat /\ now' \in Nat
  BY FDAssumption, ClockFacts DEF LiveInv, FDInv, TypeOK
<1>2. LiveHolders' \subseteq LiveHolders
  BY <1>1 DEF LiveHolders
<1>3. Started'
  <2>1. redis.clock <= now'
    BY <1>1 DEF LiveInv, Started
  <2> QED BY <1>1, <2>1 DEF LiveInv, Started
<1>4. LiveKeepsJobs'
  BY <1>1 DEF LiveInv, LiveKeepsJobs, Holds
<1>5. \A o \in LiveHolders' : Fresh(o, due[o])'
  BY <1>2 DEF LiveInv, Fresh
<1>6. StallsTolerated'
  BY DEF LiveInv, StallsTolerated, Tolerates
<1> QED BY <1>3, <1>4, <1>5, <1>6 DEF LiveInv

(* A stall goes on, or its end is remembered, while nothing is swept.      *)
LEMMA StalledStays ==
  ASSUME LiveInv, FDInv', UNCHANGED <<redis, due, took, stall>>, now' >= now,
         \A o \in Owners : Alive(o)' => Alive(o)
  PROVE  Stalled'
<1>1. took \subseteq Owners /\ now \in Nat /\ now' \in Nat /\ stall \in Nat /\ Stalls \subseteq Nat
  BY FDAssumption, ClockFacts DEF LiveInv, FDInv, TypeOK
<1>2. \A o \in LiveHolders' : o \in LiveHolders
  BY <1>1 DEF LiveHolders
<1> SUFFICES ASSUME stall # 0
             PROVE \E d \in Stalls :
                     /\ d <= stall /\ stall - d <= now'
                     /\ \A o \in Owners : Alive(o)' => stall - d <= due[o]
                     /\ \/ redis.clock <= stall - d
                        \/ d <= SweepGap
                        \/ \A o \in LiveHolders' : Fresh(o, stall)'
  BY DEF Stalled
<1>3. PICK d \in Stalls :
        /\ d <= stall /\ stall - d <= now
        /\ \A o \in Owners : Alive(o) => stall - d <= due[o]
        /\ \/ redis.clock <= stall - d
           \/ d <= SweepGap
           \/ \A o \in LiveHolders : Fresh(o, stall)
  BY DEF LiveInv, Stalled
<1>4. stall - d <= now'
  BY <1>1, <1>3
<1>5. (\A o \in LiveHolders : Fresh(o, stall)) => \A o \in LiveHolders' : Fresh(o, stall)'
  BY <1>2 DEF Fresh
<1> QED BY <1>3, <1>4, <1>5

LEMMA LiveStep == ASSUME LiveInv, [Next]_vars PROVE LiveInv'
<1>0. /\ FDInv /\ TypeOK /\ InTime /\ Started /\ FDInv'
      /\ now \in Nat \ {0} /\ stall \in Nat /\ Period \in Nat
      /\ \A o \in Owners : due[o] \in Nat
  BY FDStep, ClockFacts DEF LiveInv, FDInv
<1>1. CASE UNCHANGED vars
  <2>1. UNCHANGED <<redis, now, state, due, stall, took>>
    BY <1>1 DEF vars
  <2>2. InTime' /\ Stalled'
    BY <1>0, <2>1, StalledStays DEF InTime, Alive
  <2> QED BY <1>0, <2>1, <2>2, QuietStep DEF Alive
<1>2. ASSUME NEW o \in Owners, Start(o) PROVE LiveInv'
  <2>1. o \notin took
    BY <1>0, <1>2 DEF Start, Started
  <2>2. PICK dead : Swept(redis, redis', o, now, dead)
    <3>1. StoreOK(redis') => TypeOK'
      BY <1>0 DEF FDInv
    <3>2. subs' \in SUBSET Owners /\ redis' \in Ticks(redis, o, now, subs') /\ took' = took
      BY <1>0, <1>2 DEF Start, FDInv, TypeOK
    <3> QED BY <1>0, <3>1, <3>2, SweepKeepsInv
  <2>3. now + Period \in now + 1 .. now + Period
    BY <1>0, FDAssumption
  <2>4. /\ Running /\ UNCHANGED <<now, stall, took>> /\ due' = [due EXCEPT ![o] = now + Period]
        /\ state' = [state EXCEPT ![o] = "alive"]
    BY <1>2 DEF Start
  <2> QED BY <1>0, <2>1, <2>2, <2>3, <2>4, SweepStep
<1>3. ASSUME NEW o \in Owners, Sweep(o) PROVE LiveInv'
  <2>1. PICK t \in now + 1 .. now + Period : due' = [due EXCEPT ![o] = t]
    <3>1. due[o] \in Nat /\ now \in Nat /\ due[o] <= now
      BY <1>0, <1>3 DEF Sweep
    <3> QED BY <1>3, <3>1, NextTick DEF Sweep
  <2>2. PICK dead : Swept(redis, redis', o, now, dead)
    <3>1. StoreOK(redis') => TypeOK'
      BY <1>0 DEF FDInv
    <3>2. subs' \in SUBSET Owners /\ redis' \in Ticks(redis, o, now, subs') /\ took' = took
      BY <1>0, <1>3 DEF Sweep, FDInv, TypeOK
    <3> QED BY <1>0, <3>1, <3>2, SweepKeepsInv
  <2>3. /\ Running /\ UNCHANGED <<now, stall, took>> /\ Alive(o)
    BY <1>3 DEF Sweep
  <2>4. state' = [state EXCEPT ![o] = "alive"]
    BY <1>0, <1>3 DEF Sweep, Alive, TypeOK
  <2> QED BY <1>0, <2>1, <2>2, <2>3, <2>4, SweepStep
<1>4. ASSUME NEW o \in Owners, Pop(o) PROVE LiveInv'
  BY <1>0, <1>4, PopLives
<1>5. ASSUME NEW o \in Owners, NEW how \in {"killed", "lost"}, Die(o, how) PROVE LiveInv'
  <2>1. /\ UNCHANGED <<redis, now, due, stall, took>> /\ state' = [state EXCEPT ![o] = how]
        /\ state[o] = "alive" /\ DOMAIN state = Owners
    BY <1>0, <1>5 DEF Die, Alive, TypeOK
  <2>2. \A q \in Owners : (Alive(q)' => Alive(q)) /\ (state'[q] # "new" <=> state[q] # "new")
    BY <2>1 DEF Alive
  <2>3. InTime' /\ Stalled'
    BY <1>0, <2>1, <2>2, StalledStays DEF InTime
  <2> QED BY <1>0, <2>1, <2>2, <2>3, QuietStep
<1>6. ASSUME NEW o \in Owners, Unsubscribe(o) \/ Resubscribe(o) PROVE LiveInv'
  <2>1. UNCHANGED <<redis, now, state, due, stall, took>>
    BY <1>6 DEF Unsubscribe, Resubscribe
  <2>2. InTime' /\ Stalled'
    BY <1>0, <2>1, StalledStays DEF InTime, Alive
  <2> QED BY <1>0, <2>1, <2>2, QuietStep DEF Alive
<1>7. ASSUME NEW d \in Stalls, Stall(d) PROVE LiveInv'
  <2>1. UNCHANGED <<redis, now, state, due, took>> /\ stall = 0 /\ stall' = now + d /\ d \in Nat
    BY <1>7, FDAssumption DEF Stall
  <2>2. \A o \in Owners : Alive(o) => now <= due[o] /\ due[o] <= now + Period
    BY <1>0, <2>1 DEF InTime
  <2>3. InTime'
    BY <1>0, <2>1, <2>2 DEF InTime, Alive
  <2>4. Stalled'
    <3>1. d <= stall' /\ stall' - d = now
      BY <1>0, <2>1
    <3>2. \A o \in Owners : Alive(o)' => stall' - d <= due'[o]
      BY <2>1, <2>2, <3>1 DEF Alive
    <3>3. redis'.clock <= stall' - d /\ stall' - d <= now'
      BY <1>0, <2>1, <3>1 DEF Started
    <3> QED BY <3>1, <3>2, <3>3 DEF Stalled
  <2> QED BY <1>0, <2>1, <2>3, <2>4, QuietStep DEF Alive
<1>8. CASE Advance
  <2>1. /\ UNCHANGED <<redis, state, due, stall, took>>
        /\ now' >= now /\ now' <= now + 1 /\ now' \in Nat
        /\ stall <= now => \A o \in Owners : Alive(o) => due[o] > now
    BY <1>0, <1>8, FDAssumption DEF Advance, Running
  <2>2. \A o \in Owners : Alive(o)' <=> Alive(o)
    BY <2>1 DEF Alive
  <2>3. InTime'
    <3> SUFFICES ASSUME NEW o \in Owners, Alive(o)
                 PROVE (now' <= due[o] \/ now' <= stall) /\ due[o] <= now' + Period
      BY <2>1, <2>2 DEF InTime
    <3>1. due[o] \in Nat /\ due[o] <= now + Period
      BY <1>0 DEF InTime
    <3> QED BY <1>0, <2>1, <3>1
  <2>4. Stalled'
    BY <1>0, <2>1, <2>2, StalledStays
  <2> QED BY <1>0, <2>1, <2>2, <2>3, <2>4, QuietStep
<1> QED BY <1>1, <1>2, <1>3, <1>4, <1>5, <1>6, <1>7, <1>8 DEF Next

(* A consumer that sweeps whenever Redis lets it keeps its jobs, whatever  *)
(* happens to its pub/sub connection, however many others sweep and        *)
(* whoever dies (tickBody, SetHeartbeatTimeout), provided that the         *)
(* heartbeat timeout and the presence grace outlast a period, and a period *)
(* after each stall of Redis that is no longer than the longest normal gap *)
(* between sweeps.                                                         *)
THEOREM LiveConsumersKeepJobs == StallsTolerated => (Spec => []LiveKeepsJobs)
<1>1. StallsTolerated /\ Init => LiveInv
  <2> SUFFICES ASSUME StallsTolerated, Init PROVE LiveInv
    OBVIOUS
  <2>1. FDInv /\ redis.clock = 0 /\ now = 1 /\ stall = 0 /\ took = {}
        /\ \A o \in Owners : state[o] = "new"
    BY FDInit DEF Init, EmptyStore, Absent
  <2> QED BY <2>1 DEF LiveInv, Started, InTime, Stalled, LiveKeepsJobs, LiveHolders, Alive
<1>2. LiveInv /\ [Next]_vars => LiveInv'
  BY LiveStep
<1>3. LiveInv => LiveKeepsJobs
  BY DEF LiveInv
<1> QED BY <1>1, <1>2, <1>3, PTL DEF Spec

-----------------------------------------------------------------------------
(* Why a dead consumer's jobs are back in time.                            *)

(* Live processes sweep often enough never to move the heartbeats on, and  *)
(* every consumer has a heartbeat timeout.                                 *)
SweepsSuffice ==
  /\ MinTick > 0 /\ Between <= SweepGap
  /\ \A o \in Holders : HBT[o] > 0

(* Whoever runs sweeps once every period, and Between at most after some   *)
(* sweep that has moved the clock.                                         *)
OnTime ==
  \A o \in Owners : Alive(o) =>
    now <= due[o] /\ due[o] <= now + Period /\ due[o] <= redis.clock + Between

(* A heartbeat ends in time, and after the last sweep of whoever runs.     *)
Lasting ==
  \A o \in DOMAIN redis.heartbeats :
    /\ redis.heartbeats[o] <= redis.clock + Between + HBT[o]
    /\ redis.heartbeats[o] <= HBT[o] + IF Alive(o) THEN now
                                ELSE since[o] + IF o \in orphans THEN Between ELSE 0
    /\ \A p \in Owners : Alive(p) => due[p] < redis.heartbeats[o] + Period

(* A grace has begun, and the last sweep did not find it over.             *)
Marked ==
  \A o \in DOMAIN redis.presence : redis.presence[o] # Subscribed =>
    /\ redis.presence[o] <= redis.clock + Between
    /\ redis.clock <= redis.presence[o] + PresenceGrace

(* No sweep sees a killed consumer any more; the first begins its grace.   *)
Unseen ==
  \A o \in Owners : state[o] = "killed" =>
    /\ o \notin subs
    /\ o \in DOMAIN redis.presence =>
         IF redis.presence[o] = Subscribed THEN redis.clock <= since[o]
         ELSE redis.presence[o] <= since[o] + Between

RecoverInv ==
  /\ SweepsSuffice /\ FDInv /\ Started
  /\ stall = 0 => OnTime /\ Lasting /\ Marked /\ Unseen

(* The numbers of everyone, again.                                         *)
LEMMA TimeFacts ==
  ASSUME FDInv, SweepsSuffice
  PROVE  /\ MinTick \in Nat \ {0} /\ Between \in Nat /\ Between = Period + MinTick - 1
         /\ \A o \in Owners : HBT[o] \in Nat /\ since[o] \in Nat
         /\ \A o \in DOMAIN redis.heartbeats :
              /\ redis.heartbeats[o] \in Nat /\ o \in Owners /\ o \in took /\ HBT[o] > 0
         /\ \A o \in DOMAIN redis.presence :
              redis.presence[o] \in Nat /\ o \in DOMAIN redis.heartbeats
<1>1. MinTick \in Nat \ {0} /\ Period \in Nat \ {0}
  BY FDAssumption, TimeoutAssumption DEF SweepsSuffice
<1>2. \A o \in Owners : HBT[o] \in Nat /\ since[o] \in Nat
  BY TimeoutAssumption DEF FDInv, TypeOK
<1>3. IsPartial(redis.heartbeats, Owners, Nat) /\ IsPartial(redis.presence, Owners, Nat)
  BY DEF FDInv, Sound, StoreOK
<1> QED BY <1>1, <1>2, <1>3 DEF Between, IsPartial, FDInv, NoStaleMarks

(* After a sweep whoever runs has swept, and the clock stands.             *)
LEMMA SweepStarts ==
  ASSUME FDInv, Started, NEW p \in Owners, p \notin took \/ Alive(p),
         NEW dead, Swept(redis, redis', p, now, dead), UNCHANGED <<now, took>>,
         state' = [state EXCEPT ![p] = "alive"]
  PROVE  Started'
<1>1. now \in Nat \ {0} /\ redis.clock \in Nat
  BY ClockFacts
<1>2. redis'.clock = (IF Ticked(redis, now) THEN now ELSE redis.clock)
  BY DEF Swept
<1>3. redis'.clock <= now'
  BY <1>1, <1>2 DEF Started
<1>4. redis'.clock # Absent
  BY <1>1, <1>2 DEF Ticked, Absent
<1>5. \A o \in took' : state'[o] # "new"
  BY DEF Started, FDInv, TypeOK
<1> QED BY <1>3, <1>4, <1>5 DEF Started

(* A sweep by p, when it starts or when its ticker fired.                  *)
LEMMA SweepRecovers ==
  ASSUME RecoverInv, FDInv', stall = 0,
         NEW p \in Owners, p \notin took \/ Alive(p), state[p] # "killed",
         NEW dead, Swept(redis, redis', p, now, dead),
         redis.clock # Absent => Found(redis, redis', p, now, subs'),
         subs' \subseteq subs \cup {p},
         UNCHANGED <<now, stall, took>>,
         state' = [state EXCEPT ![p] = "alive"],
         NEW t \in now + 1 .. now + Period, due' = [due EXCEPT ![p] = t],
         IF \E q \in Owners : Alive(q) THEN since' = since /\ orphans' = orphans
         ELSE /\ \A q \in Owners : since'[q] = now
              /\ \A q \in Owners : state[q] # "new" => q \in orphans'
  PROVE  RecoverInv'
<1> DEFINE gap == MovedOn(redis, now)
           attended == \E q \in Owners : Alive(q)
           ticked == Ticked(redis, now)
<1>0. /\ SweepsSuffice /\ FDInv /\ Started /\ OnTime /\ Lasting /\ Marked /\ Unseen /\ TypeOK
  BY DEF RecoverInv, FDInv
<1>1. /\ now \in Nat \ {0} /\ redis.clock \in Nat /\ Period \in Nat \ {0}
      /\ SweepGap \in Nat /\ gap \in Nat /\ PresenceGrace \in Nat
      /\ \A o \in Owners : due[o] \in Nat
      /\ redis.clock <= now /\ Between <= SweepGap
  BY <1>0, ClockFacts DEF Started, SweepsSuffice
<1>2. /\ MinTick \in Nat \ {0} /\ Between \in Nat /\ Between = Period + MinTick - 1
      /\ \A o \in Owners : HBT[o] \in Nat /\ since[o] \in Nat
      /\ \A o \in DOMAIN redis.heartbeats :
           redis.heartbeats[o] \in Nat /\ o \in Owners /\ o \in took /\ HBT[o] > 0
      /\ \A o \in DOMAIN redis.presence :
           redis.presence[o] \in Nat /\ o \in DOMAIN redis.heartbeats
  BY <1>0, TimeFacts
<1>3. /\ due'[p] = t /\ state'[p] = "alive"
      /\ \A o \in Owners : o # p => due'[o] = due[o] /\ state'[o] = state[o]
      /\ t \in Nat /\ t > now /\ t <= now + Period
  BY <1>0, <1>1 DEF TypeOK
<1>4. attended => gap = 0
  <2> SUFFICES ASSUME NEW q \in Owners, Alive(q) PROVE gap = 0
    OBVIOUS
  <2>1. now <= due[q] /\ due[q] <= redis.clock + Between
    BY <1>0 DEF OnTime
  <2>2. ~(now - redis.clock > SweepGap)
    BY <1>1, <1>2, <2>1
  <2> QED BY <2>2 DEF MovedOn
<1>5. /\ redis'.clock = IF ticked THEN now ELSE redis.clock
      /\ ~ticked => redis.clock # Absent /\ gap = 0 /\ now < redis.clock + MinTick
      /\ redis.clock + gap <= redis'.clock /\ redis'.clock <= now
      /\ now < redis'.clock + MinTick /\ redis'.clock \in Nat
  <2>1. redis'.clock = IF ticked THEN now ELSE redis.clock
    BY DEF Swept
  <2>2. ~ticked => redis.clock # Absent /\ gap = 0 /\ now < redis.clock + MinTick
    BY <1>1, <1>2 DEF Ticked, MovedOn
  <2>3. redis.clock + gap <= now
    BY <1>1 DEF MovedOn
  <2> HIDE DEF gap, ticked
  <2> QED BY <1>1, <1>2, <2>1, <2>2, <2>3
<1>6. ASSUME NEW m \in DOMAIN redis'.heartbeats
      PROVE  /\ m \in DOMAIN redis.heartbeats /\ state[m] # "new"
             /\ redis'.heartbeats[m] =
                  IF m = p THEN now + HBT[m] ELSE redis.heartbeats[m] + gap
             /\ redis'.heartbeats[m] > now /\ redis'.heartbeats[m] \in Nat
             /\ redis.clock # Absent
  <2>1. m \in DOMAIN redis.heartbeats
    BY DEF Swept
  <2>2. m \in took /\ m \in Owners
    BY <1>2, <2>1
  <2>3. state[m] # "new" /\ redis.clock # Absent
    BY <1>0, <2>2 DEF Started
  <2>4. redis'.heartbeats[m] = IF m = p THEN now + HBT[m] ELSE redis.heartbeats[m] + gap
    BY DEF Swept
  <2>5. redis'.heartbeats[m] > now
    BY <2>3 DEF Found
  <2>6. redis'.heartbeats[m] \in Nat
    BY <1>0, <1>1, <1>2, <2>1, <2>2, <2>4
  <2> QED BY <2>1, <2>3, <2>4, <2>5, <2>6
<1>7. ASSUME NEW m \in DOMAIN redis'.presence, redis'.presence[m] # Subscribed
      PROVE  \/ /\ m \notin subs' /\ ticked /\ redis'.presence[m] = now
                /\ m = p \/ (m \in DOMAIN redis.presence /\ redis.presence[m] = Subscribed)
             \/ /\ m \in DOMAIN redis.presence /\ redis.presence[m] # Subscribed /\ m # p
                /\ redis'.presence[m] = redis.presence[m] + gap
                /\ ticked => now - redis'.presence[m] < PresenceGrace
  <2>1. m \in DOMAIN redis'.heartbeats
    BY DEF Swept
  <2>2. redis.clock # Absent
    BY <1>6, <2>1
  <2> DEFINE was == IF m = p \/ redis.presence[m] = Subscribed THEN Subscribed
                    ELSE redis.presence[m] + gap
             mark == redis'.presence[m]
  <2>3. IF ~ticked THEN m \in DOMAIN redis.presence /\ mark = was
        ELSE IF m \in subs' THEN mark = Subscribed
        ELSE /\ m \in DOMAIN redis.presence
             /\ IF was = Subscribed THEN mark = now
                ELSE mark = was /\ now - was < PresenceGrace
    BY <2>2 DEF Found
  <2>4. m \in DOMAIN redis.presence =>
          (was = Subscribed <=> m = p \/ redis.presence[m] = Subscribed)
    BY <1>1, <1>2 DEF Subscribed
  <2> HIDE DEF gap, ticked
  <2> QED BY <1>7, <2>3, <2>4
<1>8. ASSUME NEW m \in DOMAIN redis'.presence
      PROVE  m \in Owners /\ redis'.presence[m] \in Nat
  BY DEF FDInv, Sound, StoreOK, IsPartial
<1> HIDE DEF gap, ticked
<1>9. OnTime'
  <2> SUFFICES ASSUME NEW o \in Owners, Alive(o)'
               PROVE  /\ now <= due'[o] /\ due'[o] <= now + Period
                      /\ due'[o] <= redis'.clock + Between
    BY DEF OnTime, Between
  <2>1. CASE o = p
    BY <1>1, <1>2, <1>3, <1>5, <2>1
  <2>2. CASE o # p
    <3>1. /\ now <= due[o] /\ due[o] <= now + Period /\ due[o] <= redis.clock + Between
      BY <1>0, <1>3, <2>2 DEF OnTime, Alive
    <3> QED BY <1>1, <1>2, <1>3, <1>5, <2>2, <3>1
  <2> QED BY <2>1, <2>2
<1>10. Lasting'
  <2> SUFFICES ASSUME NEW m \in DOMAIN redis'.heartbeats
               PROVE  /\ redis'.heartbeats[m] <= redis'.clock + Between + HBT[m]
                      /\ redis'.heartbeats[m] <= HBT[m] + IF Alive(m)' THEN now
                           ELSE since'[m] + IF m \in orphans' THEN Between ELSE 0
                      /\ \A q \in Owners : Alive(q)' => due'[q] < redis'.heartbeats[m] + Period
    BY DEF Lasting, Between
  <2> DEFINE h == redis'.heartbeats[m]
             w == redis.heartbeats[m]
             c == redis.clock
             d == redis'.clock
  <2>1. /\ m \in Owners /\ HBT[m] \in Nat /\ HBT[m] > 0 /\ w \in Nat /\ h \in Nat /\ since[m] \in Nat
        /\ h = (IF m = p THEN now + HBT[m] ELSE w + gap) /\ h > now /\ state[m] # "new"
        /\ m \in DOMAIN redis.heartbeats
    BY <1>2, <1>6
  <2>2. /\ w <= c + Between + HBT[m]
        /\ w <= HBT[m] + IF Alive(m) THEN now
                         ELSE since[m] + IF m \in orphans THEN Between ELSE 0
        /\ \A q \in Owners : Alive(q) => due[q] < w + Period
    BY <1>0, <2>1 DEF Lasting
  <2>3. c \in Nat /\ d \in Nat /\ c + gap <= d /\ d <= now /\ now < d + MinTick
    BY <1>1, <1>5
  <2>4. \A q \in Owners : q # p => (Alive(q)' <=> Alive(q))
    BY <1>3 DEF Alive
  <2>5. Alive(p)'
    BY <1>3 DEF Alive
  <2> HIDE DEF h, w, c, d
  <2>6. h <= d + Between + HBT[m]
    BY <1>1, <1>2, <2>1, <2>2, <2>3
  <2>7. h <= HBT[m] + IF Alive(m)' THEN now
                      ELSE since'[m] + IF m \in orphans' THEN Between ELSE 0
    <3>1. CASE m = p
      BY <1>1, <2>1, <2>5, <3>1
    <3>2. CASE m # p /\ attended
      <4>1. gap = 0 /\ h = w /\ since' = since /\ orphans' = orphans
        BY <1>4, <2>1, <3>2
      <4> QED BY <2>1, <2>2, <2>4, <3>2, <4>1
    <3>3. CASE m # p /\ ~attended
      <4>1. ~Alive(m)' /\ since'[m] = now /\ m \in orphans'
        BY <2>1, <2>4, <3>3
      <4>2. h <= HBT[m] + now + Between
        BY <1>1, <1>2, <2>1, <2>3, <2>6
      <4> QED BY <1>1, <1>2, <2>1, <4>1, <4>2
    <3> QED BY <3>1, <3>2, <3>3
  <2>8. ASSUME NEW q \in Owners, Alive(q)' PROVE due'[q] < h + Period
    <3>1. CASE q = p
      BY <1>1, <1>3, <2>1, <3>1
    <3>2. CASE q # p
      <4>1. Alive(q) /\ gap = 0 /\ due'[q] = due[q] /\ due[q] \in Nat
        BY <1>1, <1>3, <1>4, <2>4, <2>8, <3>2
      <4>2. due[q] < w + Period /\ due[q] <= now + Period
        BY <1>0, <2>2, <4>1 DEF OnTime
      <4> QED BY <1>1, <2>1, <4>1, <4>2
    <3> QED BY <3>1, <3>2
  <2> QED BY <2>6, <2>7, <2>8 DEF h, d
<1>11. Marked'
  <2> SUFFICES ASSUME NEW m \in DOMAIN redis'.presence, redis'.presence[m] # Subscribed
               PROVE  /\ redis'.presence[m] <= redis'.clock + Between
                      /\ redis'.clock <= redis'.presence[m] + PresenceGrace
    BY DEF Marked, Between
  <2>1. CASE ticked /\ redis'.presence[m] = now
    BY <1>1, <1>2, <1>5, <2>1
  <2>2. CASE /\ m \in DOMAIN redis.presence /\ redis.presence[m] # Subscribed
             /\ redis'.presence[m] = redis.presence[m] + gap
             /\ ticked => now - redis'.presence[m] < PresenceGrace
    <3>1. /\ redis.presence[m] <= redis.clock + Between /\ redis.presence[m] \in Nat
          /\ redis.clock <= redis.presence[m] + PresenceGrace
      BY <1>0, <1>2, <2>2 DEF Marked
    <3> QED BY <1>1, <1>2, <1>5, <1>8, <2>2, <3>1
  <2> QED BY <1>7, <2>1, <2>2
<1>12. Unseen'
  <2> SUFFICES ASSUME NEW m \in Owners, state'[m] = "killed"
               PROVE  /\ m \notin subs'
                      /\ m \in DOMAIN redis'.presence =>
                           IF redis'.presence[m] = Subscribed THEN redis'.clock <= since'[m]
                           ELSE redis'.presence[m] <= since'[m] + Between
    BY DEF Unseen, Between
  <2>1. m # p /\ state[m] = "killed"
    BY <1>3
  <2>2. /\ m \notin subs'
        /\ m \in DOMAIN redis.presence =>
             IF redis.presence[m] = Subscribed THEN redis.clock <= since[m]
             ELSE redis.presence[m] <= since[m] + Between
    BY <1>0, <2>1 DEF Unseen
  <2>3. since[m] \in Nat
    BY <1>2
  <2>4. ASSUME m \in DOMAIN redis'.presence, redis'.presence[m] = Subscribed
        PROVE  redis'.clock <= since'[m]
    <3>1. m \in DOMAIN redis'.heartbeats
      BY <2>4 DEF Swept
    <3>2. Found(redis, redis', p, now, subs')
      BY <1>6, <3>1
    <3>3. ~ticked /\ m \in DOMAIN redis.presence /\ redis.presence[m] = Subscribed
      <4> DEFINE was == IF m = p \/ redis.presence[m] = Subscribed THEN Subscribed
                        ELSE redis.presence[m] + gap
      <4>1. IF ~ticked THEN m \in DOMAIN redis.presence /\ Subscribed = was
            ELSE /\ m \in DOMAIN redis.presence
                 /\ IF was = Subscribed THEN Subscribed = now ELSE Subscribed = was
        BY <2>2, <2>4, <3>2 DEF Found, gap, ticked
      <4> QED BY <1>1, <1>2, <2>1, <4>1 DEF Subscribed
    <3>4. redis'.clock = redis.clock /\ redis.clock <= since[m]
      BY <1>5, <2>2, <3>3
    <3> QED BY <1>1, <3>4
  <2>5. ASSUME m \in DOMAIN redis'.presence, redis'.presence[m] # Subscribed
        PROVE  redis'.presence[m] <= since'[m] + Between
    <3>1. CASE /\ redis'.presence[m] = now /\ m \in DOMAIN redis.presence
               /\ redis.presence[m] = Subscribed
      <4>1. CASE attended
        <5>1. PICK q \in Owners : Alive(q)
          BY <4>1
        <5>2. now <= due[q] /\ due[q] <= redis.clock + Between /\ due[q] \in Nat
          BY <1>0, <1>1, <5>1 DEF OnTime
        <5>3. redis.clock <= since[m] /\ since' = since
          BY <2>2, <3>1, <4>1
        <5> QED BY <1>1, <1>2, <2>3, <3>1, <5>2, <5>3
      <4>2. CASE ~attended
        BY <1>1, <1>2, <3>1, <4>2
      <4> QED BY <4>1, <4>2
    <3>2. CASE /\ m \in DOMAIN redis.presence /\ redis.presence[m] # Subscribed
               /\ redis'.presence[m] = redis.presence[m] + gap
      <4>1. redis.presence[m] \in Nat /\ redis.presence[m] <= redis.clock + Between
        BY <1>0, <1>2, <3>2 DEF Marked
      <4>2. CASE attended
        <5>1. gap = 0 /\ since' = since /\ redis.presence[m] <= since[m] + Between
          BY <1>4, <2>2, <3>2, <4>2
        <5> QED BY <3>2, <4>1, <5>1
      <4>3. CASE ~attended
        BY <1>1, <1>2, <1>5, <3>2, <4>1, <4>3
      <4> QED BY <4>2, <4>3
    <3> QED BY <1>7, <2>1, <2>5, <3>1, <3>2
  <2> QED BY <2>2, <2>4, <2>5
<1>13. Started'
  BY <1>0, SweepStarts
<1>14. SweepsSuffice'
  BY <1>0 DEF SweepsSuffice, Between
<1> QED BY <1>9, <1>10, <1>11, <1>12, <1>13, <1>14 DEF RecoverInv

(* A pop sets a heartbeat that lasts, and touches nobody else's.           *)
LEMMA PopRecovers ==
  ASSUME RecoverInv, FDInv', NEW o \in Owners, Pop(o)
  PROVE  RecoverInv'
<1>0. SweepsSuffice /\ FDInv /\ Started /\ TypeOK
  BY DEF RecoverInv, FDInv
<1>1. /\ UNCHANGED <<now, subs, state, due, stall, since, orphans>> /\ Alive(o)
      /\ o \in Holders /\ took' = took \cup {o}
  BY DEF Pop
<1>2. /\ redis'.clock = redis.clock /\ redis'.presence = redis.presence
      /\ redis'.heartbeats = Put(redis.heartbeats, {o}, now + HBT[o])
  BY <1>0, <1>1, PopStep DEF SweepsSuffice
<1>3. Started' /\ SweepsSuffice'
  <2>1. state[o] # "new"
    BY <1>1 DEF Alive
  <2> QED BY <1>0, <1>1, <1>2, <2>1 DEF Started, SweepsSuffice, Between
<1>4. ASSUME stall = 0, OnTime, Lasting, Marked, Unseen
      PROVE  OnTime' /\ Lasting' /\ Marked' /\ Unseen'
  <2>1. OnTime' /\ Marked' /\ Unseen'
    BY <1>1, <1>2, <1>4 DEF OnTime, Marked, Unseen, Alive, Between
  <2>2. Lasting'
    <3> SUFFICES ASSUME NEW m \in DOMAIN redis'.heartbeats
                 PROVE  /\ redis'.heartbeats[m] <= redis.clock + Between + HBT[m]
                        /\ redis'.heartbeats[m] <= HBT[m] + IF Alive(m) THEN now
                             ELSE since[m] + IF m \in orphans THEN Between ELSE 0
                        /\ \A q \in Owners : Alive(q) => due[q] < redis'.heartbeats[m] + Period
      BY <1>1, <1>2 DEF Lasting, Between, Alive
    <3>1. CASE m = o
      <4>1. redis'.heartbeats[m] = now + HBT[o]
        BY <1>2, <3>1 DEF Put
      <4>2. /\ HBT[o] \in Nat /\ HBT[o] > 0 /\ now \in Nat /\ Between \in Nat /\ Period \in Nat
            /\ redis.clock \in Nat /\ \A q \in Owners : due[q] \in Nat
        BY <1>0, <1>1, ClockFacts, TimeFacts DEF SweepsSuffice
      <4>3. \A q \in Owners : Alive(q) =>
              now <= due[q] /\ due[q] <= now + Period /\ due[q] <= redis.clock + Between
        BY <1>4 DEF OnTime
      <4> HIDE DEF Between
      <4>4. now <= redis.clock + Between
        BY <1>1, <4>2, <4>3
      <4> QED BY <1>1, <3>1, <4>1, <4>2, <4>3, <4>4
    <3>2. CASE m # o
      <4>1. m \in DOMAIN redis.heartbeats /\ redis'.heartbeats[m] = redis.heartbeats[m]
        BY <1>2, <3>2 DEF Put
      <4> QED BY <1>4, <4>1 DEF Lasting
    <3> QED BY <3>1, <3>2
  <2> QED BY <2>1, <2>2
<1> QED BY <1>1, <1>3, <1>4 DEF RecoverInv

(* A death, a connection that drops or comes back, or time that passes     *)
(* leaves what the last sweep and pop wrote.                               *)
LEMMA QuietRecovers ==
  ASSUME RecoverInv, FDInv', UNCHANGED <<redis, due, took, stall, orphans>>,
         now' >= now,
         Running => \A o \in Owners : Alive(o)' => now' <= due[o],
         \A o \in Owners : /\ Alive(o)' => Alive(o)
                           /\ state'[o] # "new" <=> state[o] # "new"
                           /\ Alive(o) /\ ~Alive(o)' => since'[o] = now
                           /\ ~Alive(o) => since'[o] = since[o]
                           /\ state'[o] = "killed" => o \notin subs' /\ state[o] \in {"alive", "killed"}
  PROVE  RecoverInv'
<1>0. SweepsSuffice /\ FDInv /\ Started /\ TypeOK
  BY DEF RecoverInv, FDInv
<1>1. /\ now \in Nat \ {0} /\ now' \in Nat \ {0} /\ redis.clock \in Nat /\ Period \in Nat \ {0}
      /\ redis.clock <= now /\ Between \in Nat
      /\ \A o \in Owners : HBT[o] \in Nat /\ since[o] \in Nat /\ due[o] \in Nat
      /\ \A o \in DOMAIN redis.heartbeats : redis.heartbeats[o] \in Nat /\ o \in Owners
      /\ \A o \in DOMAIN redis.presence : redis.presence[o] \in Nat
  <2>1. now' \in Nat \ {0}
    BY FDAssumption DEF FDInv, TypeOK
  <2> QED BY <1>0, <2>1, ClockFacts, TimeFacts DEF Started
<1>2. Started' /\ SweepsSuffice'
  <2>1. redis.clock <= now'
    BY <1>1
  <2>2. took \subseteq Owners
    BY <1>0, FDAssumption DEF TypeOK
  <2> QED BY <1>0, <2>1, <2>2 DEF Started, SweepsSuffice, Between
<1>3. ASSUME stall = 0, OnTime, Lasting, Marked, Unseen
      PROVE  OnTime' /\ Lasting' /\ Marked' /\ Unseen'
  <2>1. OnTime'
    <3> SUFFICES ASSUME NEW o \in Owners, Alive(o)'
                 PROVE  /\ now' <= due[o] /\ due[o] <= now' + Period
                        /\ due[o] <= redis.clock + Between
      BY DEF OnTime, Between
    <3>1. Running
      BY <1>1, <1>3 DEF Running
    <3>2. due[o] <= now + Period /\ due[o] <= redis.clock + Between /\ due[o] \in Nat
      BY <1>1, <1>3 DEF OnTime
    <3> QED BY <1>1, <3>1, <3>2
  <2>2. Lasting'
    <3> SUFFICES ASSUME NEW m \in DOMAIN redis.heartbeats
                 PROVE  /\ redis.heartbeats[m] <= redis.clock + Between + HBT[m]
                        /\ redis.heartbeats[m] <= HBT[m] + IF Alive(m)' THEN now'
                             ELSE since'[m] + IF m \in orphans THEN Between ELSE 0
                        /\ \A q \in Owners : Alive(q)' => due[q] < redis.heartbeats[m] + Period
      BY DEF Lasting, Between
    <3>1. /\ redis.heartbeats[m] <= redis.clock + Between + HBT[m]
          /\ redis.heartbeats[m] <= HBT[m] + IF Alive(m) THEN now
               ELSE since[m] + IF m \in orphans THEN Between ELSE 0
          /\ \A q \in Owners : Alive(q) => due[q] < redis.heartbeats[m] + Period
      BY <1>3 DEF Lasting
    <3>2. m \in Owners /\ HBT[m] \in Nat /\ redis.heartbeats[m] \in Nat
      BY <1>1
    <3>3. CASE Alive(m)'
      <4>1. Alive(m)
        BY <3>2, <3>3
      <4> QED BY <1>1, <3>1, <3>2, <3>3, <4>1
    <3>4. CASE Alive(m) /\ ~Alive(m)'
      <4>1. since'[m] = now
        BY <3>2, <3>4
      <4> QED BY <1>1, <3>1, <3>2, <3>4, <4>1
    <3>5. CASE ~Alive(m)
      <4>1. since'[m] = since[m] /\ ~Alive(m)'
        BY <3>2, <3>5
      <4> QED BY <3>1, <3>5, <4>1
    <3> QED BY <3>3, <3>4, <3>5
  <2>3. Marked'
    BY <1>3 DEF Marked, Between
  <2>4. Unseen'
    <3> SUFFICES ASSUME NEW m \in Owners, state'[m] = "killed", m \in DOMAIN redis.presence
                 PROVE  IF redis.presence[m] = Subscribed THEN redis.clock <= since'[m]
                        ELSE redis.presence[m] <= since'[m] + Between
      BY DEF Unseen, Between
    <3>1. redis.presence[m] \in Nat
      BY <1>1
    <3>2. CASE state[m] = "killed"
      <4>1. since'[m] = since[m]
        BY <3>2 DEF Alive
      <4> QED BY <1>3, <3>2, <4>1 DEF Unseen
    <3>3. CASE Alive(m)
      <4>1. since'[m] = now
        BY <3>3 DEF Alive
      <4>2. redis.presence[m] # Subscribed => redis.presence[m] <= redis.clock + Between
        BY <1>3 DEF Marked
      <4> QED BY <1>1, <3>1, <4>1, <4>2
    <3> QED BY <3>2, <3>3 DEF Alive
  <2> QED BY <2>1, <2>2, <2>3, <2>4
<1> QED BY <1>2, <1>3 DEF RecoverInv

LEMMA RecoverStep == ASSUME RecoverInv, [Next]_vars PROVE RecoverInv'
<1>0. /\ FDInv /\ TypeOK /\ Started /\ FDInv' /\ SweepsSuffice /\ SweepsSuffice'
      /\ now \in Nat \ {0} /\ stall \in Nat /\ Period \in Nat \ {0}
      /\ \A o \in Owners : due[o] \in Nat
  BY FDStep, ClockFacts DEF RecoverInv, FDInv, SweepsSuffice, Between
<1>1. CASE UNCHANGED vars
  BY <1>0, <1>1 DEF vars, RecoverInv, Started, OnTime, Lasting, Marked, Unseen, Alive, Between
<1>2. ASSUME NEW o \in Owners, NEW t \in now + 1 .. now + Period, due' = [due EXCEPT ![o] = t],
             o \notin took \/ Alive(o), state[o] # "killed",
             redis' \in Ticks(redis, o, now, subs'), subs' \in SUBSET Owners,
             subs' \subseteq subs \cup {o}, UNCHANGED <<now, stall, took>>,
             state' = [state EXCEPT ![o] = "alive"],
             IF \E q \in Owners : Alive(q) THEN since' = since /\ orphans' = orphans
             ELSE /\ \A q \in Owners : since'[q] = now
                  /\ \A q \in Owners : state[q] # "new" => q \in orphans'
      PROVE  RecoverInv'
  <2>1. StoreOK(redis') => TypeOK'
    BY <1>0 DEF FDInv
  <2>2. /\ \E dead : Swept(redis, redis', o, now, dead)
        /\ redis.clock # Absent => Found(redis, redis', o, now, subs')
    BY <1>0, <1>2, <2>1, SweepKeepsInv
  <2>3. PICK dead : Swept(redis, redis', o, now, dead)
    BY <2>2
  <2>4. CASE stall = 0
    BY <1>0, <1>2, <2>2, <2>3, <2>4, SweepRecovers
  <2>5. CASE stall # 0
    <3>1. Started'
      BY <1>0, <1>2, <2>3, SweepStarts
    <3> QED BY <1>0, <1>2, <2>5, <3>1 DEF RecoverInv
  <2> QED BY <2>4, <2>5
<1>3. ASSUME NEW o \in Owners, Start(o) PROVE RecoverInv'
  <2>1. /\ redis' \in Ticks(redis, o, now, subs') /\ subs' = subs \cup {o}
        /\ UNCHANGED <<now, stall, took>> /\ due' = [due EXCEPT ![o] = now + Period]
        /\ state' = [state EXCEPT ![o] = "alive"] /\ state[o] = "new"
    BY <1>3 DEF Start
  <2>2. now + Period \in now + 1 .. now + Period
    BY <1>0
  <2>3. subs' \in SUBSET Owners /\ o \notin took
    BY <1>0, <2>1 DEF TypeOK, Started
  <2>4. IF \E q \in Owners : Alive(q) THEN since' = since /\ orphans' = orphans
        ELSE /\ \A q \in Owners : since'[q] = now
             /\ \A q \in Owners : state[q] # "new" => q \in orphans'
    <3>1. /\ since' = [q \in Owners |-> IF \E p \in Owners : Alive(p) THEN since[q] ELSE now]
          /\ orphans' = IF \E p \in Owners : Alive(p) THEN orphans
                        ELSE {q \in Owners : state[q] # "new"}
      BY <1>3 DEF Start
    <3>2. CASE \E q \in Owners : Alive(q)
      <4>1. since' = [q \in Owners |-> since[q]] /\ orphans' = orphans
        BY <3>1, <3>2
      <4> QED BY <1>0, <3>2, <4>1 DEF TypeOK
    <3>3. CASE ~\E q \in Owners : Alive(q)
      <4>1. since' = [q \in Owners |-> now] /\ orphans' = {q \in Owners : state[q] # "new"}
        BY <3>1, <3>3
      <4> QED BY <3>3, <4>1
    <3> QED BY <3>2, <3>3
  <2> QED BY <1>2, <2>1, <2>2, <2>3, <2>4
<1>4. ASSUME NEW o \in Owners, Sweep(o) PROVE RecoverInv'
  <2>1. PICK t \in now + 1 .. now + Period : due' = [due EXCEPT ![o] = t]
    <3>1. due[o] \in Nat /\ now \in Nat /\ due[o] <= now
      BY <1>0, <1>4 DEF Sweep
    <3> QED BY <1>4, <3>1, NextTick DEF Sweep
  <2>2. /\ redis' \in Ticks(redis, o, now, subs') /\ subs' = subs /\ subs' \in SUBSET Owners
        /\ UNCHANGED <<now, stall, took, since, orphans>> /\ Alive(o)
        /\ state' = [state EXCEPT ![o] = "alive"] /\ state[o] # "killed"
    BY <1>0, <1>4 DEF Sweep, Alive, TypeOK
  <2>3. subs' \subseteq subs \cup {o} /\ (o \notin took \/ Alive(o))
    BY <2>2
  <2>4. IF \E q \in Owners : Alive(q) THEN since' = since /\ orphans' = orphans
        ELSE /\ \A q \in Owners : since'[q] = now
             /\ \A q \in Owners : state[q] # "new" => q \in orphans'
    BY <2>2
  <2> QED BY <1>2, <2>1, <2>2, <2>3, <2>4
<1>5. ASSUME NEW o \in Owners, Pop(o) PROVE RecoverInv'
  BY <1>0, <1>5, PopRecovers
<1>6. ASSUME NEW o \in Owners, NEW how \in {"killed", "lost"}, Die(o, how) PROVE RecoverInv'
  <2>1. /\ UNCHANGED <<redis, now, due, stall, took, orphans>>
        /\ state[o] = "alive" /\ state' = [state EXCEPT ![o] = how] /\ DOMAIN state = Owners
        /\ since' = [since EXCEPT ![o] = now] /\ DOMAIN since = Owners
        /\ subs' = IF how = "killed" THEN subs \ {o} ELSE subs
    BY <1>0, <1>6 DEF Die, Alive, TypeOK
  <2>2. CASE stall = 0
    <3>1. OnTime /\ Unseen
      BY <2>2 DEF RecoverInv
    <3>2. ASSUME NEW q \in Owners
          PROVE  /\ Alive(q)' => Alive(q)
                 /\ state'[q] # "new" <=> state[q] # "new"
                 /\ Alive(q) /\ ~Alive(q)' => since'[q] = now
                 /\ ~Alive(q) => since'[q] = since[q]
                 /\ state'[q] = "killed" => q \notin subs' /\ state[q] \in {"alive", "killed"}
      <4>1. CASE q = o
        BY <2>1, <4>1 DEF Alive
      <4>2. CASE q # o
        <5>1. state'[q] = state[q] /\ since'[q] = since[q] /\ (q \in subs' => q \in subs)
          BY <2>1, <4>2
        <5>2. state[q] = "killed" => q \notin subs'
          BY <3>1, <5>1 DEF Unseen
        <5> QED BY <4>2, <5>1, <5>2 DEF Alive
      <4> QED BY <4>1, <4>2
    <3>3. \A q \in Owners : Alive(q)' => now' <= due[q]
      BY <2>1, <3>1, <3>2 DEF OnTime
    <3> QED BY <1>0, <2>1, <3>2, <3>3, QuietRecovers
  <2>3. CASE stall # 0
    BY <1>0, <2>1, <2>3 DEF RecoverInv, Started
  <2> QED BY <2>2, <2>3
<1>7. ASSUME NEW o \in Owners, Unsubscribe(o) \/ Resubscribe(o) PROVE RecoverInv'
  BY <1>0, <1>7 DEF Unsubscribe, Resubscribe, RecoverInv, Started, OnTime, Lasting, Marked,
                    Unseen, Alive, Between
<1>8. ASSUME NEW d \in Stalls, Stall(d) PROVE RecoverInv'
  <2>1. stall' # 0 /\ UNCHANGED <<redis, now, state, took>>
    BY <1>0, <1>8, FDAssumption DEF Stall
  <2> QED BY <1>0, <2>1 DEF RecoverInv, Started
<1>9. CASE Advance
  <2>1. /\ UNCHANGED <<redis, subs, state, due, stall, took, since, orphans>>
        /\ now' >= now /\ now' <= now + 1 /\ now' \in Nat
        /\ Running => \A o \in Owners : Alive(o) => due[o] > now
    BY <1>0, <1>9, FDAssumption DEF Advance
  <2>2. CASE stall = 0
    <3>1. Running => \A o \in Owners : Alive(o)' => now' <= due[o]
      BY <1>0, <2>1 DEF Alive
    <3>2. \A o \in Owners : state[o] = "killed" => o \notin subs
      BY <2>2 DEF RecoverInv, Unseen
    <3> QED BY <1>0, <2>1, <3>1, <3>2, QuietRecovers DEF Alive
  <2>3. CASE stall # 0
    <3>1. redis.clock <= now /\ redis.clock \in Nat
      BY <1>0, ClockFacts DEF Started
    <3>2. Started'
      BY <1>0, <2>1, <3>1 DEF Started
    <3> QED BY <1>0, <2>1, <2>3, <3>2 DEF RecoverInv
  <2> QED BY <2>2, <2>3
<1> QED BY <1>1, <1>3, <1>4, <1>5, <1>6, <1>7, <1>8, <1>9 DEF Next

(* The jobs of a dead consumer are back in time, at any resolution of the  *)
(* clock, for any number of consumers that die, start and sweep, as long   *)
(* as Redis does not stall (tickBody, presenceGrace, SetHeartbeatTimeout): *)
(* a killed one's within the grace and two sweeps that move the clock, and *)
(* any other's within its heartbeat timeout and one period.                *)
THEOREM DeadAreRecovered == SweepsSuffice => (Spec => []RecoveredInTime)
<1>1. SweepsSuffice /\ Init => RecoverInv
  <2> SUFFICES ASSUME SweepsSuffice, Init PROVE RecoverInv
    OBVIOUS
  <2>1. /\ FDInv /\ redis.clock = 0 /\ now = 1 /\ stall = 0 /\ took = {}
        /\ \A o \in Owners : state[o] = "new"
        /\ DOMAIN redis.heartbeats = {} /\ DOMAIN redis.presence = {}
    BY FDInit, EmptyFacts DEF Init, EmptyStore, Absent
  <2> QED BY <2>1 DEF RecoverInv, Started, OnTime, Lasting, Marked, Unseen, Alive
<1>2. RecoverInv /\ [Next]_vars => RecoverInv'
  BY RecoverStep
<1>3. RecoverInv => RecoveredInTime
  <2> SUFFICES ASSUME RecoverInv, NEW o \in took, ~Alive(o), Holds(o), stall = 0,
                      NEW p \in Owners, Alive(p)
               PROVE  now - since[o] <= IF state[o] = "killed" /\ o \in DOMAIN redis.presence
                        THEN PresenceGrace + 2 * Between
                        ELSE HBT[o] + Period + IF o \in orphans THEN Between ELSE 0
    BY DEF RecoveredInTime
  <2>1. FDInv /\ SweepsSuffice /\ OnTime /\ Lasting /\ Marked /\ Unseen
    BY DEF RecoverInv
  <2>2. o \in Owners /\ o \in Holders
    BY <2>1, FDAssumption DEF FDInv, TypeOK
  <2>3. o \in DOMAIN redis.heartbeats
    <3>1. PICK id \in DOMAIN redis.nacked : id.owner = o
      BY DEF Holds, OwnedBy
    <3> QED BY <2>1, <2>2, <3>1 DEF FDInv, Sound, Covered, SweepsSuffice
  <2>4. /\ now \in Nat /\ redis.clock \in Nat /\ Between \in Nat /\ Period \in Nat
        /\ PresenceGrace \in Nat /\ HBT[o] \in Nat /\ since[o] \in Nat /\ due[p] \in Nat
        /\ redis.heartbeats[o] \in Nat
        /\ o \in DOMAIN redis.presence => redis.presence[o] \in Nat
    BY <2>1, <2>2, <2>3, ClockFacts, TimeFacts
  <2>5. now <= due[p] /\ due[p] <= redis.clock + Between
    BY <2>1 DEF OnTime
  <2>6. CASE state[o] = "killed" /\ o \in DOMAIN redis.presence
    <3>1. CASE redis.presence[o] = Subscribed
      <4>1. redis.clock <= since[o]
        BY <2>1, <2>2, <2>6, <3>1 DEF Unseen
      <4> QED BY <2>4, <2>5, <2>6, <4>1
    <3>2. CASE redis.presence[o] # Subscribed
      <4>1. /\ redis.presence[o] <= since[o] + Between
            /\ redis.clock <= redis.presence[o] + PresenceGrace
        BY <2>1, <2>2, <2>6, <3>2 DEF Unseen, Marked
      <4> QED BY <2>4, <2>5, <2>6, <4>1
    <3> QED BY <3>1, <3>2
  <2>7. CASE ~(state[o] = "killed" /\ o \in DOMAIN redis.presence)
    <3>1. /\ redis.heartbeats[o] <= HBT[o] + (since[o] + IF o \in orphans THEN Between ELSE 0)
          /\ due[p] < redis.heartbeats[o] + Period
      BY <2>1, <2>3 DEF Lasting
    <3> QED BY <2>4, <2>5, <2>7, <3>1
  <2> QED BY <2>6, <2>7
<1> QED BY <1>1, <1>2, <1>3, PTL DEF Spec

=============================================================================
