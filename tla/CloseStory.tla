------------------------------ MODULE CloseStory ------------------------------
(***************************************************************************)
(* redisq-close.svg (assets/diagrams/gen/gen_close.py): consumer C2 closes *)
(* with jobs running and unacknowledged; Close hands them back to the      *)
(* front of the list and wakes C1, which runs them again.                  *)
(*                                                                         *)
(* Sim is an event loop over the keys of Redis and two consumers, each     *)
(* with the pull loop of its worker; build() asserts the story of the logs *)
(* and draws them.  A behaviour does so for one scenario: the times of the *)
(* enqueues, of C2's nudges, of C1's start and C2's Close, how long each   *)
(* job runs, and how many items a pop takes at once.                       *)
(***************************************************************************)
EXTENDS Keyframes, EventQueue

CONSTANT Scenarios   \* [enq, work: of each job, tick, start, close, pop]

VARIABLES
  sc,      \* the scenario
  world,   \* the simulation: the events to come, Redis, the consumers and the logs
  status   \* "running", then "drawn" or "refused"

vars == <<sc, world, status>>

CONC == 3
EnqFly == Cs(50)
Leave == Cs(22)        \* LEAVE and the gap to the release script
REL == Cs(32)
ExitAfter == Cs(30)
PopGap == Cs(5)
PopMove == Cs(60)
Horizon == Cs(3000)
VT == Cs(1600)
Hold == Cs(100)
XFade == Cs(50)

Both == {"C1", "C2"}
Three == {"J1", "J2", "J3"}
Names == <<"J1", "J2", "J3">>
NoJob == "free"

(* travel: the fade-in of the dot and the pixels over its speed.           *)
WakeTravel(m) == IF m = "C1" THEN 2769 ELSE 1962
PopTravel(m) == IF m = "C1" THEN 5692 ELSE 9635

Event(t, kind, m, job, n) == [t |-> t, kind |-> kind, m |-> m, job |-> job, n |-> n]

Idle(m) == m = "C2"    \* C2 has subscribed before the story starts
Start ==
  [ev |-> Scheduled([i \in 1..3 |-> Event(sc.enq[i], "enqueue", "", Names[i], 0)]
                      \o <<Event(sc.tick, "nudge", "C2", "", 0), Event(sc.start, "subscribe", "C1", "", 0),
                           Event(sc.close, "close", "C2", "", 0)>>),
   now |-> 0, lst |-> <<>>, idle |-> {"C2"}, done |-> {}, pending |-> [j \in {} |-> 0],
   alive |-> [m \in Both |-> Idle(m)], consumer |-> [m \in Both |-> Idle(m)],
   sub |-> [m \in Both |-> Idle(m)], free |-> [m \in Both |-> Idle(m)], closed |-> [m \in Both |-> FALSE],
   slots |-> [m \in Both |-> [s \in 1..CONC |-> NoJob]], seq |-> 0,
   pulling |-> [m \in Both |-> FALSE], signal |-> [m \in Both |-> FALSE], cause |-> [m \in Both |-> ""],
   idleLog |-> [m \in Both |-> <<>>], busyLog |-> [m \in Both |-> <<>>], ticks |-> [m \in Both |-> {}],
   item |-> [j \in Three |-> <<>>], where |-> [j \in Three |-> <<>>],
   entries |-> {}, runs |-> {}, pops |-> <<>>, acks |-> <<>>, failed |-> {}, wakes |-> <<>>,
   pushWakes |-> <<>>, stays |-> <<>>, atClose |-> <<>>, release |-> <<>>, closeWake |-> <<>>, exit |-> <<>>]

Init == sc \in Scenarios /\ world = Start /\ status = "running"

-----------------------------------------------------------------------------
(* The steps of the handlers, on a world w whose next event was taken out. *)

At(w, dt, kind, m, job, n) == [w EXCEPT !.ev = Insert(@, Event(w.now + dt, kind, m, job, n))]
Busy(w, m) == Cardinality({s \in 1..CONC : w.slots[m][s] # NoJob})

Sadd(w, m) ==
  IF m \in w.idle THEN w
  ELSE [w EXCEPT !.idle = @ \cup {m}, !.idleLog[m] = Append(@, [t |-> w.now, in |-> TRUE])]
Srem(w, m) ==
  IF m \notin w.idle THEN w
  ELSE [w EXCEPT !.idle = @ \ {m}, !.idleLog[m] = Append(@, [t |-> w.now, in |-> FALSE])]

(* Mutant of Looked: a closed consumer that reads 0 joins :idle.           *)
LookedAlways(w, m) == IF w.lst = <<>> THEN [Sadd(w, m) EXCEPT !.free[m] = TRUE] ELSE w
(* length: Len() of a consumer that reads 0 marks it idle.                 *)
Looked(w, m) ==
  IF w.lst = <<>> /\ w.consumer[m] THEN [Sadd(w, m) EXCEPT !.free[m] = TRUE] ELSE w

(* wake: SPOP and PUBLISH; refused unless :idle has one member at most.    *)
WakeHolds(w, count) == count > 0 => Cardinality(w.idle) <= 1
Woken(w, count) == IF count = 0 THEN {} ELSE w.idle
Wake(w, count) ==
  LET Wakes(u, m) ==
        At([u EXCEPT !.wakes = Append(@, [t |-> u.now, m |-> m])], WakeTravel(m), "wake", m, "", 0)
      woken == [w EXCEPT !.idle = @ \ Woken(w, count),
                         !.idleLog = [m \in Both |-> IF m \in Woken(w, count)
                                                     THEN Append(@[m], [t |-> w.now, in |-> FALSE]) ELSE @[m]]]
  IN FoldLeft(Wakes, woken, SetToSeq({m \in Woken(w, count) : w.sub[m]}))

Placed(w, j, keys, p) ==
  [w EXCEPT !.item[j] = @ \o keys, !.where[j] = Append(@, [t |-> w.now, place |-> p])]
Spot(p, i, shown) == <<p, i, shown>>
Counted(w, m) == [w EXCEPT !.busyLog[m] = Append(@, [t |-> w.now, busy |-> Busy(w, m)])]
LastOf(S) == CHOOSE x \in S : \A y \in S : y <= x
LeastOf(S) == CHOOSE x \in S : \A y \in S : x <= y

(* One item of a pop: into pending, a free row of the picture and a slot.  *)
PopItem(w, m) ==
  LET job == Head(w.lst)
      row == LastOf({0, 1, 2} \ {w.pending[j].row : j \in DOMAIN w.pending})
      slot == LeastOf({s \in 1..CONC : w.slots[m][s] = NoJob})
      entry == [owner |-> m, row |-> row, t |-> w.now, seq |-> w.seq + 1]
      popped == [w EXCEPT !.lst = Tail(@), !.seq = @ + 1, !.slots[m][slot] = job,
                          !.pending = [j \in DOMAIN @ \cup {job} |-> IF j = job THEN entry ELSE @[j]],
                          !.pops = Append(@, [t |-> w.now, m |-> m, job |-> job, why |-> w.cause[m]]),
                          !.runs = @ \cup {[m |-> m, slot |-> slot, job |-> job, from |-> w.now,
                                            start |-> w.now + PopTravel(m), end |-> 0, cut |-> FALSE]}]
  IN At(Placed(Counted(popped, m), job,
               <<Key(w.now, Last(w.item[job]).v), Key(w.now + PopMove, Spot("row", row, 1))>>, m),
        PopTravel(m) + sc.work[job], "end", m, job, slot)

(* pop_call: min(free slots, POP) items; a short batch marks the consumer. *)
PopCall(w, m) ==
  LET want == Min({CONC - Busy(w, m), sc.pop})
      n == Min({want, Len(w.lst)})
      popped == FoldLeft(LAMBDA u, i : PopItem(u, m), w, [i \in 1..n |-> i])
      short == sc.pop > 1 /\ popped.lst = <<>> /\ n < want
  IN [(IF short /\ w.consumer[m] THEN Sadd(popped, m) ELSE popped) EXCEPT !.free[m] = short]

(* The pull loop: while the consumer lives, has a free slot and Len() > 0. *)
Pull(w, m) ==
  LET open == w.alive[m] /\ Busy(w, m) < CONC
  IN IF open /\ w.lst # <<>>
     THEN At(PopCall([w EXCEPT !.pulling[m] = TRUE], m), PopGap, "loop", m, "", 0)
     ELSE [(IF open THEN Looked(w, m) ELSE w) EXCEPT !.pulling[m] = FALSE]

(* loop: and once more for a signal that came while it ran.                *)
Loop(w, m) ==
  LET u == Pull(w, m)
  IN IF ~u.pulling[m] /\ u.signal[m]
     THEN Pull([u EXCEPT !.signal[m] = FALSE, !.cause[m] = "queued signal"], m) ELSE u

Signal(w, m, why) ==
  IF ~w.alive[m] THEN w
  ELSE IF w.pulling[m] THEN [w EXCEPT !.signal[m] = TRUE]
  ELSE Loop([w EXCEPT !.cause[m] = why], m)

-----------------------------------------------------------------------------
(* The events.                                                             *)

OnPush(w, job, call) ==
  LET pushed == [w EXCEPT !.lst = Append(@, job)]
      n == Len(pushed.lst)
      landed == Placed(pushed, job, <<Key(call, Spot("producer", 0, 0)), Key(call + Cs(8), Spot("producer", 0, 1)),
                                      Key(w.now, Spot("list", n, 1))>>, "list")
      woken == Cardinality({m \in Woken(w, n) : w.sub[m]})
  IN [Wake(landed, n) EXCEPT !.pushWakes = Append(@, <<job, n, woken>>)]

OnNudge(w, m) ==
  LET ticked == [w EXCEPT !.ticks[m] = @ \cup {w.now}]
      stays == IF m = "C2" /\ w.stays = <<>> /\ m \notin w.idle
               THEN [ticked EXCEPT !.stays = <<[t |-> w.now, busy |-> Busy(w, m)]>>] ELSE ticked
      acted == IF w.lst # <<>> THEN Signal(Srem(ticked, m), m, "nudge poke")
               ELSE IF w.free[m] THEN Sadd(ticked, m) ELSE stays
  IN IF ~w.consumer[m] THEN w
     ELSE IF w.now + Sec <= Horizon THEN At(acted, Sec, "nudge", m, "", 0) ELSE acted

OnSubscribe(w, m) ==
  At(Sadd([w EXCEPT !.alive[m] = TRUE, !.consumer[m] = TRUE, !.sub[m] = TRUE, !.free[m] = TRUE], m),
     Sec, "nudge", m, "", 0)

OnClose(w, m) ==
  At([Srem(w, m) EXCEPT !.closed[m] = TRUE, !.consumer[m] = FALSE, !.atClose = <<w.idle>>],
     Leave, "release", m, "", 0)

(* release wake: once the items have landed.                               *)
WakeAfter == REL

(* release: the items of m go to the front of the list, in pop order.      *)
(* Mutant of Released: to the back.                                        *)
ReleasedBack(lst, ids) == lst \o ids
Released(lst, ids) == Reverse(ids) \o lst
OnRelease(w, m) ==
  LET mine == {j \in DOMAIN w.pending : w.pending[j].owner = m}
      ids == SetToSortSeq(mine, LAMBDA i, j : w.pending[i].seq < w.pending[j].seq)
      list == Released(w.lst, ids)
      SlotOf(j) == CHOOSE i \in DOMAIN list : list[i] = j
      Back(u, j) ==
        Placed(u, j, <<Key(u.now, Spot("row", w.pending[j].row, 1)), Key(u.now + REL, Spot("list", SlotOf(j), 1))>>, "list")
      moved == FoldLeft(Back, [w EXCEPT !.lst = list], ids)
      ends == {[owner |-> m, row |-> w.pending[j].row, t |-> w.pending[j].t, end |-> w.now, how |-> "release"] : j \in mine}
  IN At([moved EXCEPT !.pending = [j \in DOMAIN @ \ mine |-> @[j]], !.entries = @ \cup ends,
                      !.release = <<[t |-> w.now, ids |-> ids, list |-> list]>>],
        WakeAfter, "release wake", m, "", Len(ids))

OnReleaseWake(w, m, n) ==
  At([Wake(w, n) EXCEPT !.sub[m] = FALSE,
        !.closeWake = <<[t |-> w.now, idle |-> w.idle, woken |-> {u \in Woken(w, n) : w.sub[u]}]>>],
     ExitAfter, "exit", m, "", 0)

(* exit: the runs of m are cut off.                                        *)
Open(r) == r.end = 0
Cut(w, m) == {r \in w.runs : r.m = m /\ Open(r)}
CutMidRun(w, m) == \A r \in Cut(w, m) : r.start < w.now /\ w.now < r.start + sc.work[r.job]
OnExit(w, m) ==
  [w EXCEPT !.alive[m] = FALSE, !.exit = <<w.now>>,
            !.runs = (@ \ Cut(w, m)) \cup {[r EXCEPT !.end = w.now, !.cut = TRUE] : r \in Cut(w, m)}]

(* job_end: acknowledge, or fail to after Close; then the worker's Len()   *)
(* and its pull loop.                                                      *)
Acked(w, m, job) ==
  LET e == w.pending[job]
  IN [Placed(w, job, <<Key(w.now, Spot("row", e.row, 1)), Key(w.now + Cs(30), Spot("row", e.row, 0))>>, "done")
        EXCEPT !.done = @ \cup {job}, !.acks = Append(@, [t |-> w.now, m |-> m, job |-> job]),
               !.pending = [j \in DOMAIN @ \ {job} |-> @[j]],
               !.entries = @ \cup {[owner |-> m, row |-> e.row, t |-> e.t, end |-> w.now, how |-> "ack"]}]
OnJobEnd(w, m, slot, job) ==
  LET ended == [w EXCEPT !.runs = {IF r.m = m /\ r.slot = slot /\ r.job = job /\ Open(r)
                                   THEN [r EXCEPT !.end = w.now] ELSE r : r \in @}]
      told == IF w.closed[m] THEN [ended EXCEPT !.failed = @ \cup {job}] ELSE Acked(ended, m, job)
      freed == Counted([told EXCEPT !.slots[m][slot] = NoJob], m)
  IN IF w.alive[m] THEN Signal(Looked(freed, m), m, "job end") ELSE w

-----------------------------------------------------------------------------
(* The event loop: an assertion that fails refuses the scenario.           *)

Due == Head(world.ev)
Taken == [world EXCEPT !.ev = Tail(@), !.now = Due.t]
Handles(kind) ==
  status = "running" /\ world.ev # <<>> /\ Due.kind = kind /\ Due.t <= Horizon /\ UNCHANGED sc
Becomes(assertion, w) ==
  \/ assertion /\ world' = w /\ UNCHANGED status
  \/ ~assertion /\ status' = "refused" /\ UNCHANGED world

Enqueue == Handles("enqueue") /\ Becomes(TRUE, At(Taken, EnqFly, "push", "", Due.job, Due.t))
Push == Handles("push") /\ Becomes(WakeHolds(Taken, Len(world.lst) + 1), OnPush(Taken, Due.job, Due.n))
WakeArrives == Handles("wake") /\ Becomes(TRUE, Signal(Taken, Due.m, "wake"))
LoopOn == Handles("loop") /\ Becomes(TRUE, Loop(Taken, Due.m))
Nudge == Handles("nudge") /\ Becomes(TRUE, OnNudge(Taken, Due.m))
Subscribe == Handles("subscribe") /\ Becomes(TRUE, OnSubscribe(Taken, Due.m))
Close == Handles("close") /\ Becomes(TRUE, OnClose(Taken, Due.m))
Release == Handles("release") /\ Becomes(TRUE, OnRelease(Taken, Due.m))
ReleaseWake == Handles("release wake") /\ Becomes(WakeHolds(Taken, Due.n), OnReleaseWake(Taken, Due.m, Due.n))
Exit == Handles("exit") /\ Becomes(CutMidRun(Taken, Due.m), OnExit(Taken, Due.m))
JobEnd == Handles("end") /\ Becomes(TRUE, OnJobEnd(Taken, Due.m, Due.n, Due.job))

-----------------------------------------------------------------------------
(* build(): the loop, the assertions on the story, and what is drawn.      *)

Times(log) == {log[i].t : i \in DOMAIN log}
End == Max(Times(world.acks)) + Cs(30)
XF0 == End + Hold
XF1 == XF0 + XFade
XM == XF0 + XFade \div 2
D == Sec * ((XF1 + Cs(50) + Sec - 1) \div Sec)
ReleasedAt == world.release[1].t
WokenAt == world.closeWake[1].t
ExitedAt == world.exit[1]

PopsOf(m) == SelectSeq(world.pops, LAMBDA p : p.m = m)
JobsOf(pops) == [i \in DOMAIN pops |-> pops[i].job]
AllByWake(pops) == \A p \in ToSet(pops) : p.why = "wake"
Landed(i) == sc.enq[i] + EnqFly

BurstTold ==
  /\ world.pushWakes = <<<<"J1", 1, 1>>, <<"J2", 2, 0>>, <<"J3", 3, 0>>>>
  /\ JobsOf(PopsOf("C2")) = Names /\ AllByWake(PopsOf("C2"))
  /\ Cardinality(Times(PopsOf("C2"))) = (CONC + sc.pop - 1) \div sc.pop
  /\ world.wakes[1].m = "C2" /\ \A i \in 1..3 : world.wakes[1].t + WakeTravel("C2") > Landed(i)

CloseTold ==
  /\ world.stays # <<>> /\ world.stays[1].busy = CONC /\ world.stays[1].t < sc.close
  /\ "C2" \notin world.atClose[1] /\ \A l \in ToSet(world.idleLog["C2"]) : ~l.in
  /\ \A t \in world.ticks["C2"] : t < sc.close
  /\ world.release[1].ids = Names /\ world.release[1].list = Reverse(Names)
  /\ Cardinality({e \in world.entries : e.owner = "C2"}) = 3
  /\ \A e \in world.entries : e.owner = "C2" => e.how = "release"
  /\ world.closeWake[1].idle = {"C1"} /\ world.closeWake[1].woken = {"C1"}
  /\ Cardinality({r \in world.runs : r.m = "C2"}) = 3 /\ \A r \in world.runs : r.m = "C2" => r.cut

AgainTold ==
  /\ JobsOf(PopsOf("C1")) = Reverse(Names) /\ AllByWake(PopsOf("C1"))
  /\ LET last == Last(PopsOf("C1")).t
     IN last - sc.close < Sec /\ \A t \in world.ticks["C1"] : t < ReleasedAt \/ last < t
  /\ Len(world.acks) = 3 /\ world.done = Three /\ world.failed = {}
  /\ \A a \in ToSet(world.acks) : a.m = "C1"
  /\ \A e \in world.entries : 10 * (e.end - e.t) < 3 * VT
  /\ \A j \in Three :
       /\ [i \in DOMAIN world.where[j] |-> world.where[j][i].place] = <<"list", "C2", "list", "C1", "done">>
       /\ \A i \in 1..4 : world.where[j][i].t <= world.where[j][i + 1].t
  /\ world.lst = <<>> /\ DOMAIN world.pending = {} /\ world.idle = {"C1"}
  /\ Busy(world, "C1") = 0 /\ ~world.alive["C2"]
  /\ \A m \in Both, l \in UNION {ToSet(world.idleLog[n]) : n \in Both} : l.t <= End

(* One label at a time under :idle, and the still shows C1 on its way out. *)
StepsEnd == WokenAt + Cs(130)
UnderIdle ==
  ToSet(Merge({<<Landed(i), Landed(i) + Cs(50)>> : i \in {i \in 1..3 : world.pushWakes[i][3] = 0}}, Rise + Fall))
    \cup {<<world.stays[1].t, world.stays[1].t + Cs(110)>>, <<sc.close, StepsEnd>>}
LabelsTold ==
  /\ \A a, b \in UnderIdle : a # b => a[2] + Fall <= b[1] \/ b[2] + Fall <= a[1]
  /\ \A l \in ToSet(world.idleLog["C1"]) : ~(WokenAt < l.t /\ 2 * (l.t - WokenAt) <= Cs(15) + WakeTravel("C1"))

Build ==
  /\ status = "running" /\ ~(world.ev # <<>> /\ Due.t <= Horizon)
  /\ status' = IF world.acks # <<>> /\ BurstTold /\ CloseTold /\ AgainTold /\ LabelsTold THEN "drawn" ELSE "refused"
  /\ UNCHANGED <<sc, world>>

Next ==
  \/ Enqueue \/ Push \/ WakeArrives \/ LoopOn \/ Nudge \/ Subscribe
  \/ Close \/ Release \/ ReleaseWake \/ Exit \/ JobEnd \/ Build

Spec == Init /\ [][Next]_vars

(* collapse: of states shown for less than a gap the last is kept.         *)
Quick == Cs(15)
(* Mutant of Collapse: the first is kept.                                  *)
CollapseFirst(changes) ==
  FoldLeft(LAMBDA out, c : IF out # <<>> /\ (c[1] - Last(out)[1] < Quick \/ Last(out)[2] = c[2]) THEN out
                           ELSE Append(out, c), <<>>, InOrder(changes))
Collapse(changes) ==
  LET Turn(out, c) ==
        LET kept == SelectSeq(out, LAMBDA o : o[1] = 0 \/ c[1] - o[1] >= Quick)
        IN IF kept # <<>> /\ Last(kept)[2] = c[2] THEN kept ELSE Append(kept, c)
  IN FoldLeft(Turn, <<>>, InOrder(changes))

(* What a consumer's status text says: C1 not started, idle or how busy;   *)
(* C2 how busy, closing, gone.                                             *)
StatusChanges(m) ==
  LET busy(base) == {<<l.t, base + l.busy>> : l \in {l \in ToSet(world.busyLog[m]) : m = "C1" \/ l.t < sc.close}}
  IN {<<0, 0>>, <<XM, 0>>}
       \cup (IF m = "C1" THEN {<<sc.start, 1>>} \cup busy(1) ELSE {<<sc.close, 4>>, <<ExitedAt, 5>>} \cup busy(0))
StatusText(m, k) == State(ToSet(Collapse(StatusChanges(m))), k)

(* chip: slides into and out of :idle, then fades back to how it started.  *)
ChipIn == Cs(25)
ChipOut == Cs(15)
ChipOff == <<0, 16>>
ChipOn == <<1, 0>>
Chip(m) ==
  LET log == world.idleLog[m]
      first == IF m = "C2" THEN ChipOn ELSE ChipOff
      Slide(out, l) == out \o (IF l.in THEN <<Key(l.t, ChipOff), Key(l.t + ChipIn, ChipOn)>>
                               ELSE <<Key(l.t, ChipOn), Key(l.t + ChipOut, ChipOff)>>)
      slid == FoldLeft(Slide, <<Key(0, first)>>, log)
  IN Kf(IF Last(slid).v = first THEN slid
        ELSE slid \o <<Key(XF0, Last(slid).v), Key(XF1, first)>>)

Item(j) == Kf(world.item[j])
RunBars(m, slot) ==
  {<<r.start, r.end, IF r.cut THEN (Full * (r.end - r.start)) \div sc.work[r.job] ELSE Full>> :
     r \in {r \in world.runs : r.m = m /\ r.slot = slot}}
RowBars(row) ==
  {<<e.t, e.end, (Full * (e.end - e.t)) \div VT>> : e \in {e \in world.entries : e.row = row}}

-----------------------------------------------------------------------------
(* Where a job is.                                                         *)
Place(j) ==
  IF j \in DOMAIN world.pending THEN world.pending[j].owner
  ELSE IF j \in ToSet(world.lst) THEN "waiting"
  ELSE IF j \in world.done THEN "done" ELSE "new"

-----------------------------------------------------------------------------
(* Properties.                                                             *)

(* A consumer that has closed is not in :idle, whatever pops, nudges and   *)
(* job ends are still under way (leave, length); and once its process has  *)
(* exited it holds no job, unless one of its runs ended between Close and  *)
(* the exit and its pull loop took another.                                *)
ClosedLetsGo ==
  /\ \A m \in Both : world.closed[m] => m \notin world.idle
  /\ world.exit # <<>> /\ world.failed = {} => \A j \in DOMAIN world.pending : world.pending[j].owner # "C2"

(* A status text is right once nothing changed for a gap, however fast the *)
(* changes before it came (collapse, states).  Two changes of a consumer   *)
(* at one instant are left out if they are then or later: they are sorted  *)
(* by how busy it is, so of two job ends at once the wrong one comes last. *)
StatusTold ==
  status = "drawn" =>
    \A m \in Both :
      LET changes == StatusChanges(m)
          texts == {c[2] : c \in changes}
          played == [k \in texts |-> Played(StatusText(m, k), D)]
          Alone(c) == \A d, e \in changes : d[1] >= c[1] /\ d[1] = e[1] => d = e
      IN \A c \in changes :
           Alone(c) /\ (\A d \in changes : d[1] <= c[1] \/ c[1] + Quick <= d[1]) =>
             \A k \in texts : Shown(played[k], Pct(c[1] + Fade, D)) = Still(IF k = c[2] THEN 1 ELSE 0)

(* A chip is where its consumer is, in :idle or out of it, from the end of *)
(* a slide to the next change, and ends the loop as it started (chip).     *)
ChipTells ==
  status = "drawn" =>
    \A m \in Both :
      LET log == world.idleLog[m]
          chip == Played(Chip(m), D)
          Settled(i) == i = Len(log) \/ log[i].t + ChipIn <= log[i + 1].t
      IN /\ \A i \in DOMAIN log :
              Settled(i) => Shown(chip, Pct(log[i].t + ChipIn, D)) = Still(IF log[i].in THEN ChipOn ELSE ChipOff)
         /\ Head(chip).v = Last(chip).v

(* A job's square makes one move after the other: what its keyframes say   *)
(* is in the order of their times, over a pop, a release, another pop and  *)
(* an acknowledgement of different consumers.  It holds if C2's pops are   *)
(* over when its jobs are released; no assertion looks at that.            *)
MovesInTurn ==
  status = "drawn" /\ (\A p \in ToSet(PopsOf("C2")) : p.t + PopMove <= ReleasedAt) =>
    \A j \in Three : \A i \in 1..(Len(world.item[j]) - 1) : world.item[j][i].t <= world.item[j][i + 1].t

(* No two runs of a slot and no two entries of a row overlap in the        *)
(* picture, so no bar is refused.  A run's bar ends full exactly when the  *)
(* run ended in an acknowledgement, not when the exit cut it off; a        *)
(* deadline's bar never fills; and a bar is empty where it starts (bar,    *)
(* exit, job_end, release).                                                *)
BarsTellRuns ==
  status = "drawn" =>
    /\ \A m \in Both, slot \in 1..CONC :
         LET bar == Played(Bar(RunBars(m, slot)), D)
             Acks(r) == \E a \in ToSet(world.acks) : a.m = m /\ a.job = r.job /\ a.t = r.end
         IN /\ ~BarRefuses(RunBars(m, slot))
            /\ \A r \in {r \in world.runs : r.m = m /\ r.slot = slot} :
                 /\ Shown(bar, Pct(r.start, D)) = Still(NoFill)
                 /\ Acks(r) <=> Shown(bar, Pct(r.end, D)) = Still(Fill(1, Full))
    /\ \A row \in 0..2 :
         LET bar == Played(Bar(RowBars(row)), D)
         IN /\ ~BarRefuses(RowBars(row))
            /\ \A i \in DOMAIN bar : bar[i].v.f < Full
            /\ \A e \in world.entries : e.row = row => Shown(bar, Pct(e.t, D)) = Still(NoFill)

=============================================================================
