------------------------------ MODULE DeadStory ------------------------------
(***************************************************************************)
(* redisq-dead.svg (assets/diagrams/gen/gen_dead.py): a consumer dies with *)
(* two jobs and never calls Close.  In row A its process is killed and     *)
(* Redis drops its subscription; in row B its host is lost and Redis keeps *)
(* the socket.  C1's sweeps notice.                                        *)
(*                                                                         *)
(* simulate() runs an event loop per row, in whole milliseconds, on the    *)
(* keys of Redis and a port of the sweep script; facts() asserts what the  *)
(* story says of its logs; build() maps the real times of both rows to     *)
(* drawn ones and draws.  A behaviour does so for one scenario: when C2 is *)
(* killed and the phases of the sweeps of C1 and C2.                       *)
(***************************************************************************)
EXTENDS Keyframes, EventQueue

CONSTANT Scenarios   \* [kill: a time, phase: the phase of each consumer's sweeps]

VARIABLES
  sc,      \* the scenario
  world,   \* the row that is simulated and the state of each row's simulation
  status   \* "running", then "drawn" or "refused"

vars == <<sc, world, status>>

HBT == 30000
GRACE == 2500
TICK == 500
GAP == 2000
T0 == -5000
END == 34600
WORK == 2000
CONC == 2
WakeMs == 5
PopMs == 5

Rows == {"A", "B"}
Owners == {"C1", "C2"}
Event(t, kind, who) == [t |-> t, kind |-> kind, who |-> who]

Sweeps ==
  LET times(k) == <<Event(k * 1000 + sc.phase["C2"], "sweep", "C2"),
                    Event(k * 1000 + sc.phase["C1"], "sweep", "C1")>>
      all == FlattenSeq([i \in 1..(END \div 1000 - T0 \div 1000 + 1) |-> times(i - 1 + T0 \div 1000)])
  IN SelectSeq(all, LAMBDA e : T0 < e.t /\ e.t <= END)

(* C2 has popped J1, then J2, at T0.                                       *)
StartOf ==
  [ev |-> Scheduled(Sweeps \o <<Event(sc.kill, "kill", "C2")>>), now |-> T0, lst |-> <<>>, seq |-> 2,
   pending |-> <<[owner |-> "C2", seq |-> 1, job |-> "J1"], [owner |-> "C2", seq |-> 2, job |-> "J2"]>>,
   hb |-> [m \in {"C2"} |-> T0 + HBT], pres |-> [m \in {} |-> 0], clock |-> <<>>,
   subs |-> Owners, idle |-> {"C1"}, alive |-> Owners, busy |-> {}, start |-> <<>>,
   sweeps |-> <<>>, wakes |-> <<>>, pops |-> <<>>, acks |-> <<>>]

Init ==
  /\ sc \in Scenarios
  /\ world = [row |-> "A", sim |-> [row \in Rows |-> StartOf], knots |-> <<>>]
  /\ status = "running"

-----------------------------------------------------------------------------
(* The handlers, on a row's simulation w whose next event was taken out.   *)

Soon(w, dt, kind, who) == [w EXCEPT !.ev = Insert(@, Event(w.now + dt, kind, who))]

(* tick: the sweep script for Queue object me.                             *)
Moves(w) == w.clock = <<>> \/ w.now - w.clock[1] >= TICK \/ w.now < w.clock[1]
Stalls(w) == w.clock # <<>> /\ w.now - w.clock[1] > GAP

(* Mutant of Renewed: a sweep does not renew its own heartbeat.            *)
RenewedNot(w, me) == w
Renewed(w, me) ==
  IF me \notin DOMAIN w.hb THEN w
  ELSE [w EXCEPT !.hb[me] = w.now + HBT, !.pres = [m \in DOMAIN @ |-> IF m = me THEN 0 ELSE @[m]]]

(* Only a sweep that moves the clock looks for subscribers.                *)
Checked(w) == IF Moves(w) THEN {m \in DOMAIN w.hb : w.hb[m] >= w.now} ELSE {}
Unseen(w) == (Checked(w) \ w.subs) \cap DOMAIN w.pres

(* Mutant of Gone: a mark is as good as an absence.                        *)
GoneMarked(w) == {m \in Unseen(w) : w.pres[m] # 0}
Gone(w) == {m \in Unseen(w) : w.pres[m] # 0 /\ w.now - w.pres[m] >= GRACE}
RanOut(w) == {m \in DOMAIN w.hb : w.hb[m] <= w.now}
Marked(w) == {m \in Unseen(w) : w.pres[m] = 0}

Mark(w) ==
  LET seen == Checked(w) \cap w.subs
  IN [w EXCEPT !.pres = [m \in DOMAIN @ \cup seen |->
                           IF m \in seen THEN 0 ELSE IF m \in Marked(w) THEN w.now ELSE @[m]]]

(* The items of the dead go to the front of the list, in pop order.        *)
Reap(w, dead) ==
  LET back == SelectSeq(w.pending, LAMBDA p : p.owner \in dead)
  IN [w EXCEPT !.lst = Reverse([i \in DOMAIN back |-> back[i].job]) \o @,
               !.pending = SelectSeq(@, LAMBDA p : p.owner \notin dead),
               !.hb = [m \in DOMAIN @ \ dead |-> @[m]], !.pres = [m \in DOMAIN @ \ dead |-> @[m]]]

Tick(w, me) ==
  LET own == Renewed(w, me)
      dead == IF w.clock = <<>> THEN {} ELSE RanOut(own) \cup Gone(own)
      after == Reap(IF w.clock = <<>> THEN own ELSE Mark(own), dead)
      note == [t |-> w.now, who |-> me, ticked |-> Moves(w), marks |-> Marked(own), gone |-> Gone(own),
               ranOut |-> RanOut(own), waiting |-> Unseen(own) \ (Marked(own) \cup Gone(own)), dead |-> dead,
               mark |-> IF "C2" \in DOMAIN after.pres THEN <<after.pres["C2"]>> ELSE <<>>, lst |-> after.lst]
  IN [after EXCEPT !.clock = IF Moves(w) THEN <<w.now>> ELSE @, !.sweeps = Append(@, note)]

OnSweep(w, me) ==
  LET ticked == Tick(w, me)
  IN IF Len(ticked.pending) < Len(w.pending) /\ me = "C1" THEN Soon(ticked, WakeMs, "wake", "C1") ELSE ticked

(* Row A: the connection closes with the process.                          *)
OnKill(w) ==
  [w EXCEPT !.alive = @ \ {"C2"}, !.subs = IF world.row = "A" THEN @ \ {"C2"} ELSE @,
            !.start = <<[hb |-> w.hb, pres |-> w.pres, clock |-> w.clock, lst |-> w.lst, pending |-> w.pending]>>]

(* wake: C1 leaves :idle and pops once for each free slot and item.        *)
OnWake(w) ==
  FoldLeft(LAMBDA u, i : Soon(u, PopMs * i, "pop", "C1"),
           [w EXCEPT !.idle = @ \ {"C1"}, !.wakes = Append(@, w.now)],
           [i \in 1..Min({CONC - Cardinality(w.busy), Len(w.lst)}) |-> i])

OnPop(w) ==
  LET job == Head(w.lst)
      popped == [w EXCEPT !.lst = Tail(@), !.seq = @ + 1, !.busy = @ \cup {job},
                          !.pending = Append(@, [owner |-> "C1", seq |-> w.seq + 1, job |-> job]),
                          !.hb = [m \in DOMAIN @ \cup {"C1"} |-> IF m = "C1" THEN w.now + HBT ELSE @[m]],
                          !.pops = Append(@, [t |-> w.now, job |-> job])]
  IN Soon(popped, WORK, "ack", job)

OnAck(w, job) ==
  [w EXCEPT !.pending = SelectSeq(@, LAMBDA p : p.job # job), !.busy = @ \ {job},
            !.acks = Append(@, [t |-> w.now, job |-> job])]

-----------------------------------------------------------------------------
(* The event loop of the row.                                              *)

Sim == world.sim[world.row]
Due == Head(Sim.ev)
Taken == [Sim EXCEPT !.ev = Tail(@), !.now = Due.t]
Handles(kind) == status = "running" /\ Sim.ev # <<>> /\ Due.kind = kind /\ UNCHANGED sc
Becomes(w) == world' = [world EXCEPT !.sim[world.row] = w] /\ UNCHANGED status

(* A dead consumer sweeps no more.  A sweep that would count as a stall    *)
(* fails tick's assertion, which ends the script: no step follows.         *)
(* LiveKept says that no scenario comes to one.                            *)
Sweep ==
  /\ Handles("sweep")
  /\ \/ Due.who \notin Sim.alive /\ Becomes(Taken)
     \/ Due.who \in Sim.alive /\ ~Stalls(Taken) /\ Becomes(OnSweep(Taken, Due.who))

Kill == Handles("kill") /\ Becomes(OnKill(Taken))
Wake == Handles("wake") /\ "C1" \in Sim.idle \cap Sim.subs /\ Becomes(OnWake(Taken))
Pop == Handles("pop") /\ Becomes(OnPop(Taken))
Ack == Handles("ack") /\ Becomes(OnAck(Taken, Due.who))

NextRow ==
  /\ status = "running" /\ world.row = "A" /\ Sim.ev = <<>>
  /\ world' = [world EXCEPT !.row = "B"]
  /\ UNCHANGED <<sc, status>>

-----------------------------------------------------------------------------
(* facts: the moments a row is drawn from, and the story's assertions.     *)

By(row, who) == {s \in ToSet(world.sim[row].sweeps) : s.who = who}
C1(row) == By(row, "C1")
C2(row) == By(row, "C2")
First(S) == CHOOSE s \in S : \A u \in S : s.t <= u.t
AfterKill(row) == {s \in C1(row) : s.t > sc.kill}
C2Last == 0
Skip(row) == First(AfterKill(row))
Check(row) == First(AfterKill(row) \ {Skip(row)})
MarkOf == First({s \in C1("A") : "C2" \in s.marks}).t
Reaper(row) == First({s \in ToSet(world.sim[row].sweeps) : s.dead # {}})
ReapT(row) == Reaper(row).t
Quiet(s) == s.marks \cup s.gone \cup s.waiting \cup s.dead = {}
HbOut == HBT

StartTold(row) ==
  LET start == world.sim[row].start[1]
      first == First(C2(row)).t
  IN /\ Max({s.t : s \in C2(row)}) = C2Last /\ start.clock = <<C2Last>>
     /\ start.hb = [m \in {"C2"} |-> HBT] /\ start.pres = [m \in {"C2"} |-> 0] /\ start.lst = <<>>
     /\ [i \in DOMAIN start.pending |-> start.pending[i].job] = <<"J1", "J2">>
     /\ \A s \in C1(row) : first < s.t /\ s.t < sc.kill => ~s.ticked
     /\ \A s \in C2(row) : s.t > first => s.ticked
     /\ ~Skip(row).ticked /\ Skip(row).t - C2Last < TICK /\ Quiet(Skip(row)) /\ Check(row).ticked

GoneTold ==
  LET mark == MarkOf
      reap == ReapT("A")
      Ticked(S) == {s \in S : s.ticked}
  IN /\ Cardinality({s \in ToSet(world.sim["A"].sweeps) : "C2" \in s.marks}) = 1
     /\ mark = First(Ticked(AfterKill("A"))).t
     /\ \A s \in ToSet(world.sim["A"].sweeps) : First(C2("A")).t <= s.t /\ s.t < mark => s.mark = <<0>>
     /\ reap = First({s \in Ticked(C1("A")) : s.t - mark >= GRACE}).t
     /\ "C2" \in Reaper("A").gone /\ "C2" \notin Reaper("A").ranOut
     /\ \A s \in C1("A") : mark < s.t /\ s.t < reap => s.ticked /\ "C2" \in s.waiting
     /\ HbOut > reap /\ GRACE <= reap - sc.kill /\ reap - sc.kill <= GRACE + 2500

RanOutTold ==
  LET reap == ReapT("B")
  IN /\ \A s \in ToSet(world.sim["B"].sweeps) :
          s.marks = {} /\ (First(C2("B")).t <= s.t /\ s.t < reap => s.mark = <<0>>)
     /\ reap = First({s \in C1("B") : s.t >= HbOut}).t
     /\ "C2" \in Reaper("B").ranOut /\ 30000 <= reap /\ reap <= 31000

EndTold(row) ==
  LET w == world.sim[row]
  IN /\ Reaper(row).who = "C1" /\ Reaper(row).lst = <<"J2", "J1">>
     /\ w.wakes[1] - ReapT(row) < 1000
     /\ [i \in DOMAIN w.pops |-> w.pops[i].job] = Reaper(row).lst
     /\ Cardinality({a.job : a \in ToSet(w.acks)}) = 2 /\ w.lst = <<>> /\ w.pending = <<>>

Reaps(row) == \E s \in ToSet(world.sim[row].sweeps) : s.dead # {}
Told ==
  /\ \A row \in Rows : C2(row) # {} /\ Reaps(row) /\ StartTold(row) /\ EndTold(row)
  /\ GoneTold /\ RanOutTold

-----------------------------------------------------------------------------
(* build_map: drawn times, in Sec to a second, as knots <<real, drawn>>.   *)

PopT(row, i) == world.sim[row].pops[i].t
AckTs(row) == {a.t : a \in ToSet(world.sim[row].acks)}
FF == <<9000, 29000>>
Rate == (7 * Sec) \div 10000   \* R = .7, per millisecond

Lin(k, s) == Append(k, <<s, Last(k)[2] + (s - Last(k)[1]) * Rate>>)
(* Mutant of Slow: the wake follows the reap at the usual rate.            *)
SlowPops(k, row) ==
  FoldLeft(LAMBDA out, s : Append(out, <<s, Last(out)[2] + Cs(50)>>), Lin(k, world.sim[row].wakes[1]),
           <<PopT(row, 1), PopT(row, 2)>>)
Slow(k, row) ==
  FoldLeft(LAMBDA out, s : Append(out, <<s, Last(out)[2] + Cs(50)>>), k,
           <<world.sim[row].wakes[1], PopT(row, 1), PopT(row, 2)>>)
Squeezed(k) == Append(k, <<FF[2], Last(k)[2] + Cs(250)>>)

Knots ==
  LET calm == <<<<0, Cs(40)>>, <<sc.kill, Cs(100)>>, <<Skip("A").t, Cs(180)>>, <<MarkOf, Cs(300)>>>>
  IN Lin(Slow(Lin(Squeezed(Lin(Slow(Lin(calm, ReapT("A")), "A"), FF[1])), ReapT("B")), "B"), END)

Grows(k) == \A i \in 1..(Len(k) - 1) : k[i][1] < k[i + 1][1] /\ k[i][2] < k[i + 1][2]

(* TimeMap: linear between the knots.                                      *)
M(s) ==
  LET k == world.knots
  IN IF s <= k[1][1] THEN k[1][2]
     ELSE LET i == CHOOSE n \in 2..Len(k) : k[n - 1][1] < s /\ s <= k[n][1]
          IN k[i - 1][2] + ((s - k[i - 1][1]) * (k[i][2] - k[i - 1][2])) \div (k[i][1] - k[i - 1][1])

(* The fast-forward skips nothing: in it there are only sweeps that find   *)
(* nothing to do.                                                          *)
Skips ==
  /\ ReapT("A") < ReapT("B")
  /\ \A t \in AckTs("A") : t <= FF[1] - 500
  /\ HbOut - 1000 >= FF[2]
  /\ \A row \in Rows : \A s \in AfterKill(row) :
       FF[1] < s.t /\ s.t < FF[2] => s.ticked /\ Quiet(s) /\ s.ranOut = {}
  /\ Skip("A").t = Skip("B").t

BuildMap ==
  /\ status = "running" /\ world.row = "B" /\ Sim.ev = <<>> /\ world.knots = <<>>
  /\ \/ Told /\ Skips /\ Grows(Knots) /\ world' = [world EXCEPT !.knots = Knots] /\ UNCHANGED status
     \/ ~(Told /\ Skips /\ Grows(Knots)) /\ status' = "refused" /\ UNCHANGED world
  /\ UNCHANGED sc

-----------------------------------------------------------------------------
(* The drawing: the loop ends in a cross-fade from XF0 over XFM to XF1.    *)

XF == Cs(70)
XF0 == Last(world.knots)[2]
XFM == XF0 + XF \div 2
XF1 == XF0 + XF
D == Sec * ((XF1 + Cs(50) + Sec - 1) \div Sec)

(* swap: texts that take turns, changes <<time, text, fade>>, one track    *)
(* for each text k.  At XF0 the old text leaves before the new one comes.  *)
Swap(changes, k) ==
  LET On(i) == IF changes[i][2] = k THEN 1 ELSE 0
      AtSeam(on) == IF on = 0 THEN <<Key(XF0, 1), Key(XFM, 0)>> ELSE <<Key(XFM, 0), Key(XF1, 1)>>
      Turn(out, i) ==
        IF i = 1 THEN <<Key(0, On(1))>>
        ELSE IF On(i) = On(i - 1) THEN out
        ELSE out \o (IF changes[i][1] = XF0 THEN AtSeam(On(i))
                     ELSE <<Key(changes[i][1], On(i - 1)), Key(changes[i][1] + changes[i][3], On(i))>>)
  IN Kf(FoldLeft(Turn, <<>>, [i \in DOMAIN changes |-> i]))

Soft == Cs(15)
KillD == M(sc.kill)
ReapD(row) == M(ReapT(row))
PopD(row, i) == M(PopT(row, i))
AckD(row, job) == M(CHOOSE t \in AckTs(row) : [t |-> t, job |-> job] \in ToSet(world.sim[row].acks))
LastAck(row) == M(Max(AckTs(row)))
Soften(changes) == [i \in DOMAIN changes |-> Append(changes[i], Soft)]
Back == <<<<XF0, 0, XF>>>>

Clock == <<<<0, 0, 0>>>> \o [i \in 1..(END \div 1000) |-> <<M(i * 1000), i, Cs(8)>>] \o Back

(* The captions of a row: what became of the subscription, the heartbeat   *)
(* and the mark, and what each sweep that matters did.                     *)
Subscribed(row) == Soften(<<<<0, 0>>, <<IF row = "A" THEN KillD ELSE M(Check(row).t), 1>>>>) \o Back
Heartbeat(row) ==
  Soften(<<<<0, 0>>, <<KillD, 1>>>>
           \o IF row = "A" THEN <<<<ReapD(row), 2>>>> ELSE <<<<M(HbOut), 2>>, <<ReapD(row) + Cs(60), 3>>>>) \o Back
Presence(row) ==
  Soften(<<<<0, 0>>>>
           \o IF row = "A" THEN <<<<M(MarkOf), 1>>, <<ReapD(row), 2>>, <<ReapD(row) + Cs(160), 3>>>>
              ELSE <<<<ReapD(row) + Cs(60), 1>>>>) \o Back
Narration(row) ==
  Soften(<<<<0, 0>>, <<M(C2Last), 1>>, <<M(Skip(row).t), 2>>, <<M(Check(row).t), 3>>>>
           \o (IF row = "B" THEN <<<<M(Check(row).t) + Cs(240), 0>>>> ELSE <<>>)
           \o <<<<ReapD(row), 4>>, <<M(world.sim[row].wakes[1]), 5>>, <<LastAck(row) + Cs(20), 6>>>>) \o Back

Captions == <<Clock>> \o FlattenSeq([i \in 1..2 |->
  LET row == <<"A", "B">>[i] IN <<Subscribed(row), Heartbeat(row), Presence(row), Narration(row)>>])

(* The jobs: pending under C2, at the front of the list, pending under C1, *)
(* gone; then faded back in for the next loop.                             *)
Spot(p, i, shown) == <<p, i, shown>>
PopMove(i) == IF i = 1 THEN 5867 ELSE 3933   \* down and left into pending, at 600 px/s
Nr(job) == IF job = "J1" THEN 1 ELSE 2

Item(row, job) ==
  LET reap == ReapD(row)
      n == CHOOSE i \in 1..2 : world.sim[row].pops[i].job = job
      t == PopD(row, n)
      first == PopD(row, 1)
  IN <<Key(0, Spot("pending", Nr(job), 1)), Key(reap, Spot("pending", Nr(job), 1)),
       Key(reap + Cs(30), Spot("under", n, 1)), Key(reap + Cs(50), Spot("list", n, 1))>>
       \o (IF n = 2 THEN <<Key(first + Cs(25), Spot("list", 2, 1)), Key(first + Cs(45), Spot("list", 1, 1))>> ELSE <<>>)
       \o <<Key(t, Spot("list", 1, 1)), Key(t + Cs(20), Spot("under", 1, 1)), Key(t + PopMove(n), Spot("pending", n, 1)),
            Key(AckD(row, job), Spot("pending", n, 1)), Key(AckD(row, job) + Cs(30), Spot("pending", n, 0)),
            Key(XFM, Spot("pending", Nr(job), 0)), Key(XF1, Spot("pending", Nr(job), 1))>>

(* C1's sweeps that are drawn: not those of the fast-forward.              *)
PulseDs(row) ==
  {M(s.t) : s \in {s \in AfterKill(row) : ~(FF[1] < s.t /\ s.t < FF[2]) /\ M(s.t) + Cs(60) <= XF1}}

DrawsRow(row) ==
  /\ \A a, b \in PulseDs(row) : a < b => a + Cs(60) <= b
  /\ PopD(row, 2) >= PopD(row, 1) + Cs(45)
  /\ Min({LastAck(row) + Cs(200), XF0 - Cs(30)}) >= LastAck(row) + Cs(30) + Cs(90)

Draw ==
  /\ status = "running" /\ world.knots # <<>>
  /\ status' = IF \A row \in Rows : DrawsRow(row) THEN "drawn" ELSE "refused"
  /\ UNCHANGED <<sc, world>>

Next == Sweep \/ Kill \/ Wake \/ Pop \/ Ack \/ NextRow \/ BuildMap \/ Draw

Spec == Init /\ [][Next]_vars

-----------------------------------------------------------------------------
(* Where a job of a row is.                                                *)
Place(row, job) ==
  LET held == {p \in ToSet(world.sim[row].pending) : p.job = job}
  IN IF held # {} THEN (CHOOSE p \in held : TRUE).owner
     ELSE IF job \in ToSet(world.sim[row].lst) THEN "waiting" ELSE "done"

-----------------------------------------------------------------------------
(* Properties.                                                             *)

(* Whatever the phases of the sweeps and the moment C2 dies, its jobs are  *)
(* back in the list 2.5 to 5 s after its subscription is gone, or at most  *)
(* one sweep after its heartbeat ran out when the subscription is not      *)
(* (STORYBOARD.md, section 4; the "2.5-5 s" of facts).                     *)
DeadInTime ==
  LET w == Sim
      dead == "C2" \notin w.alive
      reaped == \A p \in ToSet(w.pending) : p.owner # "C2"
      since == w.now - sc.kill
      lastBeat == Max({T0} \cup {s.t : s \in By(world.row, "C2")}) + HBT
  IN /\ dead /\ world.row = "A" => (reaped => since >= GRACE) /\ (since > 5000 => reaped)
     /\ dead /\ world.row = "B" => (reaped => w.now >= lastBeat) /\ (w.now > lastBeat + 1000 => reaped)

(* No sweep takes a consumer that still sweeps for dead, and no sweep      *)
(* finds so long a gap in the clock that it stalls, in whatever order the  *)
(* two consumers' sweeps come (tick).                                      *)
LiveKept ==
  status = "running" =>
    /\ \A s \in ToSet(Sim.sweeps) : s.dead \subseteq (IF s.t > sc.kill THEN {"C2"} ELSE {})
    /\ Sim.ev # <<>> /\ Due.kind = "sweep" /\ Due.who \in Sim.alive => ~Stalls(Taken)

(* Of the texts that take turns at one place one is shown, the current     *)
(* one, from the end of its fade to the next change; also the clock's in   *)
(* the fast-forward, and at the seam of the loop (swap).                   *)
CaptionsTell ==
  status = "drawn" =>
    \A n \in DOMAIN Captions :
      LET changes == Captions[n]
          texts == {changes[i][2] : i \in DOMAIN changes}
          played == [k \in texts |-> Played(Swap(changes, k), D)]
          Only(t, k) == \A j \in texts : Shown(played[j], Pct(t, D)) = Still(IF j = k THEN 1 ELSE 0)
          Gone0(t) == \A j \in texts : Shown(played[j], Pct(t, D)) = Still(0)
      IN /\ \A i \in DOMAIN changes :
              /\ i > 1 => changes[i - 1][1] + changes[i - 1][3] <= changes[i][1]
              /\ Only(changes[i][1] + changes[i][3], changes[i][2])
         /\ changes[Len(changes) - 1][2] # 0 => Gone0(XFM)
         /\ Only(D, changes[1][2])

(* A job's square is where the job is at each moment of the story, each    *)
(* move is over before the next starts, whatever the time map makes of the *)
(* milliseconds between them, and the loop ends as it starts (draw_row).   *)
JobsDrawn ==
  status = "drawn" =>
    \A row \in Rows, job \in {"J1", "J2"} :
      LET keys == Kf(Item(row, job))
          n == CHOOSE i \in 1..2 : world.sim[row].pops[i].job = job
          At(t, spot) == Shown(Played(keys, D), Pct(t, D)) = Still(spot)
      IN /\ \A i \in 1..(Len(keys) - 1) : Item(row, job)[i].t <= Item(row, job)[i + 1].t
         /\ At(ReapD(row), Spot("pending", Nr(job), 1))
         /\ At(M(world.sim[row].wakes[1]), Spot("list", n, 1))
         /\ At(PopD(row, n), Spot("list", 1, 1))
         /\ At(AckD(row, job), Spot("pending", n, 1))
         /\ Last(keys).t <= D /\ Last(keys).v = Head(keys).v

=============================================================================
