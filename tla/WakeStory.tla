------------------------------ MODULE WakeStory ------------------------------
(***************************************************************************)
(* redisq-wake.svg (assets/diagrams/gen/gen_wake.py): two consumers wait   *)
(* in :idle, an enqueue wakes one, and the busy one stays out of :idle.    *)
(*                                                                         *)
(* simulate() is an event loop: a heap of events, one handler for each     *)
(* kind, and logs that the drawing is made from.  A behaviour runs it for  *)
(* one scenario: the times of the enqueues, the phases of the nudges, the  *)
(* picks of SPOP, which is random in Redis, and how long a job runs.  Then *)
(* build() asserts what the picture's text says of the logs: a scenario    *)
(* is drawn or refused.                                                    *)
(***************************************************************************)
EXTENDS Keyframes, EventQueue

CONSTANT Scenarios   \* [enq: sequence of <<time, job>>, picks, phase, work]

VARIABLES
  sc,      \* the scenario
  world,   \* the simulation: the events to come, Redis, the consumers and the logs
  status   \* "running", then "drawn" or "refused"

vars == <<sc, world, status>>

Both == {"C1", "C2"}
Nobody == "nothing"        \* busy: no job
Dispatching == "dispatching"

Local == Cs(4)
Horizon == Cs(1200)
Second == Cs(100)

(* wake_route, pop_route, plen: pixels over the speed of the dot.          *)
WakeFlight(c) == IF c = "C1" THEN 1942 ELSE 3408
PopFlight(c) == IF c = "C1" THEN 2256 ELSE 4211

Event(t, kind, c, job) == [t |-> t, kind |-> kind, c |-> c, job |-> job]

Start(s) ==
  [ev |-> Scheduled([i \in DOMAIN s.enq |-> Event(s.enq[i][1], "enqueue", Nobody, s.enq[i][2])]
                      \o <<Event(s.phase["C1"], "nudge", "C1", Nobody),
                           Event(s.phase["C2"], "nudge", "C2", Nobody)>>),
   now |-> 0, queue |-> <<>>, idle |-> Both, done |-> {},
   busy |-> [c \in Both |-> Nobody], free |-> [c \in Both |-> TRUE], picks |-> s.picks,
   enqs |-> <<>>, wakes |-> <<>>, nudges |-> {}, signals |-> <<>>, pops |-> <<>>,
   member |-> <<>>, stays |-> {}, stirred |-> 0]

Init == sc \in Scenarios /\ world = Start(sc) /\ status = "running"

-----------------------------------------------------------------------------
(* The steps of the handlers, on a world w whose next event was taken out. *)

At(w, dt, kind, c, job) == [w EXCEPT !.ev = Insert(@, Event(w.now + dt, kind, c, job))]

(* member: join or leave :idle; only a change is logged.                   *)
Member(w, c, in, why) ==
  IF (c \in w.idle) = in THEN w
  ELSE [w EXCEPT !.idle = IF in THEN @ \cup {c} ELSE @ \ {c},
                 !.member = Append(@, [t |-> w.now, c |-> c, in |-> in, why |-> why])]

(* pull: Len() marks a consumer that finds nothing; otherwise it pops.     *)
Pull(w, c) ==
  IF w.queue = <<>> THEN [Member(w, c, TRUE, "len") EXCEPT !.free[c] = TRUE]
  ELSE At([w EXCEPT !.busy[c] = Dispatching], Local, "pop", c, Nobody)

(* signal: nothing while the consumer is busy.                             *)
Signal(w, c, kind) ==
  LET taken == w.busy[c] = Nobody
      told == [w EXCEPT !.signals = Append(@, [t |-> w.now, c |-> c, kind |-> kind, taken |-> taken])]
  IN IF taken THEN Pull(told, c) ELSE told

(* Enqueue = RPUSH + wake(n): SPOP and PUBLISH until n are woken or :idle  *)
(* is empty.  Only a member can be picked.                                 *)
Woken(w) == SubSeq(w.picks, 1, Min({Len(w.queue) + 1, Cardinality(w.idle)}))
SpopHolds(w) ==
  /\ Min({Len(w.queue) + 1, Cardinality(w.idle)}) <= Len(w.picks)
  /\ \A i \in DOMAIN Woken(w) :
       /\ Woken(w)[i] \in w.idle
       /\ \A k \in 1..(i - 1) : Woken(w)[k] # Woken(w)[i]

(* Mutant of Spop: the pick is told, but stays a member.                   *)
SpopKeeps(w, c, job) ==
  At([w EXCEPT !.picks = Tail(@), !.wakes = Append(@, [t |-> w.now, c |-> c, job |-> job])],
     WakeFlight(c), "signal", c, Nobody)
Spop(w, c, job) ==
  At([Member(w, c, FALSE, "spop") EXCEPT
        !.picks = Tail(@), !.wakes = Append(@, [t |-> w.now, c |-> c, job |-> job])],
     WakeFlight(c), "signal", c, Nobody)

OnEnqueue(w, job) ==
  LET pushed == [w EXCEPT !.queue = Append(@, job),
                          !.enqs = Append(@, [t |-> w.now, job |-> job, n |-> Len(w.queue) + 1, before |-> w.idle])]
  IN FoldLeft(LAMBDA u, c : Spop(u, c, job), pushed, Woken(w))

(* nudge: SREM and poke while items wait, SADD if the consumer's own last  *)
(* look found nothing.                                                     *)
OnNudge(w, c) ==
  LET waiting == w.queue # <<>>
      mended == IF waiting THEN Member(w, c, FALSE, "nudge")
                ELSE IF w.free[c] THEN Member(w, c, TRUE, "nudge")
                ELSE IF c \notin w.idle THEN [w EXCEPT !.stays = @ \cup {<<w.now, c>>}]
                ELSE w
      noted == [mended EXCEPT !.nudges = @ \cup {<<w.now, c>>}]
  IN At(IF waiting THEN Signal(noted, c, "poke") ELSE noted, Second, "nudge", c, Nobody)

(* Mutant of OnPop: the flag of the last look is kept.                     *)
OnPopKeepFree(w, c) ==
  IF w.queue = <<>>
  THEN [Member(w, c, TRUE, "pop-miss") EXCEPT !.free[c] = TRUE, !.busy[c] = Nobody]
  ELSE At([w EXCEPT !.queue = Tail(@), !.busy[c] = Head(w.queue),
             !.pops = Append(@, [t |-> w.now, c |-> c, job |-> Head(w.queue)])],
          PopFlight(c) + sc.work, "done", c, Head(w.queue))
OnPop(w, c) ==
  IF w.queue = <<>>
  THEN [Member(w, c, TRUE, "pop-miss") EXCEPT !.free[c] = TRUE, !.busy[c] = Nobody]
  ELSE At([w EXCEPT !.queue = Tail(@), !.free[c] = FALSE, !.busy[c] = Head(w.queue),
             !.pops = Append(@, [t |-> w.now, c |-> c, job |-> Head(w.queue)])],
          PopFlight(c) + sc.work, "done", c, Head(w.queue))

OnDone(w, c, job) == Pull([w EXCEPT !.busy[c] = Nobody, !.done = @ \cup {job}], c)

Calm(w) == w.queue = <<>> /\ w.idle = Both /\ \A c \in Both : w.busy[c] = Nobody

(* What was not calm after an event is remembered; a pop that misses skips *)
(* that line.                                                              *)
Logged(w) == IF Calm(w) THEN w ELSE [w EXCEPT !.stirred = w.now]

-----------------------------------------------------------------------------
(* The event loop.                                                         *)

Due == Head(world.ev)
Next0 == [world EXCEPT !.ev = Tail(@), !.now = Due.t]
Handles(kind) == status = "running" /\ Due.kind = kind /\ Due.t <= Horizon /\ UNCHANGED sc

Enqueue ==
  /\ Handles("enqueue") /\ SpopHolds(Next0)
  /\ world' = Logged(OnEnqueue(Next0, Due.job))
  /\ UNCHANGED status

(* The assertion of SPOP's pick, or no pick is left.                          *)
RefusePick ==
  /\ Handles("enqueue") /\ ~SpopHolds(Next0)
  /\ status' = "refused" /\ UNCHANGED world

Nudge ==
  /\ Handles("nudge")
  /\ world' = Logged(OnNudge(Next0, Due.c))
  /\ UNCHANGED status

Arrive ==
  /\ Handles("signal")
  /\ world' = Logged(Signal(Next0, Due.c, "wake"))
  /\ UNCHANGED status

Pop ==
  /\ Handles("pop")
  /\ world' = IF world.queue = <<>> THEN OnPop(Next0, Due.c) ELSE Logged(OnPop(Next0, Due.c))
  /\ UNCHANGED status

JobEnd ==
  /\ Handles("done")
  /\ world' = Logged(OnDone(Next0, Due.c, Due.job))
  /\ UNCHANGED status

-----------------------------------------------------------------------------
(* build(): the spans that are drawn, and the assertions.                  *)

Start0(p) == p.t + PopFlight(p.c)          \* a job starts when its dot arrives
End(p) == Start0(p) + sc.work
PopsOf(c) == {i \in DOMAIN world.pops : world.pops[i].c = c}
Runs(c) == {<<Start0(world.pops[i]), End(world.pops[i])>> : i \in PopsOf(c)}
Held(c, t) == \E i \in PopsOf(c) : world.pops[i].t <= t /\ t < End(world.pops[i])

Settle == Max({0} \cup {world.member[i].t : i \in DOMAIN world.member}
                   \cup {End(world.pops[i]) : i \in DOMAIN world.pops})
D == Second * ((Settle + Cs(150) + Second - 1) \div Second)

(* Drawn flights are slower than real ones: no nudge of that consumer and  *)
(* no enqueue may fall into one.                                           *)
Flights == {<<w.t, w.t + WakeFlight(w.c), w.c>> : w \in ToSet(world.wakes)}
             \cup {<<p.t - Local, Start0(p), p.c>> : p \in ToSet(world.pops)}
Clear(f) ==
  /\ \A n \in world.nudges : n[2] = f[3] => ~(f[1] < n[1] /\ n[1] < f[2])
  /\ \A i \in DOMAIN sc.enq : ~(f[1] < sc.enq[i][1] /\ sc.enq[i][1] < f[2])

(* The captions of the wakes follow one another, and the still shows Y's   *)
(* wake on its way while C1's nudge has left it out.                       *)
Captions ==
  \A i \in DOMAIN world.enqs :
    LET t == world.enqs[i].t
        next == IF i = Len(world.enqs) THEN t + Cs(150) ELSE world.enqs[i + 1].t
        end == Min({t + Cs(120), next - Cs(30)})
    IN end > t + Cs(50) /\ end + Fall <= next
StillTells ==
  \E w \in ToSet(world.wakes) :
    /\ w.job = "Y"
    /\ LET still == w.t + WakeFlight(w.c) \div 2
       IN Held("C1", still) /\ \E s \in world.stays : s[2] = "C1" /\ s[1] < still

(* Without the flights, the stays and the captions.                        *)
Told ==
  /\ world.stirred < Settle
  /\ \A i \in DOMAIN world.member : world.member[i].in => ~Held(world.member[i].c, world.member[i].t)
  /\ [i \in DOMAIN world.pops |-> <<world.pops[i].job, world.pops[i].c>>] = <<<<"X", "C1">>, <<"Y", "C2">>>>
  /\ Calm(world)

Accepts ==
  /\ Told
  /\ <<Cs(130), "C1">> \in world.stays
  /\ \A s \in ToSet(world.signals) : s.taken /\ ~Held(s.c, s.t)
  /\ \A p, q \in ToSet(world.pops) : p.c = q.c /\ p.t < q.t => End(p) <= q.t
  /\ \A e \in ToSet(world.enqs) : e.n = 1 /\ (e.job = "Y" => e.before = {"C2"})
  /\ \A p \in ToSet(world.pops) :
       /\ \E s \in ToSet(world.signals) : s.t + Local = p.t /\ s.c = p.c /\ s.kind = "wake"
       /\ \E e \in ToSet(world.enqs) : e.job = p.job /\ p.t - e.t < Cs(50)
  /\ [i \in DOMAIN world.member |-> <<world.member[i].c, world.member[i].in, world.member[i].why>>]
       = <<<<"C1", FALSE, "spop">>, <<"C2", FALSE, "spop">>, <<"C1", TRUE, "len">>, <<"C2", TRUE, "len">>>>
  /\ [i \in DOMAIN world.signals |-> <<world.signals[i].c, world.signals[i].kind>>]
       = <<<<"C1", "wake">>, <<"C2", "wake">>>>
  /\ \A f \in Flights : Clear(f)
  /\ [i \in DOMAIN world.wakes |-> world.wakes[i].c] = <<"C1", "C2">> /\ sc.picks = <<"C1", "C2">>
  /\ Captions /\ StillTells

Build ==
  /\ status = "running" /\ Due.t > Horizon
  /\ status' = IF Accepts THEN "drawn" ELSE "refused"
  /\ UNCHANGED <<sc, world>>

Next == Enqueue \/ RefusePick \/ Nudge \/ Arrive \/ Pop \/ JobEnd \/ Build

Spec == Init /\ [][Next]_vars

-----------------------------------------------------------------------------
(* Where a job is.                                                         *)
Place(j) ==
  IF j \in world.done THEN "done"
  ELSE IF \E c \in Both : world.busy[c] = j THEN CHOOSE c \in Both : world.busy[c] = j
  ELSE IF j \in ToSet(world.queue) THEN "waiting"
  ELSE "new"

(* Chips and labels of :idle: a chip fades in .2 s after each change; its  *)
(* label stays until .3 s before the consumer's next one.                  *)
Changes(c) == SelectSeq(world.member, LAMBDA m : m.c = c)
ChipFade == Cs(20)
Value(changes, i) == IF i = 0 \/ changes[i].in THEN 1 ELSE 0

Chip(c) ==
  LET changes == Changes(c)
      Turn(out, i) ==
        out \o <<Key(changes[i].t, Value(changes, i - 1)), Key(changes[i].t + ChipFade, Value(changes, i))>>
  IN Kf(FoldLeft(Turn, <<Key(0, 1)>>, [i \in DOMAIN changes |-> i]))

Labels(c) ==
  LET starts == {m.t : m \in ToSet(Changes(c))} \cup {s[1] : s \in {s \in world.stays : s[2] = c}}
      Following(t) == {u - Cs(30) : u \in {u \in starts : u > t}}
      Back(t) == Min({m.t : m \in {m \in ToSet(Changes(c)) : m.in /\ m.t > t}})
  IN {<<m.t, Min({m.t + Cs(110)} \cup Following(m.t)), m.why>> : m \in ToSet(Changes(c))}
       \cup {<<s[1], Back(s[1]) - Cs(30), "stays out">> : s \in {s \in world.stays : s[2] = c}}

-----------------------------------------------------------------------------
(* Properties.                                                             *)

(* Nobody waits for a nudge: an item is never left waiting longer than the *)
(* slower wake and its hand-off while a consumer is free, whatever the     *)
(* picks, and however wakes, nudges and job ends fall together             *)
(* (STORYBOARD.md: each job is popped through its own wake, not by a       *)
(* nudge).                                                                 *)
ServedAtOnce ==
  status = "running" =>
    \A e \in ToSet(world.enqs), c \in Both :
      e.job \in ToSet(world.queue) /\ world.busy[c] = Nobody =>
        world.now - Max({e.t} \cup {End(world.pops[i]) : i \in PopsOf(c)}) <= WakeFlight("C2") + Local

(* While a job runs its consumer is out of :idle: no nudge puts it back on *)
(* the strength of a look from before the pop (nudge, pop: the free flag). *)
StaysOut == \A c \in Both : world.busy[c] \notin {Nobody, Dispatching} => c \notin world.idle

(* Whatever the scenario, when the horizon is reached every job is done    *)
(* and both consumers are idle and in :idle again, so the loop ends as it  *)
(* started (simulate: pull marks a consumer that finds nothing).           *)
EndsCalm == status # "running" /\ Due.t > Horizon => Calm(world)

(* A consumer's chip is lit or dark as the consumer is in :idle or not,    *)
(* once the fade of its last change is over, and dark from the start to    *)
(* the end of each of its jobs, so a chip never claims that a busy         *)
(* consumer can be woken (build: the chips of :idle).                      *)
ChipsTellIdle ==
  status = "drawn" =>
    \A c \in Both :
      LET chip == Played(Chip(c), D)
          changes == Changes(c)
          Settled(i) == i = Len(changes) \/ changes[i + 1].t >= changes[i].t + ChipFade
      IN /\ \A i \in DOMAIN changes : Settled(i) =>
              Shown(chip, Pct(changes[i].t + ChipFade, D)) = Still(IF changes[i].in THEN 1 ELSE 0)
         /\ \A r \in Runs(c) : Shown(chip, Pct(r[1], D)) = Still(0) /\ Shown(chip, Pct(r[2], D)) = Still(0)

(* The labels by a chip have time to rise and never two are lit at once,   *)
(* although changes and stays come from wakes, nudges and job ends of      *)
(* different clocks; it rests on the check that no nudge and no enqueue    *)
(* falls into a slowed flight (build: labels).                             *)
LabelsApart ==
  status = "drawn" =>
    \A c \in Both : \A a, b \in Labels(c) :
      /\ a[1] + Rise <= a[2]
      /\ a[3] # b[3] => a[2] + Fall <= b[1] \/ b[2] + Fall <= a[1]

=============================================================================
