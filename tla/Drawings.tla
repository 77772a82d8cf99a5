------------------------------ MODULE Drawings ------------------------------
(***************************************************************************)
(* What a generator draws of a worker pool with the helpers of kfu.py: a   *)
(* row per worker (Pool.rows), a bar per worker that fills over its jobs,  *)
(* a glow while any job runs, a status text with the number of jobs that   *)
(* run, and a pulse for each dispatch.  Each track is checked against what *)
(* the pool really did, for every run of the pool within the bounds.       *)
(***************************************************************************)
EXTENDS WorkerPool, Keyframes

(* The loop ends once the last fade is over.                               *)
D == now + Cs(100)

(* Pool.rows: shown while the worker lives, a ghost while it is a slot.    *)
Row(w) ==
  LET first == IF alive[w] # <<>> /\ alive[w][1][1] = 0 THEN 1 ELSE 0
      Live(out, span) ==
        out \o (IF span[1] > 0
                THEN <<Key(span[1] - Cs(10), 0), Key(span[1] + Cs(20), 1)>> ELSE <<>>)
            \o (IF span[2] # Open
                THEN <<Key(span[2], 1), Key(span[2] + Cs(40), 0)>> ELSE <<>>)
  IN Kf(FoldLeft(Live, <<Key(0, first)>>, alive[w]))

AllRuns == UNION {runs[w] : w \in Workers}
Dispatches == {r[1] : r \in AllRuns}
Whole(spans) == {<<s[1], s[2], Full>> : s \in spans}

-----------------------------------------------------------------------------
(* Properties.                                                             *)

(* Each bar is full when its job ends, and empty and still from its reset  *)
(* to its next job, also when the next job starts during the fade (bar).   *)
BarsTellJobs ==
  \A w \in Workers :
    LET bar == Played(Bar(Whole(runs[w])), D)
    IN \A r \in runs[w] :
         /\ Shown(bar, Pct(r[2], D)) = Still(Fill(1, Full))
         /\ (\A q \in runs[w] : q[1] < r[2] \/ q[1] >= r[2] + Reset)
              => Shown(bar, Pct(r[2] + Reset, D)) = Still(NoFill)

(* The glow is lit while a job runs, but for its rise, dark when the first *)
(* of a group of jobs starts and dark again when the fall after the last   *)
(* is over, where jobs of several workers that overlap, or follow each     *)
(* other within a rise and a fall, are one group (flash, merge).           *)
GlowTellsWork ==
  LET glow == Played(Flash(AllRuns), D)
      At(t, v) == Shown(glow, Pct(t, D)) = Still(v)
  IN \A r \in AllRuns :
       /\ r[1] + Rise <= r[2] => At(r[1] + Rise, 1) /\ At(r[2], 1)
       /\ (\A q \in AllRuns : q[1] < r[1] => q[2] + Rise + Fall < r[1]) => At(r[1], 0)
       /\ (\A q \in AllRuns : q[1] <= r[2] + Rise + Fall => q[2] <= r[2]) => At(r[2] + Fall, 0)

(* Once a change is Fade old and nothing changed since, the text of the    *)
(* current number of jobs is the only one shown, however fast the changes  *)
(* before it came, and also when some of those were two at one instant     *)
(* (states).  Two changes at one instant then or later are left out: the   *)
(* larger state comes last whichever it was, and the state passed through  *)
(* keeps only its last keyframe there, so its text fades in over all the   *)
(* time before.                                                            *)
StatusTellsCount ==
  \A k \in 0..Limit :
    LET text == Played(State(counts, k), D)
        Settled(c) ==
          /\ \A d \in counts : d[1] > c[1] => c[1] + Fade <= d[1]
          /\ \A d, e \in counts : d[1] >= c[1] /\ d[1] = e[1] => d = e
    IN \A c \in counts :
         Settled(c) => Shown(text, Pct(c[1] + Fade, D)) = Still(IF k = c[2] THEN 1 ELSE 0)

(* Every dispatch is within a gap of a pulse, and the pulses neither run   *)
(* into one another nor are lit but at a dispatch (ring).                  *)
PulsesTellDispatches ==
  LET ring == Played(Ring(Dispatches), D)
      Peak(t) == Shown(ring, Pct(t + Cs(10), D)) = Still(1)
  IN /\ \A t \in Dispatches : \E u \in Dispatches : u <= t /\ t < u + Gap /\ Peak(u)
     /\ \A t, u \in Dispatches : t < u /\ Peak(t) /\ Peak(u) => t + Gap <= u

(* A worker is shown from 0.2 s into each of its lives and a ghost after   *)
(* the last one and before the first, and between two that leave room for  *)
(* the fades (Pool.rows).  Left out are a slot taken again less than 0.2 s *)
(* after its worker was gone, where the fade of the old worker ends after  *)
(* the rise of the new one, and a worker spawned in the first 0.1 s, whose *)
(* rise starts before the loop does.                                       *)
RowsTellWorkers ==
  \A w \in Workers :
    LET life == alive[w]
        row == Played(Row(w), D)
        At(t, v) == Shown(row, Pct(t, D)) = Still(v)
        settled == \A i \in 1..Len(life) :
                     /\ life[i][1] = 0 \/ life[i][1] >= Cs(10)
                     /\ i > 1 => life[i][1] >= life[i - 1][2] + Cs(20)
    IN settled =>
         /\ \A i \in 1..Len(life) :
              /\ At(life[i][1] + Cs(20), 1)
              /\ life[i][1] > 0 /\ (i > 1 => life[i][1] >= life[i - 1][2] + Cs(50))
                   => At(IF i = 1 THEN 0 ELSE life[i][1] - Cs(10), 0)
         /\ life # <<>> /\ ~Lives(w) => At(Last(life)[2] + Cs(40), 0)

(* Bars and glow tell which jobs run (bar and flash of kfu.py).            *)
WorkShown == BarsTellJobs /\ GlowTellsWork

(* Status, pulses and rows tell how many jobs run, when they were          *)
(* dispatched and who the workers are (states and ring, Pool.rows).        *)
CountsShown == StatusTellsCount /\ PulsesTellDispatches /\ RowsTellWorkers

=============================================================================
