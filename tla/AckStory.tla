------------------------------ MODULE AckStory ------------------------------
(***************************************************************************)
(* redisq-ack.svg (assets/diagrams/gen/gen_ack.py): job A is popped and    *)
(* acknowledged; job B is popped and never acknowledged, so the first      *)
(* sweep at or after its deadline puts it back, and it is popped again.    *)
(*                                                                         *)
(* build() is one script: each enqueue, pop and sweep adds its keyframes   *)
(* and its log entries in turn.  A behaviour runs it for one scenario: the *)
(* times of the enqueues, how long a job runs, the visibility timeout and  *)
(* the phase of the sweep.  The scenario is drawn, or one of the           *)
(* assertions refuses it.                                                  *)
(***************************************************************************)
EXTENDS Keyframes

CONSTANT Scenarios   \* [enq: time of each job's enqueue, work, vt, phase]

VARIABLES
  sc,      \* the scenario
  world,   \* what the script has built so far
  status   \* "running", then "drawn" or "refused"

vars == <<sc, world, status>>

Pair == {"A", "B"}
Script == <<"A arrives", "B arrives", "A is popped", "B is popped", "sweep", "B is popped again", "render">>

(* path_len over DOT_V, and the fade-in of the dot.                        *)
PopFlight == 6929
AckFlight == 9548

Slot(i) == <<"list", i>>     \* the places of a job square; slot 1 is the head
Row(r) == <<"row", r>>
Under(r) == <<"under the head", r>>
Spot(p, shown) == <<p, shown>>
On(p) == Spot(p, 1)
Off(p) == Spot(p, 0)
Producer == <<"producer", 0>>

Start ==
  [step |-> 1, lst |-> <<>>, item |-> [k \in Pair |-> <<>>], where |-> [k \in Pair |-> <<>>],
   rows |-> <<0, 1, 0>>, free |-> {0, 1}, bars |-> [r \in {0, 1} |-> {}],
   busy |-> <<>>, pops |-> <<>>, acks |-> <<>>, req |-> 0]

Init == sc \in Scenarios /\ world = Start /\ status = "running"

-----------------------------------------------------------------------------
(* The statements of build(), on the world w so far.                       *)

Moves(w, k, keys) == [w EXCEPT !.item[k] = @ \o keys]
Placed(w, k, t, p) == [w EXCEPT !.where[k] = Append(@, [t |-> t, place |-> p])]

OnEnqueue(w, k) ==
  LET t == sc.enq[k]
      landed == Slot(Len(w.lst) + 1)
  IN Placed(Moves([w EXCEPT !.lst = Append(@, k)], k,
                  <<Key(t, Off(Producer)), Key(t + Cs(10), On(Producer)), Key(t + Cs(70), On(landed))>>),
            k, t + Cs(70), "list")

(* The rest of the list moves up one slot once the head has left.          *)
Shift(w, t) ==
  FoldLeft(LAMBDA u, i : Moves(u, w.lst[i], <<Key(t + Cs(35), On(Slot(i + 1))), Key(t + Cs(80), On(Slot(i)))>>),
           w, [i \in DOMAIN w.lst |-> i])

(* pop: the head goes to the next pending row, and its dot to the consumer. *)
TakenWith(w, t, shift) ==
  LET k == Head(w.lst)
      row == Head(w.rows)
      left == Shift([w EXCEPT !.lst = Tail(@), !.rows = Tail(@), !.free = @ \ {row}], shift)
  IN [Placed(Moves(left, k, <<Key(t, On(Slot(1))), Key(t + Cs(35), On(Under(row))), Key(t + Cs(70), On(Row(row)))>>),
             k, t, "pending")
        EXCEPT !.busy = Append(@, <<t + PopFlight, t + PopFlight + sc.work>>),
               !.pops = Append(@, [t |-> t, job |-> k, row |-> row])]

(* Mutant of Taken: the others move up while the head still leaves.        *)
TakenAtOnce(w, t) == TakenWith(w, t, t - Cs(30))
Taken(w, t) == TakenWith(w, t, t)

DoneAt(t) == t + PopFlight + sc.work
AckedAt(t) == DoneAt(t) + AckFlight

Unacked(w, t) == [Taken(w, t) EXCEPT !.bars[Head(w.rows)] = @ \cup {<<t, t + sc.vt, Full>>}]

(* The deadline bar fills at the timeout's rate and stops at the ack.      *)
Acked(w, t) ==
  LET k == Head(w.lst)
      row == Head(w.rows)
      a == AckedAt(t)
  IN [Placed(Moves(Taken(w, t), k, <<Key(a, On(Row(row))), Key(a + Cs(30), Off(Row(row)))>>), k, a, "done")
        EXCEPT !.acks = Append(@, [t |-> a, job |-> k]),
               !.bars[row] = @ \cup {<<t, a, (Full * (a - t)) \div sc.vt>>},
               !.free = @ \cup {row}]

Ticks == {k * Sec + sc.phase : k \in 0..39}
Popped(i) == world.pops[i].t
Deadline == Popped(2) + sc.vt

(* Mutant of Sweep: the last tick before the deadline.                     *)
SweepEarly == Max({s \in Ticks : s <= Deadline})
Sweep == Min({s \in Ticks : s >= Deadline})

OnSweep(w) ==
  LET row == w.pops[2].row
  IN Placed(Moves([w EXCEPT !.lst = <<"B">> \o @, !.free = @ \cup {row}, !.req = Sweep], "B",
                  <<Key(Sweep, On(Row(row))), Key(Sweep + Cs(70), On(Slot(1)))>>),
            "B", Sweep, "list")

-----------------------------------------------------------------------------
(* The run of the script: a statement whose assertion fails refuses.       *)

At(step) == status = "running" /\ Script[world.step] = step /\ UNCHANGED sc

Does(w) == world' = [w EXCEPT !.step = @ + 1] /\ UNCHANGED status
DoesIf(assertion, w) ==
  \/ assertion /\ Does(w)
  \/ ~assertion /\ status' = "refused" /\ UNCHANGED world

Enqueue ==
  \/ At("A arrives") /\ Does(OnEnqueue(world, "A"))
  \/ At("B arrives") /\ Does(OnEnqueue(world, "B"))

InTime(t) == AckedAt(t) - t < sc.vt
FirstPoll == Cs(140)

PopA ==
  /\ At("A is popped")
  /\ DoesIf(InTime(FirstPoll), Acked(world, FirstPoll))

PopB ==
  /\ At("B is popped")
  /\ LET t == world.acks[1].t + Cs(30)
     IN DoesIf(DoneAt(t) < t + sc.vt, Unacked(world, t))

Requeue == At("sweep") /\ Does(OnSweep(world))

PopAgain ==
  /\ At("B is popped again")
  /\ LET t == world.req + Cs(90)
     IN DoesIf(InTime(t), Acked(world, t))

-----------------------------------------------------------------------------
(* The end of build(): the length of the loop, the assertions, the tracks. *)

End == world.acks[2].t + Cs(30)
D == Sec * ((End + Cs(150)) \div Sec + 1)

Item(k) == Kf(world.item[k])
RowBar(r) == Bar(world.bars[r])
Runs == {<<r[1], r[2], Full>> : r \in ToSet(world.busy)}
Late == Flash({<<Deadline, world.req>>})
Pulsed == Ring({s \in Ticks : s < D})

Tracks ==
  <<Item("A"), Item("B"), RowBar(0), RowBar(1), Bar(Runs), Late, Pulsed,
    Flash({<<DoneAt(Popped(2)), DoneAt(Popped(2)) + Cs(160)>>}),
    Flash({<<world.req, world.req + Cs(160)>>}),
    Flash({<<a.t, a.t + Cs(140)>> : a \in ToSet(world.acks)}),
    Flash(ToSet(world.busy)),
    Flash({<<sc.enq[k] - Cs(5), sc.enq[k] + Cs(30)>> : k \in Pair})>>

InTurn(s) == \A i \in 1..(Len(s) - 1) : s[i].t <= s[i + 1].t

Accepts ==
  /\ End + Cs(100) <= D
  /\ [i \in DOMAIN world.pops |-> world.pops[i].job] = <<"A", "B", "B">>
  /\ \A k \in Pair : InTurn(world.where[k])
  /\ \A i \in 1..2 : world.busy[i][2] <= world.busy[i + 1][1]
  /\ world.lst = <<>> /\ world.free = {0, 1}
  /\ \A r \in {0, 1} : ~BarRefuses(world.bars[r])
  /\ ~BarRefuses(Runs)
  /\ \A i \in DOMAIN Tracks : Fits(Tracks[i], D)

Render ==
  /\ At("render")
  /\ status' = IF Accepts THEN "drawn" ELSE "refused"
  /\ UNCHANGED world

Next == Enqueue \/ PopA \/ PopB \/ Requeue \/ PopAgain \/ Render

Spec == Init /\ [][Next]_vars

-----------------------------------------------------------------------------
(* Where a job is.                                                         *)
Place(k) ==
  IF k \in ToSet(world.lst) THEN "waiting"
  ELSE IF world.where[k] = <<>> THEN "new"
  ELSE IF Last(world.where[k]).place = "pending" THEN "C" ELSE "done"

-----------------------------------------------------------------------------
(* Properties.                                                             *)

(* A job's keyframes are written in the order of their times, over all the *)
(* moves that different statements give it, so that sorting them (kf) does *)
(* not mix two moves: B is in its slot before it moves up, back in the     *)
(* list before it is popped again, and so on.  It holds as long as B lands *)
(* before the list moves up for A; no assertion looks at that.             *)
MovesInOrder ==
  sc.enq["B"] + Cs(70) <= FirstPoll + Cs(35) => \A k \in Pair : InTurn(world.item[k])

(* Each deadline bar is full at the deadline of B, and at an ack as far as *)
(* the ack was on the way to the deadline; a bar used a second time is     *)
(* empty when it starts again (bar, pop).                                  *)
BarsTellDeadlines ==
  status = "drawn" =>
    LET At0(r, t, f) == Shown(Played(RowBar(r), D), Pct(t, D)) = Still(Fill(1, f))
        Share(t) == (Full * (AckedAt(t) - t)) \div sc.vt
    IN /\ At0(1, Deadline, Full) /\ At0(1, Popped(2), 0)
       /\ \A i \in {1, 3} : At0(0, Popped(i), 0) /\ At0(0, AckedAt(Popped(i)), Share(Popped(i)))

(* B stays in its row until the first sweep at or after its deadline and   *)
(* is late from the one to the other, even when the wait is shorter than   *)
(* the label's rise; it is at the head of the list before it is popped     *)
(* again (STORYBOARD.md: a sweep moves B back to the front).               *)
LateTellsSweep ==
  status = "drawn" =>
    LET shown(track, t) == Shown(Played(track, D), Pct(t, D))
        late == world.req > Deadline
    IN /\ world.req >= Deadline /\ \A s \in Ticks : s < Deadline \/ s >= world.req
       /\ shown(Item("B"), Deadline) = Still(On(Row(1))) /\ shown(Item("B"), world.req) = Still(On(Row(1)))
       /\ late => shown(Late, Deadline) = Still(0)
       /\ shown(Late, world.req) = Still(1)
       /\ shown(Late, world.req + Fall) = Still(0)
       /\ shown(Item("B"), Popped(3)) = Still(On(Slot(1)))

=============================================================================
