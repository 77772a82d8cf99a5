------------------------------ MODULE Keyframes ------------------------------
(***************************************************************************)
(* The keyframe helpers of the diagram generators                          *)
(* (assets/diagrams/gen/kfu.py): a generator describes each element of a   *)
(* picture by when it is lit, fills or changes, and the helpers turn that  *)
(* into a track, the sequence of keyframes the browser plays in a loop.    *)
(*                                                                         *)
(* A keyframe is a time and a value.  What a value looks like (opacity,    *)
(* transform) is the diagram's business: a lit element is 1, a dark one 0, *)
(* a bar has a fill and is shown or not.  Times are integers, Sec of them  *)
(* to a second.                                                            *)
(***************************************************************************)
EXTENDS Integers, FiniteSets, Sequences, SequencesExt, TLC

CONSTANT Sec   \* time units in a second

ASSUME SecAssumption == Sec \in Nat /\ Sec > 0 /\ Sec % 100 = 0

Cs(n) == n * (Sec \div 100)   \* n hundredths of a second

Key(t, v) == [t |-> t, v |-> v]

(* kf: the points by time; points of one time keep the order they were     *)
(* given in.                                                               *)
Kf(pts) ==
  LET numbered == [i \in DOMAIN pts |-> <<pts[i].t, i>>]
      Before(p, q) == p[1] < q[1] \/ (p[1] = q[1] /\ p[2] < q[2])
      order == SortSeq(numbered, Before)
  IN [k \in DOMAIN pts |-> pts[order[k][2]]]

(* padded: the first value held from 0 and the last to the end d of the    *)
(* loop; a point past the end is an error.                                 *)
Padded(track, d) ==
  LET lead == IF Head(track).t > 0 THEN <<Key(0, Head(track).v)>> ELSE <<>>
      tail == IF Last(track).t < d THEN <<Key(d, Last(track).v)>> ELSE <<>>
  IN lead \o track \o tail

Fits(track, d) == Last(track).t <= d

(* pct: a time as the stylesheet has it, rounded to a hundredth of a       *)
(* percent of d; whole percents first, to stay within 32 bits.             *)
Pct(t, d) == 100 * ((t * 100) \div d) + (((t * 100) % d) * 100 + d \div 2) \div d

(* css and motion_json: of the keyframes of one percentage the last wins.  *)
Played(track, d) ==
  LET p == Padded(track, d)
      Wins(i) == i = Len(p) \/ Pct(p[i].t, d) # Pct(p[i + 1].t, d)
      kept == SelectSeq([i \in DOMAIN p |-> i], Wins)
  IN [k \in DOMAIN kept |-> [p[kept[k]] EXCEPT !.t = Pct(@, d)]]

(* Spans and moments arrive in any order.                                  *)
SpanBefore(a, b) == a[1] < b[1] \/ (a[1] = b[1] /\ a[2] < b[2])
InOrder(spans) ==
  [i \in 1..Cardinality(spans) |-> CHOOSE s \in spans : Cardinality({r \in spans : SpanBefore(r, s)}) = i - 1]

(* merge: spans that overlap, or sit within pad of each other, become one. *)
(* Mutant of Merge: the end of the later span, which may be the earlier end. *)
MergeLast(spans, pad) ==
  LET Join(out, sp) ==
        IF out # <<>> /\ sp[1] <= Last(out)[2] + pad
        THEN [out EXCEPT ![Len(out)][2] = sp[2]] ELSE Append(out, sp)
  IN FoldLeft(Join, <<>>, InOrder(spans))
Merge(spans, pad) ==
  LET Join(out, sp) ==
        IF out # <<>> /\ sp[1] <= Last(out)[2] + pad
        THEN [out EXCEPT ![Len(out)][2] = IF sp[2] > @ THEN sp[2] ELSE @]
        ELSE Append(out, sp)
  IN FoldLeft(Join, <<>>, InOrder(spans))

Rise == Cs(12)
Fall == Cs(25)

(* flash: lit over each span, with a rise and a fall.                      *)
FlashWith(spans, rise, fall) ==
  LET Light(out, sp) ==
        out \o <<Key(sp[1], 0), Key(sp[1] + rise, 1), Key(sp[2], 1), Key(sp[2] + fall, 0)>>
  IN Kf(FoldLeft(Light, <<Key(0, 0)>>, Merge(spans, rise + fall)))

Flash(spans) == FlashWith(spans, Rise, Fall)

Gap == Cs(60)

(* ring: a pulse for each moment, but for those closer than the gap to the *)
(* pulse before.                                                           *)
Pulses(times) ==
  LET Add(out, m) == IF out # <<>> /\ m[1] < Last(out) + Gap THEN out ELSE Append(out, m[1])
  IN FoldLeft(Add, <<>>, InOrder({<<t, t>> : t \in times}))

Ring(times) ==
  LET Beat(out, t) == out \o <<Key(t, 0), Key(t + Cs(10), 1), Key(t + Cs(60), 0)>>
  IN Kf(FoldLeft(Beat, <<Key(0, 0)>>, Pulses(times)))

(* bar: fills over each span <<start, end, fill>>, then fades and resets;  *)
(* a span that starts before the fade is over restarts the bar at once.    *)
Full == 100
Reset == Cs(31)
Fill(shown, f) == [shown |-> shown, f |-> f]
NoFill == Fill(1, 0)

BarSpans(spans) ==
  LET sorted == InOrder(spans)
      NextStart(i) == sorted[i + 1][1]
      Push(out, i) ==
        IF i = 1 \/ sorted[i][1] >= Last(out)[2] + Reset
        THEN Append(out, sorted[i])
        ELSE Append(out, [sorted[i] EXCEPT ![1] = IF @ > Last(out)[2] + Cs(1) THEN @ ELSE Last(out)[2] + Cs(1)])
  IN FoldLeft(Push, <<>>, [i \in DOMAIN sorted |-> i])

(* bar refuses a span that starts before the one before it has ended.      *)
BarRefuses(spans) ==
  \E i \in 1..(Cardinality(spans) - 1) : InOrder(spans)[i + 1][1] < BarSpans(spans)[i][2]

Bar(spans) ==
  LET s == BarSpans(spans)
      Fades(i) == i = Len(s) \/ s[i + 1][1] >= s[i][2] + Reset
      Draw(out, i) ==
        out \o <<Key(s[i][1], NoFill), Key(s[i][2], Fill(1, s[i][3]))>>
            \o IF Fades(i)
               THEN <<Key(s[i][2] + Cs(30), Fill(0, s[i][3])), Key(s[i][2] + Reset, NoFill)>>
               ELSE <<>>
  IN Kf(FoldLeft(Draw, <<Key(0, NoFill)>>, [i \in DOMAIN s |-> i]))

(* states: one element per state, the one of the current state lit.  The   *)
(* changes are <<time, state>>, sorted, so of two at one time the larger   *)
(* state comes last.                                                       *)
(* Mutant of StateWith: the value before a change is not held until then.  *)
StateDrifting(changes, k, fade) ==
  LET sorted == InOrder(changes)
      On(i) == IF sorted[i][2] = k THEN 1 ELSE 0
      Turn(out, i) ==
        IF i > 1 /\ On(i) = On(i - 1) THEN out
        ELSE Append(out, Key(sorted[i][1] + (IF i = 1 THEN 0 ELSE fade), On(i)))
  IN FoldLeft(Turn, <<>>, [i \in DOMAIN sorted |-> i])
StateWith(changes, k, fade) ==
  LET sorted == InOrder(changes)
      On(i) == IF sorted[i][2] = k THEN 1 ELSE 0
      Turn(out, i) ==
        IF i = 1 THEN <<Key(0, On(1))>>
        ELSE IF On(i) = On(i - 1) THEN out
        ELSE out \o <<Key(sorted[i][1], On(i - 1)), Key(sorted[i][1] + fade, On(i))>>
  IN Kf(FoldLeft(Turn, <<>>, [i \in DOMAIN sorted |-> i]))

Fade == Cs(8)
State(changes, k) == StateWith(changes, k, Fade)

-----------------------------------------------------------------------------
(* What the browser shows of a played track at a percentage: a value while *)
(* two keyframes that follow one another agree, nothing certain between    *)
(* two that do not.                                                        *)
Still(v) == <<v>>
Moving == <<>>

Shown(played, pct) ==
  LET i == CHOOSE n \in DOMAIN played :
             played[n].t <= pct /\ (n = Len(played) \/ played[n + 1].t > pct)
  IN IF played[i].t = pct \/ i = Len(played) \/ played[i + 1].v = played[i].v
     THEN Still(played[i].v) ELSE Moving

=============================================================================
