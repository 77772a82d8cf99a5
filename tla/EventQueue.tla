----------------------------- MODULE EventQueue -----------------------------
(***************************************************************************)
(* The event queue of the diagram simulations: a heap of (time, number,    *)
(* event), where the number grows with every push, so events of one time   *)
(* come out in the order they went in.                                     *)
(***************************************************************************)
EXTENDS Integers, FiniteSets, Sequences, SequencesExt, TLC

Insert(queue, e) ==
  InsertAt(queue, 1 + Cardinality({i \in DOMAIN queue : queue[i].t <= e.t}), e)

Scheduled(events) ==
  LET Before(i, k) == events[i].t < events[k].t \/ (events[i].t = events[k].t /\ i < k)
      order == SortSeq([i \in DOMAIN events |-> i], Before)
  IN [i \in DOMAIN events |-> events[order[i]]]

=============================================================================
