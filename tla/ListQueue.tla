------------------------------ MODULE ListQueue ------------------------------
(***************************************************************************)
(* What a list queue (queue.go) promises the programs that use it: no ack  *)
(* ID, deadline, heartbeat, sweep, lost reply or late copy of a command is *)
(* told here, only where each job is and who holds it.  A job waits in the *)
(* queue, is pending with a consumer, is raw with the caller of Dequeue,   *)
(* or has come to its end.                                                 *)
(***************************************************************************)
EXTENDS Integers, FiniteSets, Sequences, SequencesExt

CONSTANTS
  Jobs,     \* submission numbers
  Holders,  \* the consumers that pop with acknowledgement
  Nobody    \* holds the jobs of callers with ack IDs of their own

VARIABLES
  waiting,  \* the jobs of the queue, the head first
  stage,    \* stage[j]: how far job j has come
  holder,   \* holder[j]: the consumer that holds job j, or Nobody
  paused    \* whether pops are held up

vars == <<waiting, stage, holder, paused>>

Kinds == {"completed", "failed"}
Ended == Kinds \cup {"gone"}

Init ==
  /\ waiting = <<>>
  /\ stage = [j \in Jobs |-> "unborn"]
  /\ holder = [j \in Jobs |-> Nobody]
  /\ paused = FALSE

(* The stages and holders after the jobs of S come to one stage, with h.   *)
Reach(S, now) == [j \in Jobs |-> IF j \in S THEN now ELSE stage[j]]
With(S, h) == [j \in Jobs |-> IF j \in S THEN h ELSE holder[j]]

(* The next job is stored behind the others.                               *)
Push(j) ==
  /\ stage[j] = "unborn" /\ \A k \in Jobs : k < j => stage[k] # "unborn"
  /\ waiting' = Append(waiting, j)
  /\ stage' = Reach({j}, "queue")
  /\ UNCHANGED <<holder, paused>>

(* Consumer h takes the first n jobs, in one step.                         *)
Take(h, n) ==
  LET S == {waiting[i] : i \in 1..n} IN
  /\ ~paused
  /\ waiting' = SubSeq(waiting, n + 1, Len(waiting))
  /\ stage' = Reach(S, "pending")
  /\ holder' = With(S, h)
  /\ UNCHANGED paused

(* Some held jobs, of whichever consumers, go back ahead of all the        *)
(* others, in any order.                                                   *)
PutBack(S, front) ==
  /\ waiting' = front \o waiting
  /\ stage' = Reach(S, "queue")
  /\ holder' = With(S, Nobody)
  /\ UNCHANGED paused

Finish(j, kind) ==
  /\ stage[j] = "pending"
  /\ stage' = Reach({j}, kind)
  /\ holder' = With({j}, Nobody)
  /\ UNCHANGED <<waiting, paused>>

(* Dequeue, and PrepareForFutureAck of what it took.                       *)
TakeRaw ==
  /\ ~paused /\ waiting # <<>>
  /\ waiting' = Tail(waiting)
  /\ stage' = Reach({Head(waiting)}, "taken")
  /\ UNCHANGED <<holder, paused>>

Prepare(j) ==
  /\ stage[j] = "taken"
  /\ stage' = Reach({j}, "pending")
  /\ UNCHANGED <<waiting, holder, paused>>

RemoveItem(i) ==
  /\ waiting' = RemoveAt(waiting, i)
  /\ stage' = Reach({waiting[i]}, "gone")
  /\ UNCHANGED <<holder, paused>>

(* A purge ends every job that waits or is pending.                        *)
Purge ==
  LET S == {j \in Jobs : stage[j] \in {"queue", "pending"}} IN
  /\ waiting' = <<>>
  /\ stage' = Reach(S, "gone")
  /\ holder' = With(S, Nobody)
  /\ UNCHANGED paused

SetPause(p) == paused' = p /\ UNCHANGED <<waiting, stage, holder>>

Next ==
  \/ \E j \in Jobs :
       \/ Push(j) \/ Prepare(j)
       \/ \E kind \in Kinds : Finish(j, kind)
  \/ \E h \in Holders, n \in 1..Len(waiting) : Take(h, n)
  \/ \E S \in SUBSET {j \in Jobs : stage[j] = "pending"} :
       \E front \in SetToSeqs(S) : PutBack(S, front)
  \/ \E i \in 1..Len(waiting) : RemoveItem(i)
  \/ TakeRaw \/ Purge
  \/ \E p \in BOOLEAN : SetPause(p)

Spec == Init /\ [][Next]_vars

-----------------------------------------------------------------------------
(* Properties.                                                             *)

(* A job that was acknowledged, rejected, removed or purged never comes    *)
(* back: no late copy, sweep or requeue brings it to the queue or to a     *)
(* consumer again (finishScript, Purge, Remove).                           *)
EndedStay == \A j \in Jobs : stage[j] \in Ended => stage'[j] = stage[j]
EndsForGood == [][EndedStay]_vars

(* A job passes from one consumer to another only through the queue: while *)
(* it is pending its holder stays the same (popHead's re-send guard).      *)
HolderStays ==
  \A j \in Jobs :
    stage[j] = "pending" /\ stage'[j] = "pending" => holder'[j] = holder[j]
NoHandover == [][HolderStays]_vars

=============================================================================
