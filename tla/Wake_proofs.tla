----------------------------- MODULE Wake_proofs -----------------------------
(***************************************************************************)
(* No wake is lost but in the ways the code leaves to the nudge, for any   *)
(* number of consumers, items and calls (Wake), and items are neither made *)
(* nor lost on the way.                                                    *)
(*                                                                         *)
(* WakeOwed speaks of consumers that wait.  It is inductive once those are *)
(* added that are about to wait after a miss, and once a consumer on its   *)
(* way to the queue counts only while it is out of the idle set: a wake    *)
(* may be spent on one that is in it and on its way already.               *)
(***************************************************************************)
EXTENDS Wake, FiniteSetTheorems, TLAPS

(* Who waits, or will when the reply of a pop that found nothing arrives.  *)
Resting == {"waiting", "missed", "refused", "rawmiss"}
Sleepers == {c \in idle : Open(c) /\ at[c] \in Resting /\ ~signal[c]}

(* Who is on its way to the queue and not in the idle set.                 *)
Bound == {c \in Coming : c \notin idle}

Enough == len <= Cardinality(Bound) + Cardinality(Announced)
OwedInv == ~lost /\ ~paused /\ Sleepers # {} => Enough

(* A consumer that leaves has no wakes to send but for its own items.      *)
LeavesNothing == \A c \in Consumers : phase[c] = "leaving" => owed[c] = 0

WakeInv == TypeOK /\ LeavesNothing /\ OwedInv

-----------------------------------------------------------------------------
(* Counts.                                                                 *)

(* A part of a finite set is finite and no larger.                         *)
LEMMA PartCount ==
  ASSUME NEW S, NEW T, IsFiniteSet(T), S \subseteq T
  PROVE  /\ IsFiniteSet(S) /\ Cardinality(S) \in Nat /\ Cardinality(T) \in Nat
         /\ Cardinality(S) <= Cardinality(T)
<1>1. IsFiniteSet(S) /\ Cardinality(S) <= Cardinality(T)
  BY FS_Subset
<1>2. Cardinality(S) \in Nat /\ Cardinality(T) \in Nat
  BY <1>1, FS_CardinalityType
<1> QED BY <1>1, <1>2

(* Counts add up over disjoint sets.                                       *)
LEMMA TogetherCount ==
  ASSUME NEW S, NEW T, IsFiniteSet(S), IsFiniteSet(T), S \cap T = {}
  PROVE  /\ IsFiniteSet(S \cup T)
         /\ Cardinality(S) \in Nat /\ Cardinality(T) \in Nat
         /\ Cardinality(S \cup T) = Cardinality(S) + Cardinality(T)
<1>1. Cardinality(S) \in Nat /\ Cardinality(T) \in Nat
  BY FS_CardinalityType
<1>2. IsFiniteSet(S \cup T)
      /\ Cardinality(S \cup T) = Cardinality(S) + Cardinality(T) - Cardinality(S \cap T)
  BY FS_Union
<1>3. Cardinality(S \cap T) = 0
  BY FS_EmptySet
<1> QED BY <1>1, <1>2, <1>3

(* Taking a part away takes its count off.                                 *)
LEMMA AwayCount ==
  ASSUME NEW S, NEW T, IsFiniteSet(S), T \subseteq S
  PROVE  /\ Cardinality(S) \in Nat /\ Cardinality(T) \in Nat /\ Cardinality(S \ T) \in Nat
         /\ Cardinality(S) = Cardinality(S \ T) + Cardinality(T)
<1>1. IsFiniteSet(T) /\ IsFiniteSet(S \ T)
  BY PartCount
<1>2. (S \ T) \cap T = {} /\ (S \ T) \cup T = S
  OBVIOUS
<1>3. /\ Cardinality(S \ T) \in Nat /\ Cardinality(T) \in Nat
      /\ Cardinality((S \ T) \cup T) = Cardinality(S \ T) + Cardinality(T)
  BY <1>1, <1>2, TogetherCount
<1>4. Cardinality(S) \in Nat
  BY FS_CardinalityType
<1> QED BY <1>2, <1>3, <1>4

(* One element more or less changes a count by at most one.                *)
LEMMA OneCount ==
  ASSUME NEW S, NEW c, IsFiniteSet(S)
  PROVE  /\ IsFiniteSet(S \cup {c}) /\ IsFiniteSet(S \ {c})
         /\ Cardinality(S) \in Nat /\ Cardinality(S \cup {c}) \in Nat
         /\ Cardinality(S \ {c}) \in Nat
         /\ Cardinality(S \cup {c}) <= Cardinality(S) + 1
         /\ Cardinality(S) <= Cardinality(S \ {c}) + 1
         /\ Cardinality(S \ {c}) <= Cardinality(S)
<1>1. IsFiniteSet(S \cup {c})
      /\ Cardinality(S \cup {c}) = IF c \in S THEN Cardinality(S) ELSE Cardinality(S) + 1
  BY FS_AddElement
<1>2. IsFiniteSet(S \ {c})
      /\ Cardinality(S \ {c}) = IF c \in S THEN Cardinality(S) - 1 ELSE Cardinality(S)
  BY FS_RemoveElement
<1>3. /\ Cardinality(S) \in Nat /\ Cardinality(S \cup {c}) \in Nat
      /\ Cardinality(S \ {c}) \in Nat
  BY <1>1, <1>2, FS_CardinalityType
<1> QED BY <1>1, <1>2, <1>3

(* The requeued items of a function like owed.                             *)
Marks(f) == {mark \in Consumers \X (1..MaxPushes) : mark[2] <= f[mark[1]]}

(* When a consumer has announced its items, as many marks are gone.        *)
LEMMA MarksCount ==
  ASSUME NEW f \in [Consumers -> 0..MaxPushes], NEW g, NEW c \in Consumers,
         g = [f EXCEPT ![c] = 0]
  PROVE  /\ Cardinality(Marks(f)) \in Nat /\ Cardinality(Marks(g)) \in Nat
         /\ Cardinality(Marks(f)) = Cardinality(Marks(g)) + f[c]
<1> DEFINE Own == {c} \X (1..f[c])
<1>1. MaxPushes \in Nat /\ IsFiniteSet(Consumers) /\ f[c] \in Nat /\ f[c] <= MaxPushes
  BY WakeAssumption
<1>2. IsFiniteSet(Consumers \X (1..MaxPushes))
  <2>1. IsFiniteSet(1..MaxPushes)
    BY <1>1, FS_Interval
  <2> QED BY <1>1, <2>1, FS_Product
<1>3. Marks(g) \subseteq Consumers \X (1..MaxPushes)
  BY DEF Marks
<1>4. IsFiniteSet(Marks(g))
  BY <1>2, <1>3, PartCount
<1>5. IsFiniteSet(Own) /\ Cardinality(Own) = f[c]
  <2>1. IsFiniteSet({c}) /\ Cardinality({c}) = 1
    BY FS_Singleton
  <2>2. IsFiniteSet(1..f[c]) /\ Cardinality(1..f[c]) = f[c]
    BY <1>1, FS_Interval
  <2>3. IsFiniteSet(Own) /\ Cardinality(Own) = Cardinality({c}) * Cardinality(1..f[c])
    BY <2>1, <2>2, FS_Product
  <2> QED BY <1>1, <2>1, <2>2, <2>3
<1>6. Marks(g) \cap Own = {}
  BY <1>1 DEF Marks
<1>7. Marks(f) = Marks(g) \cup Own
  <2>1. ASSUME NEW d \in Consumers, NEW n \in 1..MaxPushes
        PROVE  n <= f[d] <=> (n <= g[d] \/ (d = c /\ n \in 1..f[c]))
    <3>1. CASE d = c
      BY <1>1, <3>1
    <3>2. CASE d # c
      BY <1>1, <3>2
    <3> QED BY <3>1, <3>2
  <2>2. ASSUME NEW p \in Consumers \X (1..MaxPushes)
        PROVE  p \in Marks(f) <=> p \in Marks(g) \cup Own
    <3>1. PICK d \in Consumers, n \in 1..MaxPushes : p = <<d, n>>
      BY <2>2
    <3> QED BY <2>1, <3>1 DEF Marks
  <2>3. Own \subseteq Consumers \X (1..MaxPushes)
    BY <1>1
  <2>4. Marks(f) \subseteq Consumers \X (1..MaxPushes)
    BY DEF Marks
  <2> QED BY <1>3, <2>2, <2>3, <2>4
<1>8. /\ Cardinality(Marks(g)) \in Nat
      /\ Cardinality(Marks(g) \cup Own) = Cardinality(Marks(g)) + Cardinality(Own)
  BY <1>4, <1>5, <1>6, TogetherCount
<1> QED BY <1>1, <1>5, <1>7, <1>8

LEMMA AnnouncedMarks == Announced = Marks(owed) /\ Announced' = Marks(owed')
BY DEF Announced, Marks

(* What the proofs count is finite, before a step and after it.            *)
FiniteCounts ==
  /\ IsFiniteSet(has) /\ Cardinality(has) \in Nat
  /\ IsFiniteSet(Bound) /\ Cardinality(Bound) \in Nat
  /\ IsFiniteSet(Coming) /\ Cardinality(Coming) \in Nat
  /\ IsFiniteSet(Announced) /\ Cardinality(Announced) \in Nat

LEMMA Finite == (TypeOK => FiniteCounts) /\ (TypeOK' => FiniteCounts')
<1>1. IsFiniteSet(Consumers) /\ IsFiniteSet(Consumers \X (1..MaxPushes))
  <2>1. IsFiniteSet(Consumers) /\ MaxPushes \in Nat
    BY WakeAssumption
  <2>2. IsFiniteSet(1..MaxPushes)
    BY <2>1, FS_Interval
  <2> QED BY <2>1, <2>2, FS_Product
<1>2. \A T : T \subseteq Consumers => IsFiniteSet(T) /\ Cardinality(T) \in Nat
  BY <1>1, PartCount
<1>3. \A T : T \subseteq Consumers \X (1..MaxPushes) => IsFiniteSet(T) /\ Cardinality(T) \in Nat
  BY <1>1, PartCount
<1>4. Bound \subseteq Consumers /\ Coming \subseteq Consumers
      /\ Announced \subseteq Consumers \X (1..MaxPushes)
  BY DEF Bound, Coming, Announced
<1>5. Bound' \subseteq Consumers /\ Coming' \subseteq Consumers
      /\ Announced' \subseteq Consumers \X (1..MaxPushes)
  BY DEF Bound, Coming, Announced
<1>6. TypeOK => has \subseteq Consumers
  BY DEF TypeOK
<1>7. TypeOK' => has' \subseteq Consumers
  BY DEF TypeOK
<1>8. TypeOK => FiniteCounts
  BY <1>2, <1>3, <1>4, <1>6 DEF FiniteCounts
<1>9. TypeOK' => FiniteCounts'
  BY <1>2, <1>3, <1>5, <1>7 DEF FiniteCounts
<1> QED BY <1>8, <1>9

-----------------------------------------------------------------------------
(* Types.                                                                  *)

LEMMA TypeInit == Init => TypeOK
<1> SUFFICES ASSUME Init PROVE TypeOK
  OBVIOUS
<1>1. Cardinality(has) = 0 /\ MaxPushes \in Nat
  BY FS_EmptySet, WakeAssumption DEF Init
<1>2. pushes \in 0..MaxPushes /\ len \in Nat /\ len + Cardinality(has) <= pushes
  BY <1>1 DEF Init
<1>3. owed \in [Consumers -> 0..MaxPushes]
  BY <1>1 DEF Init
<1>4. /\ phase \in [Consumers -> Phases] /\ at \in [Consumers -> Steps]
      /\ nudgeAt \in [Consumers -> {"off", "idle", "busy", "poke"}]
  BY DEF Init, Phases, Steps
<1> QED BY <1>2, <1>3, <1>4 DEF Init, TypeOK

LEMMA WakeUpTypes ==
  ASSUME TypeOK, NEW count, WakeUp(count)
  PROVE  /\ idle' \subseteq Consumers
         /\ signal' \in [Consumers -> BOOLEAN]
         /\ lost' \in BOOLEAN
<1>1. PICK S \in SUBSET idle :
        /\ idle' = idle \ S
        /\ signal' = [c \in Consumers |-> signal[c] \/ c \in S \cap subs]
        /\ lost' = (lost \/ \E c \in S : Open(c) # (c \in subs))
  BY DEF WakeUp
<1> QED BY <1>1 DEF TypeOK

(* Items moved from the pending hash back to the queue are neither more    *)
(* nor fewer.                                                              *)
LEMMA MoveTypes ==
  ASSUME TypeOK, NEW S, S \subseteq has,
         has' = has \ S, len' = len + Cardinality(S), pushes' = pushes
  PROVE  /\ has' \subseteq Consumers /\ pushes' \in 0..MaxPushes
         /\ len' \in Nat /\ len' + Cardinality(has') <= pushes'
         /\ Cardinality(S) \in 0..MaxPushes
<1>1. IsFiniteSet(has) /\ Cardinality(has) \in Nat
  BY Finite DEF FiniteCounts
<1>2. /\ Cardinality(S) \in Nat /\ Cardinality(has \ S) \in Nat
      /\ Cardinality(has) = Cardinality(has \ S) + Cardinality(S)
  BY <1>1, AwayCount
<1>3. MaxPushes \in Nat
  BY WakeAssumption
<1> QED BY <1>1, <1>2, <1>3 DEF TypeOK

(* A pop takes one item, and a consumer has it or took it for good.        *)
LEMMA TakeTypes ==
  ASSUME TypeOK, len > 0, len' = len - 1, pushes' = pushes, NEW c \in Consumers,
         has' = has \/ has' = has \cup {c}
  PROVE  /\ has' \subseteq Consumers /\ pushes' \in 0..MaxPushes
         /\ len' \in Nat /\ len' + Cardinality(has') <= pushes'
<1>1. IsFiniteSet(has) /\ Cardinality(has) \in Nat
  BY Finite DEF FiniteCounts
<1>2. Cardinality(has \cup {c}) \in Nat /\ Cardinality(has \cup {c}) <= Cardinality(has) + 1
  BY <1>1, OneCount
<1>3. MaxPushes \in Nat
  BY WakeAssumption
<1> QED BY <1>1, <1>2, <1>3 DEF TypeOK

LEMMA TypeStep == TypeOK /\ [Next]_vars => TypeOK'
<1> SUFFICES ASSUME TypeOK, [Next]_vars PROVE TypeOK'
  OBVIOUS
<1> USE WakeAssumption
<1>0. CASE UNCHANGED vars
  BY <1>0 DEF vars, queueVars, clientVars, TypeOK
<1>1. CASE Enqueue
  <2>1. Cardinality(has) \in Nat
    BY Finite DEF FiniteCounts
  <2>2. WakeUp(len')
    BY <1>1 DEF Enqueue
  <2>3. idle' \subseteq Consumers /\ signal' \in [Consumers -> BOOLEAN] /\ lost' \in BOOLEAN
    BY <2>2, WakeUpTypes
  <2> QED BY <1>1, <2>1, <2>3 DEF Enqueue, TypeOK, clientVars
<1>2. CASE Pause
  BY <1>2 DEF Pause, TypeOK, clientVars
<1>3. CASE Resume
  <2>1. idle' \subseteq Consumers /\ signal' \in [Consumers -> BOOLEAN] /\ lost' \in BOOLEAN
    BY <1>3, WakeUpTypes DEF Resume
  <2> QED BY <1>3, <2>1 DEF Resume, TypeOK, clientVars
<1>4. ASSUME NEW c \in Consumers, Deliver(c) PROVE TypeOK'
  BY <1>4 DEF Deliver, Go, TypeOK, Steps, queueVars
<1>5. ASSUME NEW c \in Consumers, PopScript(c) PROVE TypeOK'
  <2>1. CASE len > 0 /\ len' = len - 1 /\ has' = has \cup {c} /\ Go(c, "took") /\ UNCHANGED idle
    BY <1>5, <2>1, TakeTypes DEF PopScript, Go, TypeOK, Steps
  <2>2. CASE UNCHANGED <<len, has>>
    BY <1>5, <2>2 DEF PopScript, Go, TypeOK, Steps
  <2> QED BY <1>5, <2>1, <2>2 DEF PopScript
<1>6. ASSUME NEW c \in Consumers, PopReply(c) PROVE TypeOK'
  BY <1>6 DEF PopReply, Go, TypeOK, Steps, queueVars
<1>7. ASSUME NEW c \in Consumers, RawPop(c) PROVE TypeOK'
  <2>1. CASE len > 0 /\ len' = len - 1
    BY <1>7, <2>1, TakeTypes DEF RawPop, Go, TypeOK, Steps
  <2>2. CASE UNCHANGED len
    BY <1>7, <2>2 DEF RawPop, Go, TypeOK, Steps
  <2> QED BY <1>7, <2>1, <2>2 DEF RawPop
<1>8. ASSUME NEW c \in Consumers, MarkIdle(c) PROVE TypeOK'
  BY <1>8 DEF MarkIdle, Go, TypeOK, Steps, queueVars
<1>9. ASSUME NEW c \in Consumers, Done(c) PROVE TypeOK'
  <2>1. IsFiniteSet(has) /\ Cardinality(has) \in Nat
    BY Finite DEF FiniteCounts
  <2>2. Cardinality(has \ {c}) \in Nat /\ Cardinality(has \ {c}) <= Cardinality(has)
    BY <2>1, OneCount
  <2> QED BY <1>9, <2>1, <2>2 DEF Done, Go, TypeOK, Steps
<1>10. ASSUME NEW c \in Consumers, LenScript(c) \/ LenReply(c) PROVE TypeOK'
  BY <1>10 DEF LenScript, LenReply, TypeOK, queueVars
<1>11. ASSUME NEW c \in Consumers, NudgeSend(c) PROVE TypeOK'
  BY <1>11 DEF NudgeSend, TypeOK, queueVars
<1>12. ASSUME NEW c \in Consumers, NudgeScript(c) PROVE TypeOK'
  BY <1>12 DEF NudgeScript, TypeOK, queueVars
<1>13. ASSUME NEW c \in Consumers, Poke(c) PROVE TypeOK'
  BY <1>13 DEF Poke, TypeOK, queueVars, Steps
<1>14. ASSUME NEW c \in Consumers, SweepMove(c) PROVE TypeOK'
  <2>1. PICK S \in SUBSET has \ {{}} :
          has' = has \ S /\ len' = len + Cardinality(S)
          /\ owed' = [owed EXCEPT ![c] = Cardinality(S)]
    BY <1>14 DEF SweepMove
  <2>2. /\ has' \subseteq Consumers /\ pushes' \in 0..MaxPushes
        /\ len' \in Nat /\ len' + Cardinality(has') <= pushes'
        /\ Cardinality(S) \in 0..MaxPushes
    BY <1>14, <2>1, MoveTypes DEF SweepMove
  <2> QED BY <1>14, <2>1, <2>2 DEF SweepMove, TypeOK
<1>15. ASSUME NEW c \in Consumers, WakeForRequeued(c) PROVE TypeOK'
  <2>1. idle' \subseteq Consumers /\ signal' \in [Consumers -> BOOLEAN] /\ lost' \in BOOLEAN
    <3>1. CASE WakeUp(owed[c])
      BY <3>1, WakeUpTypes
    <3>2. CASE lost' = TRUE /\ UNCHANGED <<idle, signal>>
      BY <3>2 DEF TypeOK
    <3> QED BY <1>15, <3>1, <3>2 DEF WakeForRequeued
  <2>2. owed' \in [Consumers -> 0..MaxPushes]
    BY <1>15 DEF WakeForRequeued, TypeOK
  <2>3. UNCHANGED <<len, pushes, has, paused, subs, phase, at, flag, nudgeAt, lenDue>>
    BY <1>15 DEF WakeForRequeued, queueVars
  <2> QED BY <2>1, <2>2, <2>3 DEF TypeOK
<1>16. ASSUME NEW c \in Consumers, RequeueNackedItems(c) PROVE TypeOK'
  <2>1. PICK S \in SUBSET has \ {{}} : has' = has \ S /\ len' = len + Cardinality(S)
    BY <1>16 DEF RequeueNackedItems
  <2>2. /\ has' \subseteq Consumers /\ pushes' \in 0..MaxPushes
        /\ len' \in Nat /\ len' + Cardinality(has') <= pushes'
    BY <1>16, <2>1, MoveTypes DEF RequeueNackedItems
  <2> QED BY <1>16, <2>2 DEF RequeueNackedItems, TypeOK, clientVars
<1>17. ASSUME NEW c \in Consumers, Subscribe(c) PROVE TypeOK'
  BY <1>17 DEF Subscribe, TypeOK, Phases, queueVars
<1>18. ASSUME NEW c \in Consumers, Leave(c) PROVE TypeOK'
  BY <1>18 DEF Leave, TypeOK, Phases, queueVars
<1>19. ASSUME NEW c \in Consumers, Release(c) PROVE TypeOK'
  <2>1. has' = has \ (has \cap {c}) /\ len' = len + Cardinality(has \cap {c})
    BY <1>19 DEF Release
  <2>2. /\ has' \subseteq Consumers /\ pushes' \in 0..MaxPushes
        /\ len' \in Nat /\ len' + Cardinality(has') <= pushes'
        /\ Cardinality(has \cap {c}) \in 0..MaxPushes
    BY <1>19, <2>1, MoveTypes DEF Release
  <2> QED BY <1>19, <2>2 DEF Release, TypeOK, Phases
<1>20. ASSUME NEW c \in Consumers, Stop(c) PROVE TypeOK'
  BY <1>20 DEF Stop, TypeOK, Phases, queueVars
<1>21. ASSUME NEW c \in Consumers, Crash(c) PROVE TypeOK'
  BY <1>21 DEF Crash, TypeOK, Phases, queueVars
<1>22. ASSUME NEW c \in Consumers, Disconnect(c) \/ Reconnect(c) PROVE TypeOK'
  BY <1>22 DEF Disconnect, Reconnect, TypeOK, queueVars
<1> QED BY <1>0, <1>1, <1>2, <1>3, <1>4, <1>5, <1>6, <1>7, <1>8, <1>9, <1>10, <1>11,
           <1>12, <1>13, <1>14, <1>15, <1>16, <1>17, <1>18, <1>19, <1>20, <1>21, <1>22
       DEF Next

(* Every variable has its type, and a push, a pop, a requeue and a Close   *)
(* make no item and lose none: what is in the queue and what consumers     *)
(* have was pushed (Queue.Enqueue, the pop scripts, moveFn).               *)
THEOREM WakeTypes == Spec => []TypeOK
BY TypeInit, TypeStep, PTL DEF Spec
-----------------------------------------------------------------------------
(* Wakes.                                                                  *)

(* An empty queue owes nothing.                                            *)
LEMMA EmptyOwes ==
  ASSUME TypeOK', len' = 0
  PROVE  Enough'
<1>1. Cardinality(Bound)' \in Nat /\ Cardinality(Announced)' \in Nat
  BY Finite DEF FiniteCounts
<1> QED BY <1>1 DEF Enough

(* A step that adds no item and no sleeper, and loses nobody on the way.   *)
LEMMA NoneMore ==
  ASSUME TypeOK, TypeOK', Enough,
         len' <= len, Bound \subseteq Bound', owed' = owed
  PROVE  Enough'
<1>1. /\ Cardinality(Bound) \in Nat /\ Cardinality(Announced) \in Nat
      /\ IsFiniteSet(Bound') /\ len \in Nat /\ len' \in Nat
  BY Finite DEF FiniteCounts, TypeOK
<1>2. Cardinality(Bound) <= Cardinality(Bound') /\ Cardinality(Bound') \in Nat
  BY <1>1, PartCount
<1>3. Announced' = Announced
  BY DEF Announced
<1> QED BY <1>1, <1>2, <1>3 DEF Enough

(* What wake leaves behind: an empty idle set, or as many more on their    *)
(* way as it was to wake.  No one who was on the way is lost, and nobody   *)
(* new sleeps.                                                             *)
LEMMA WakeUpWakes ==
  ASSUME TypeOK, TypeOK', NEW count \in Nat, WakeUp(count), ~lost',
         UNCHANGED <<subs, phase, at>>
  PROVE  /\ ~lost /\ Sleepers' \subseteq Sleepers
         /\ Sleepers' = {} \/ Cardinality(Bound') >= Cardinality(Bound) + count
<1>1. PICK S \in SUBSET idle :
        /\ count = 0 => S = {}
        /\ Cardinality(S \cap subs) <= count
        /\ Cardinality(S \cap subs) < count => S = idle
        /\ idle' = idle \ S
        /\ signal' = [c \in Consumers |-> signal[c] \/ c \in S \cap subs]
        /\ lost' = (lost \/ \E c \in S : Open(c) # (c \in subs))
  BY DEF WakeUp
<1>2. ~lost /\ \A c \in S : Open(c) <=> c \in subs
  BY <1>1 DEF TypeOK, Open
<1>3. idle \subseteq Consumers
  BY DEF TypeOK
<1>4. Sleepers' \subseteq Sleepers
  BY <1>1, <1>3 DEF Sleepers, Open, TypeOK
<1>5. CASE Cardinality(S \cap subs) < count
  BY <1>1, <1>2, <1>4, <1>5 DEF Sleepers
<1>6. CASE ~(Cardinality(S \cap subs) < count)
  <2>1. IsFiniteSet(Bound) /\ IsFiniteSet(Bound') /\ IsFiniteSet(Consumers)
    BY Finite, WakeAssumption DEF FiniteCounts
  <2>2. IsFiniteSet(S \cap subs) /\ Cardinality(S \cap subs) \in Nat
    BY <1>3, <2>1, PartCount
  <2>3. Bound \cap (S \cap subs) = {}
    BY DEF Bound
  <2>4. Bound \subseteq Bound'
    BY <1>1, <1>3 DEF Bound, Coming, Open
  <2>5. S \cap subs \subseteq Bound'
    BY <1>1, <1>2, <1>3 DEF Bound, Coming, Open
  <2>6. /\ Cardinality(Bound \cup (S \cap subs)) = Cardinality(Bound) + Cardinality(S \cap subs)
        /\ Cardinality(Bound) \in Nat
    BY <2>1, <2>2, <2>3, TogetherCount
  <2>7. /\ Cardinality(Bound \cup (S \cap subs)) <= Cardinality(Bound')
        /\ Cardinality(Bound') \in Nat
    <3>1. Bound \cup (S \cap subs) \subseteq Bound'
      BY <2>4, <2>5
    <3> QED BY <2>1, <3>1, PartCount
  <2>8. Cardinality(S \cap subs) = count
    BY <1>1, <1>6, <2>2
  <2> QED BY <1>2, <1>4, <2>6, <2>7, <2>8
<1> QED BY <1>5, <1>6

(* Items that a consumer moved back to the queue and will announce.        *)
LEMMA MovedOwes ==
  ASSUME TypeOK, TypeOK', Enough, NEW c \in Consumers, owed[c] = 0,
         NEW k \in Nat, len' = len + k, owed' = [owed EXCEPT ![c] = k],
         Bound' = Bound
  PROVE  Enough'
<1>1. owed = [owed' EXCEPT ![c] = 0] /\ owed' \in [Consumers -> 0..MaxPushes]
      /\ owed'[c] = k
  BY DEF TypeOK
<1>2. /\ Cardinality(Marks(owed)) \in Nat /\ Cardinality(Marks(owed')) \in Nat
      /\ Cardinality(Marks(owed')) = Cardinality(Marks(owed)) + k
  <2> DEFINE f == owed'
  <2>1. f \in [Consumers -> 0..MaxPushes] /\ owed = [f EXCEPT ![c] = 0] /\ f[c] = k
    BY <1>1
  <2> HIDE DEF f
  <2>2. /\ Cardinality(Marks(f)) \in Nat /\ Cardinality(Marks(owed)) \in Nat
        /\ Cardinality(Marks(f)) = Cardinality(Marks(owed)) + f[c]
    BY <2>1, MarksCount
  <2> QED BY <2>1, <2>2 DEF f
<1>3. Cardinality(Bound) \in Nat /\ len \in Nat
  BY Finite DEF FiniteCounts, TypeOK
<1> QED BY <1>2, <1>3, AnnouncedMarks DEF Enough
LEMMA LeavesStep == TypeOK /\ LeavesNothing /\ [Next]_vars => LeavesNothing'
<1> SUFFICES ASSUME TypeOK, LeavesNothing, [Next]_vars PROVE LeavesNothing'
  OBVIOUS
<1>1. CASE UNCHANGED <<phase, owed>>
  BY <1>1 DEF LeavesNothing
<1>2. ASSUME NEW c \in Consumers, SweepMove(c) PROVE LeavesNothing'
  BY <1>2 DEF SweepMove, LeavesNothing, TypeOK
<1>3. ASSUME NEW c \in Consumers, WakeForRequeued(c) PROVE LeavesNothing'
  BY <1>3 DEF WakeForRequeued, LeavesNothing, TypeOK
<1>4. ASSUME NEW c \in Consumers, Subscribe(c) PROVE LeavesNothing'
  BY <1>4 DEF Subscribe, LeavesNothing, TypeOK
<1>5. ASSUME NEW c \in Consumers, Leave(c) PROVE LeavesNothing'
  BY <1>5 DEF Leave, LeavesNothing, TypeOK
<1>6. ASSUME NEW c \in Consumers, Release(c) PROVE LeavesNothing'
  BY <1>6 DEF Release, LeavesNothing, TypeOK
<1>7. ASSUME NEW c \in Consumers, Stop(c) PROVE LeavesNothing'
  BY <1>7 DEF Stop, LeavesNothing, TypeOK
<1>8. ASSUME NEW c \in Consumers, Crash(c) PROVE LeavesNothing'
  BY <1>8 DEF Crash, LeavesNothing, TypeOK
<1>9. \/ UNCHANGED <<phase, owed>>
      \/ \E c \in Consumers : SweepMove(c) \/ WakeForRequeued(c) \/ Subscribe(c) \/ Leave(c)
                              \/ Release(c) \/ Stop(c) \/ Crash(c)
  BY DEF Next, vars, queueVars, clientVars, Enqueue, Pause, Resume, Deliver, PopScript, PopReply,
         RawPop, MarkIdle, Done, LenScript, LenReply, NudgeSend, NudgeScript, Poke,
         RequeueNackedItems, Disconnect, Reconnect
<1> QED BY <1>1, <1>2, <1>3, <1>4, <1>5, <1>6, <1>7, <1>8, <1>9

(* A step that wakes: whoever still sleeps is outnumbered by those woken.  *)
LEMMA OwedWake ==
  ASSUME WakeInv, TypeOK', ~lost', ~paused', Sleepers' # {},
         Enqueue \/ Resume \/ \E c \in Consumers : WakeForRequeued(c)
  PROVE  Enough'
<1> USE DEF WakeInv
<1>1. /\ Cardinality(Bound) \in Nat /\ Cardinality(Announced) \in Nat
      /\ Cardinality(Bound') \in Nat /\ Cardinality(Announced') \in Nat
      /\ len \in Nat /\ len' \in Nat
  BY Finite DEF FiniteCounts, TypeOK
<1>2. CASE Enqueue
  <2>1. WakeUp(len') /\ UNCHANGED <<subs, phase, at>>
    BY <1>2 DEF Enqueue, clientVars
  <2>2. Cardinality(Bound') >= Cardinality(Bound) + len'
    BY <1>1, <2>1, WakeUpWakes
  <2> QED BY <1>1, <2>2 DEF Enough
<1>3. CASE Resume
  <2>1. WakeUp(len) /\ UNCHANGED <<subs, phase, at>> /\ len' = len
    BY <1>3 DEF Resume, clientVars
  <2>2. Cardinality(Bound') >= Cardinality(Bound) + len
    BY <1>1, <2>1, WakeUpWakes
  <2> QED BY <1>1, <2>1, <2>2 DEF Enough
<1>4. ASSUME NEW c \in Consumers, WakeForRequeued(c) PROVE Enough'
  <2>1. WakeUp(owed[c]) /\ UNCHANGED <<subs, phase, at>> /\ len' = len /\ paused' = paused
        /\ owed' = [owed EXCEPT ![c] = 0]
    BY <1>4 DEF WakeForRequeued, queueVars
  <2>2. owed[c] \in Nat /\ owed \in [Consumers -> 0..MaxPushes]
    BY WakeAssumption DEF TypeOK
  <2>3. ~lost /\ Sleepers' \subseteq Sleepers
        /\ Cardinality(Bound') >= Cardinality(Bound) + owed[c]
    BY <2>1, <2>2, WakeUpWakes
  <2>4. Enough
    BY <2>1, <2>3 DEF OwedInv
  <2>5. Cardinality(Marks(owed)) = Cardinality(Marks(owed')) + owed[c]
    <3> DEFINE g == owed'
    <3>1. g = [owed EXCEPT ![c] = 0]
      BY <2>1
    <3> HIDE DEF g
    <3>2. Cardinality(Marks(owed)) = Cardinality(Marks(g)) + owed[c]
      BY <2>2, <3>1, MarksCount
    <3> QED BY <3>2 DEF g
  <2> QED BY <1>1, <2>1, <2>2, <2>3, <2>4, <2>5, AnnouncedMarks DEF Enough
<1> QED BY <1>2, <1>3, <1>4

(* A step of a consumer's pops and signals.                                *)
LEMMA OwedPop ==
  ASSUME WakeInv, TypeOK', ~lost', ~paused', Sleepers' # {}, NEW c \in Consumers,
         \/ Deliver(c) \/ PopScript(c) \/ PopReply(c) \/ RawPop(c) \/ MarkIdle(c)
         \/ Done(c) \/ LenScript(c) \/ LenReply(c)
  PROVE  Enough'
<1> USE DEF WakeInv
<1>1. /\ Cardinality(Bound) \in Nat /\ Cardinality(Announced) \in Nat
      /\ Cardinality(Bound') \in Nat /\ Cardinality(Announced') \in Nat
      /\ IsFiniteSet(Bound) /\ IsFiniteSet(Bound') /\ len \in Nat /\ len' \in Nat
  BY Finite DEF FiniteCounts, TypeOK
(* One item fewer, and at most c no longer on its way.                     *)
<1>2. ASSUME len' = len - 1, Bound \ {c} \subseteq Bound', owed' = owed, Enough
      PROVE  Enough'
  <2>1. Cardinality(Bound) <= Cardinality(Bound \ {c}) + 1 /\ Cardinality(Bound \ {c}) \in Nat
    BY <1>1, OneCount
  <2>2. Cardinality(Bound \ {c}) <= Cardinality(Bound')
    BY <1>1, <1>2, PartCount
  <2>3. Announced' = Announced
    BY <1>2 DEF Announced
  <2> QED BY <1>1, <1>2, <2>1, <2>2, <2>3 DEF Enough
<1>3. CASE Deliver(c)
  <2>1. /\ signal[c] /\ signal' = [signal EXCEPT ![c] = FALSE]
        /\ Open(c) /\ at[c] = "waiting" /\ at' = [at EXCEPT ![c] = "looking"] /\ ~lost
    BY <1>3 DEF Deliver, Go
  <2>2. UNCHANGED <<len, paused, idle, phase, owed>>
    BY <1>3 DEF Deliver, queueVars
  <2>3. Sleepers' \subseteq Sleepers
    BY <2>1, <2>2 DEF Sleepers, Resting, Open, TypeOK
  <2>4. Bound \subseteq Bound'
    BY <2>1, <2>2 DEF Bound, Coming, Open, TypeOK
  <2> QED BY <1>1, <2>1, <2>2, <2>3, <2>4, NoneMore DEF OwedInv
<1>4. CASE PopScript(c)
  <2>1. /\ at[c] = "looking" /\ ~paused /\ ~lost
        /\ UNCHANGED <<phase, signal, owed, paused, lost>>
    BY <1>4 DEF PopScript
  <2>2. CASE len > 0 /\ Go(c, "took") /\ len' = len - 1 /\ UNCHANGED idle
    <3>1. Sleepers' \subseteq Sleepers
      BY <2>1, <2>2 DEF Sleepers, Resting, Open, TypeOK, Go
    <3>2. Bound \ {c} \subseteq Bound'
      BY <2>1, <2>2 DEF Bound, Coming, Open, TypeOK, Go
    <3> QED BY <1>2, <2>1, <2>2, <3>1, <3>2 DEF OwedInv
  <2>3. CASE len = 0 /\ len' = len
    BY <2>3, EmptyOwes
  <2> QED BY <1>4, <2>1, <2>2, <2>3 DEF PopScript
<1>5. CASE PopReply(c)
  <2>1. UNCHANGED <<len, paused, idle, phase, signal, owed, lost>>
    BY <1>5 DEF PopReply, queueVars
  <2>2. \/ at[c] = "took" /\ at' = [at EXCEPT ![c] = "busy"]
        \/ at[c] \in {"missed", "refused"} /\ at' = [at EXCEPT ![c] = "waiting"]
    BY <1>5 DEF PopReply, Go
  <2>3. Sleepers' \subseteq Sleepers
    BY <2>1, <2>2 DEF Sleepers, Resting, Open, TypeOK
  <2>4. Bound \subseteq Bound'
    BY <2>1, <2>2 DEF Bound, Coming, Open, TypeOK
  <2> QED BY <1>1, <2>1, <2>3, <2>4, NoneMore DEF OwedInv
<1>6. CASE RawPop(c)
  <2>1. /\ at[c] = "looking" /\ ~paused /\ ~lost
        /\ UNCHANGED <<phase, signal, owed, paused, lost, idle>>
    BY <1>6 DEF RawPop
  <2>2. CASE len > 0 /\ Go(c, "busy") /\ len' = len - 1
    <3>1. Sleepers' \subseteq Sleepers
      BY <2>1, <2>2 DEF Sleepers, Resting, Open, TypeOK, Go
    <3>2. Bound \ {c} \subseteq Bound'
      BY <2>1, <2>2 DEF Bound, Coming, Open, TypeOK, Go
    <3> QED BY <1>2, <2>1, <2>2, <3>1, <3>2 DEF OwedInv
  <2>3. CASE len = 0 /\ len' = len
    BY <2>3, EmptyOwes
  <2> QED BY <1>6, <2>1, <2>2, <2>3 DEF RawPop
<1>7. CASE MarkIdle(c)
  <2>1. /\ at[c] = "rawmiss" /\ at' = [at EXCEPT ![c] = "waiting"]
        /\ UNCHANGED <<len, paused, phase, signal, owed>>
    BY <1>7 DEF MarkIdle, Go, queueVars
  <2>2. CASE idle' = idle \cup {c} /\ lost' = (lost \/ len > 0)
    <3>1. ~(len > 0)
      BY <2>2
    <3> QED BY <1>1, <2>1, <3>1, EmptyOwes
  <2>3. CASE ~Open(c) /\ UNCHANGED <<idle, lost>>
    <3>1. Sleepers' \subseteq Sleepers
      BY <2>1, <2>3 DEF Sleepers, Resting, Open, TypeOK
    <3>2. Bound \subseteq Bound'
      BY <2>1, <2>3 DEF Bound, Coming, Open, TypeOK
    <3> QED BY <1>1, <2>1, <2>3, <3>1, <3>2, NoneMore DEF OwedInv
  <2> QED BY <1>7, <2>2, <2>3 DEF MarkIdle
<1>8. CASE Done(c)
  <2>1. /\ at[c] = "busy" /\ at' = [at EXCEPT ![c] = "looking"]
        /\ UNCHANGED <<len, paused, idle, phase, signal, owed, lost>>
    BY <1>8 DEF Done, Go
  <2>2. Sleepers' \subseteq Sleepers
    BY <2>1 DEF Sleepers, Resting, Open, TypeOK
  <2>3. Bound \subseteq Bound'
    BY <2>1 DEF Bound, Coming, Open, TypeOK
  <2> QED BY <1>1, <2>1, <2>2, <2>3, NoneMore DEF OwedInv
<1>9. CASE LenScript(c)
  BY <1>9, EmptyOwes DEF LenScript, queueVars
<1>10. CASE LenReply(c)
  <2>1. UNCHANGED <<len, paused, idle, phase, at, signal, owed, lost>>
    BY <1>10 DEF LenReply, queueVars
  <2>2. Sleepers' = Sleepers /\ Bound' = Bound
    BY <2>1 DEF Sleepers, Bound, Coming, Open
  <2> QED BY <1>1, <2>1, <2>2, NoneMore DEF OwedInv
<1> QED BY <1>3, <1>4, <1>5, <1>6, <1>7, <1>8, <1>9, <1>10

(* A step of the nudge.                                                    *)
LEMMA OwedNudge ==
  ASSUME WakeInv, TypeOK', ~lost', ~paused', Sleepers' # {}, NEW c \in Consumers,
         NudgeSend(c) \/ NudgeScript(c) \/ Poke(c)
  PROVE  Enough'
<1> USE DEF WakeInv
<1>1. len \in Nat /\ len' \in Nat
  BY DEF TypeOK
<1>2. UNCHANGED <<len, paused, phase, signal, owed, lost>>
  BY DEF NudgeSend, NudgeScript, Poke, queueVars
<1>3. CASE len = 0
  BY <1>2, <1>3, EmptyOwes
<1>4. CASE len > 0
  <2>1. \/ UNCHANGED <<idle, at>>
        \/ idle' = idle \ {c} /\ UNCHANGED at
        \/ UNCHANGED idle /\ at[c] = "waiting" /\ at' = [at EXCEPT ![c] = "looking"]
    <3>1. CASE NudgeSend(c)
      BY <3>1 DEF NudgeSend
    <3>2. CASE NudgeScript(c)
      BY <1>4, <3>2 DEF NudgeScript
    <3>3. CASE Poke(c) /\ Open(c) /\ at[c] = "waiting"
      BY <3>3 DEF Poke
    <3>4. CASE Poke(c) /\ ~(Open(c) /\ at[c] = "waiting")
      BY <3>4 DEF Poke, TypeOK
    <3> QED BY <3>1, <3>2, <3>3, <3>4
  <2>2. Sleepers' \subseteq Sleepers
    BY <1>2, <2>1 DEF Sleepers, Resting, Open, TypeOK
  <2>3. Bound \subseteq Bound'
    BY <1>2, <2>1 DEF Bound, Coming, Open, TypeOK
  <2> QED BY <1>1, <1>2, <2>2, <2>3, NoneMore DEF OwedInv
<1> QED BY <1>1, <1>3, <1>4

(* A consumer comes, goes, loses its connection or has it back.            *)
LEMMA OwedLife ==
  ASSUME WakeInv, TypeOK', ~lost', ~paused', Sleepers' # {}, NEW c \in Consumers,
         \/ Subscribe(c) \/ Leave(c) \/ Stop(c) \/ Crash(c)
         \/ Disconnect(c) \/ Reconnect(c)
  PROVE  Enough'
<1> USE DEF WakeInv
<1>1. len \in Nat /\ len' \in Nat /\ owed \in [Consumers -> 0..MaxPushes] /\ MaxPushes \in Nat
  BY WakeAssumption DEF TypeOK
<1>2. UNCHANGED <<len, paused, at>> /\ ~lost
  BY DEF Subscribe, Leave, Stop, Crash, Disconnect, Reconnect, queueVars, TypeOK
<1>3. CASE Subscribe(c)
  <2>1. ~(len > 0)
    BY <1>3 DEF Subscribe
  <2> QED BY <1>1, <1>2, <2>1, EmptyOwes
<1>4. CASE Leave(c) \/ Crash(c)
  <2>1. ~signal[c] /\ at[c] # "looking" /\ owed[c] = 0
    <3>1. ~signal[c] /\ at[c] # "looking" /\ ~(owed[c] > 0)
      <4>1. CASE Leave(c)
        BY <4>1 DEF Leave
      <4>2. CASE Crash(c)
        BY <4>2 DEF Crash
      <4> QED BY <1>4, <4>1, <4>2
    <3>2. owed[c] \in Nat
      BY <1>1
    <3> QED BY <3>1, <3>2
  <2>2. idle' = idle \ {c} \/ idle' = idle
    BY <1>4 DEF Leave, Crash
  <2>3. phase' = [phase EXCEPT ![c] = "leaving"] \/ phase' = [phase EXCEPT ![c] = "dead"]
    BY <1>4 DEF Leave, Crash
  <2>4. signal' = signal \/ signal' = [signal EXCEPT ![c] = FALSE]
    BY <1>4 DEF Leave, Crash
  <2>5. owed' = owed
    <3>1. owed' = [owed EXCEPT ![c] = 0]
      BY <1>4 DEF Leave, Crash
    <3> QED BY <1>1, <2>1, <3>1
  <2>6. Sleepers' \subseteq Sleepers
    BY <1>2, <2>1, <2>2, <2>3, <2>4 DEF Sleepers, Open, TypeOK
  <2>7. Bound \subseteq Bound'
    BY <1>2, <2>1, <2>2, <2>3, <2>4 DEF Bound, Coming, Open, TypeOK
  <2> QED BY <1>1, <1>2, <2>5, <2>6, <2>7, NoneMore DEF OwedInv
<1>5. CASE Stop(c)
  <2>1. /\ phase[c] = "released" /\ phase' = [phase EXCEPT ![c] = "closed"]
        /\ idle' = idle \ {c} /\ signal' = [signal EXCEPT ![c] = FALSE] /\ owed' = owed
    BY <1>5 DEF Stop
  <2>2. Sleepers' \subseteq Sleepers
    BY <1>2, <2>1 DEF Sleepers, Open, TypeOK
  <2>3. Bound \subseteq Bound'
    BY <1>2, <2>1 DEF Bound, Coming, Open, TypeOK
  <2> QED BY <1>1, <1>2, <2>1, <2>2, <2>3, NoneMore DEF OwedInv
<1>6. CASE Disconnect(c) \/ Reconnect(c)
  <2>1. UNCHANGED <<idle, phase, owed>> /\ \A d \in Consumers : signal'[d] = signal[d]
    <3>1. CASE Disconnect(c)
      BY <3>1 DEF Disconnect, TypeOK
    <3>2. CASE Reconnect(c)
      BY <3>2 DEF Reconnect
    <3> QED BY <1>6, <3>1, <3>2
  <2>2. Sleepers' = Sleepers /\ Bound' = Bound
    BY <1>2, <2>1 DEF Sleepers, Bound, Coming, Open, TypeOK
  <2> QED BY <1>1, <1>2, <2>1, <2>2, NoneMore DEF OwedInv
<1> QED BY <1>3, <1>4, <1>5, <1>6

(* Items come back to the queue, to be announced by who moved them.        *)
LEMMA OwedMove ==
  ASSUME WakeInv, TypeOK', ~lost', ~paused', Sleepers' # {}, NEW c \in Consumers,
         SweepMove(c) \/ Release(c)
  PROVE  Enough'
<1> USE DEF WakeInv
<1>1. UNCHANGED <<paused, idle, at, signal, lost>>
  BY DEF SweepMove, Release
<1>2. owed[c] = 0 /\ \A d \in Consumers : phase'[d] = "open" <=> phase[d] = "open"
  BY DEF SweepMove, Release, LeavesNothing, TypeOK
<1>3. Sleepers' = Sleepers /\ Bound' = Bound
  BY <1>1, <1>2 DEF Sleepers, Bound, Coming, Open, TypeOK
<1>4. PICK S \in SUBSET has :
        len' = len + Cardinality(S) /\ owed' = [owed EXCEPT ![c] = Cardinality(S)]
  BY DEF SweepMove, Release
<1>5. Cardinality(S) \in Nat
  <2>1. IsFiniteSet(has)
    BY Finite DEF FiniteCounts
  <2> QED BY <2>1, PartCount
<1>6. Enough
  BY <1>1, <1>3 DEF OwedInv
<1> QED BY <1>2, <1>3, <1>4, <1>5, <1>6, MovedOwes

LEMMA OwedStep ==
  "manual" \notin Uses /\ WakeInv /\ TypeOK' /\ [Next]_vars => OwedInv'
<1> SUFFICES ASSUME "manual" \notin Uses, WakeInv, TypeOK', [Next]_vars,
                    ~lost', ~paused', Sleepers' # {}
             PROVE  Enough'
  BY DEF OwedInv
<1>1. CASE UNCHANGED vars
  <2>1. UNCHANGED <<len, paused, idle, phase, at, signal, owed, lost>>
    BY <1>1 DEF vars, queueVars, clientVars
  <2>2. Sleepers' = Sleepers /\ Bound' = Bound
    BY <2>1 DEF Sleepers, Bound, Coming, Open
  <2> QED BY <2>1, <2>2, NoneMore DEF WakeInv, OwedInv, TypeOK
<1>2. CASE Enqueue \/ Resume
  BY <1>2, OwedWake
<1>3. CASE Pause
  BY <1>3 DEF Pause
<1>4. ASSUME NEW c \in Consumers,
             \/ Deliver(c) \/ PopScript(c) \/ PopReply(c) \/ RawPop(c) \/ MarkIdle(c)
             \/ Done(c) \/ LenScript(c) \/ LenReply(c)
      PROVE  Enough'
  BY <1>4, OwedPop
<1>5. ASSUME NEW c \in Consumers, NudgeSend(c) \/ NudgeScript(c) \/ Poke(c)
      PROVE  Enough'
  BY <1>5, OwedNudge
<1>6. ASSUME NEW c \in Consumers, SweepMove(c) \/ Release(c)
      PROVE  Enough'
  BY <1>6, OwedMove
<1>7. ASSUME NEW c \in Consumers, WakeForRequeued(c)
      PROVE  Enough'
  BY <1>7, OwedWake
<1>8. ASSUME NEW c \in Consumers, RequeueNackedItems(c)
      PROVE  Enough'
  BY <1>8 DEF RequeueNackedItems
<1>9. ASSUME NEW c \in Consumers,
             \/ Subscribe(c) \/ Leave(c) \/ Stop(c) \/ Crash(c)
             \/ Disconnect(c) \/ Reconnect(c)
      PROVE  Enough'
  BY <1>9, OwedLife
<1> QED BY <1>1, <1>2, <1>3, <1>4, <1>5, <1>6, <1>7, <1>8, <1>9 DEF Next

-----------------------------------------------------------------------------
LEMMA WakeInvInit == Init => WakeInv
<1> SUFFICES ASSUME Init PROVE WakeInv
  OBVIOUS
<1>1. TypeOK
  BY TypeInit
<1>2. LeavesNothing /\ OwedInv
  BY DEF Init, LeavesNothing, OwedInv, Sleepers
<1> QED BY <1>1, <1>2 DEF WakeInv

LEMMA WakeInvStep == "manual" \notin Uses /\ WakeInv /\ [Next]_vars => WakeInv'
BY TypeStep, LeavesStep, OwedStep DEF WakeInv

LEMMA WakeInvOwed == WakeInv => WakeOwed
<1> SUFFICES ASSUME WakeInv, ~lost, ~paused, Asleep # {}
             PROVE  len <= Cardinality(Coming) + Cardinality(Announced)
  BY DEF WakeOwed
<1>1. Asleep \subseteq Sleepers
  BY DEF Asleep, Sleepers, Resting
<1>2. Enough
  BY <1>1 DEF WakeInv, OwedInv
<1>3. /\ IsFiniteSet(Coming) /\ Cardinality(Coming) \in Nat
      /\ Cardinality(Bound) \in Nat /\ Cardinality(Announced) \in Nat /\ len \in Nat
  BY Finite DEF WakeInv, FiniteCounts, TypeOK
<1>4. Cardinality(Bound) <= Cardinality(Coming)
  BY <1>3, PartCount DEF Bound
<1> QED BY <1>2, <1>3, <1>4 DEF Enough

(* While no wake was lost in a way the code leaves to the nudge, a queue   *)
(* with a sleeper in its idle set has as many consumers on their way, or   *)
(* items to be announced, as it has items: the miss joins the idle set in  *)
(* the pop's own script (popOneTail), Len's and the nudge's only when they *)
(* find the queue empty (lenIdle, nudge), and each push and each requeue   *)
(* wakes as many as it must (listPushWake, wakeFn).  RequeueNackedItems,   *)
(* which wakes nobody, is left out.                                        *)
THEOREM NobodyOversleeps == "manual" \notin Uses => (Spec => []WakeOwed)
<1> SUFFICES ASSUME "manual" \notin Uses PROVE Spec => []WakeOwed
  OBVIOUS
<1>1. WakeInv /\ [Next]_vars => WakeInv'
  BY WakeInvStep
<1> QED BY <1>1, WakeInvInit, WakeInvOwed, PTL DEF Spec
=============================================================================
