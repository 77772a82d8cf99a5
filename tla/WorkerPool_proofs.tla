-------------------------- MODULE WorkerPool_proofs --------------------------
(***************************************************************************)
(* No worker of a pool is given two jobs at once, for every limit, number  *)
(* of idle workers, exit time and course of the simulation.                *)
(***************************************************************************)
EXTENDS WorkerPool, SequenceTheorems, TLAPS

TypeOK ==
  /\ idle \in Seq(Workers)
  /\ alive \in [Workers -> Seq(Int \X Int)]
  /\ working \in [Workers -> Seq(Nat)]
  /\ now \in Nat

Inv == TypeOK /\ OneJobEach

(* A worker with a lifetime that was just appended lives.                  *)
LEMMA NewLife ==
  ASSUME NEW s \in Seq(Int \X Int), NEW t \in Nat
  PROVE  LET a == Append(s, <<t, Open>>)
         IN a \in Seq(Int \X Int) /\ a # <<>> /\ a[Len(a)][2] = Open
<1>1. <<t, Open>> \in Int \X Int
  BY DEF Open
<1>2. Append(s, <<t, Open>>)[Len(Append(s, <<t, Open>>))] = <<t, Open>>
  BY <1>1
<1> QED
  BY <1>1, <1>2, AppendProperties

(* A worker whose last lifetime was just ended does not.                   *)
LEMMA EndLife ==
  ASSUME NEW s \in Seq(Int \X Int), s # <<>>, NEW u \in Nat
  PROVE  LET e == [s EXCEPT ![Len(s)][2] = u]
         IN e \in Seq(Int \X Int) /\ e[Len(e)][2] = u
<1>1. Len(s) \in 1..Len(s) /\ s[Len(s)] \in Int \X Int
  OBVIOUS
<1>2. PICK a \in Int, b \in Int : s[Len(s)] = <<a, b>>
  BY <1>1
<1>3. [s[Len(s)] EXCEPT ![2] = u] = <<a, u>>
  BY <1>2
<1>4. <<a, u>> \in Int \X Int
  OBVIOUS
<1>5. [s EXCEPT ![Len(s)][2] = u] = [s EXCEPT ![Len(s)] = <<a, u>>]
  BY <1>3
<1>6. [s EXCEPT ![Len(s)] = <<a, u>>] \in Seq(Int \X Int)
  BY <1>1, <1>4
<1>7. Len([s EXCEPT ![Len(s)] = <<a, u>>]) = Len(s)
  BY <1>1, <1>4
<1>8. [s EXCEPT ![Len(s)] = <<a, u>>][Len(s)][2] = u
  BY <1>1
<1>9. [s EXCEPT ![Len(s)] = <<a, u>>][Len([s EXCEPT ![Len(s)] = <<a, u>>])][2] = u
  BY <1>7, <1>8
<1> QED
  BY <1>5, <1>6, <1>9

LEMMA InitInv == Init => Inv
<1> SUFFICES ASSUME Init PROVE Inv
  OBVIOUS
<1>1. IdleFirst \in Nat /\ Limit \in Nat /\ IdleFirst <= Limit
  BY PoolAssumption
<1>2. idle \in Seq(Workers) /\ Len(idle) = IdleFirst /\ \A i \in 1..IdleFirst : idle[i] = i - 1
  BY <1>1 DEF Init, Workers
<1>3. working \in [Workers -> Seq(Nat)] /\ Busy = {} /\ \A w \in Workers : Len(working[w]) = 0
  BY DEF Init, Busy
<1>4. alive \in [Workers -> Seq(Int \X Int)]
  BY DEF Init, Open
<1>5. ASSUME NEW w \in Workers
      PROVE  Lives(w) <=> \E i \in 1..Len(idle) : idle[i] = w
  <2>1. w < IdleFirst => alive[w] = <<<<0, Open>>>>
    BY DEF Init
  <2>2. ~(w < IdleFirst) => alive[w] = <<>>
    BY DEF Init
  <2>3. Lives(w) <=> w < IdleFirst
    BY <2>1, <2>2 DEF Lives, Open
  <2>4. w < IdleFirst => w + 1 \in 1..IdleFirst /\ idle[w + 1] = w
    BY <1>1, <1>2 DEF Workers
  <2>5. ASSUME NEW i \in 1..Len(idle), idle[i] = w
        PROVE  w < IdleFirst
    BY <1>1, <1>2, <2>5 DEF Workers
  <2> QED
    BY <1>2, <2>3, <2>4, <2>5
<1>6. OneJobEach
  <2>1. \A w \in Workers : Len(working[w]) <= 1
    BY <1>3
  <2>2. \A i, k \in 1..Len(idle) : idle[i] = idle[k] => i = k
    BY <1>1, <1>2
  <2> QED
    BY <1>3, <1>5, <2>1, <2>2 DEF OneJobEach
<1> QED
  BY <1>2, <1>3, <1>4, <1>6 DEF Inv, TypeOK, Init

(* Giving a job to a worker that has none leaves it with that one.         *)
LEMMA OneMore ==
  ASSUME TypeOK, NEW w \in Workers, w \notin Busy, Dispatched(w)
  PROVE  /\ working' \in [Workers -> Seq(Nat)]
         /\ Len(working'[w]) <= 1
         /\ Busy' = Busy \cup {w}
         /\ \A u \in Workers : u # w => working'[u] = working[u]
         /\ now' = now
<1>1. working[w] = <<>>
  BY DEF Busy
<1>2. working' = [working EXCEPT ![w] = Append(@, now)] /\ now' = now /\ now \in Nat
  BY DEF Dispatched, TypeOK
<1>3. working'[w] = <<now>>
  BY <1>1, <1>2 DEF TypeOK
<1>4. \A u \in Workers : u # w => working'[u] = working[u]
  BY <1>2 DEF TypeOK
<1>5. working' \in [Workers -> Seq(Nat)]
  BY <1>2 DEF TypeOK
<1>6. Len(working'[w]) <= 1 /\ working'[w] # <<>>
  BY <1>3
<1> QED
  BY <1>2, <1>4, <1>5, <1>6 DEF Busy

(* A worker that did its one job has none.                                 *)
LEMMA OneLess ==
  ASSUME Inv, NEW w \in Workers, Done(w)
  PROVE  /\ working' \in [Workers -> Seq(Nat)]
         /\ Len(working'[w]) = 0
         /\ w \in Busy /\ Busy' = Busy \ {w}
         /\ \A u \in Workers : u # w => working'[u] = working[u]
         /\ now' = now
<1>1. working[w] \in Seq(Nat) /\ working[w] # <<>> /\ Len(working[w]) <= 1
  BY DEF Inv, TypeOK, OneJobEach, Done
<1>2. working' = [working EXCEPT ![w] = Tail(@)] /\ now' = now
  BY DEF Done
<1>3. Tail(working[w]) = <<>>
  BY <1>1
<1>4. working'[w] = <<>>
  BY <1>2, <1>3 DEF Inv, TypeOK
<1>5. \A u \in Workers : u # w => working'[u] = working[u]
  BY <1>2 DEF Inv, TypeOK
<1>6. working' \in [Workers -> Seq(Nat)]
  <2>1. <<>> \in Seq(Nat)
    OBVIOUS
  <2> QED
    BY <1>2, <1>3, <2>1 DEF Inv, TypeOK
<1> QED
  BY <1>1, <1>2, <1>4, <1>5, <1>6 DEF Busy

LEMMA NextInv == Inv /\ [Next]_vars => Inv'
<1> SUFFICES ASSUME Inv, [Next]_vars PROVE Inv'
  OBVIOUS
<1> USE DEF Inv
<1>1. CASE Pass
  <2>1. now' \in Nat
    BY <1>1, PoolAssumption DEF Pass, TypeOK
  <2> QED
    BY <1>1, <2>1 DEF Pass, TypeOK, OneJobEach, Busy, Lives
<1>2. CASE Reuse
  <2> DEFINE w == idle[Len(idle)]
  <2>1. idle # <<>> /\ Len(idle) \in 1..Len(idle) /\ w \in Workers
    BY <1>2 DEF Reuse, TypeOK
  <2>2. w \notin Busy /\ Dispatched(w) /\ alive' = alive
    BY <1>2, <2>1 DEF Reuse, OneJobEach
  <2>3. /\ working' \in [Workers -> Seq(Nat)] /\ Len(working'[w]) <= 1 /\ Busy' = Busy \cup {w}
        /\ \A u \in Workers : u # w => working'[u] = working[u]
        /\ now' = now
    BY <2>1, <2>2, OneMore
  <2>4. idle' \in Seq(Workers) /\ Len(idle') = Len(idle) - 1
        /\ \A i \in 1..(Len(idle) - 1) : idle'[i] = idle[i]
    <3>1. idle' = SubSeq(idle, 1, Len(idle) - 1)
      BY <1>2 DEF Reuse
    <3>2. Len(idle) \in Nat /\ \A i \in 1..(Len(idle) - 1) : idle[i] \in Workers
      BY DEF TypeOK
    <3>3. SubSeq(idle, 1, Len(idle) - 1) \in Seq(Workers)
      BY <3>2, SubSeqProperties
    <3>4. Len(SubSeq(idle, 1, Len(idle) - 1)) = Len(idle) - 1
      <4>1. Len(SubSeq(idle, 1, Len(idle) - 1))
              = IF 1 <= Len(idle) - 1 THEN Len(idle) - 1 - 1 + 1 ELSE 0
        BY <3>2, SubSeqProperties
      <4>2. Len(idle) \in Nat /\ 1 <= Len(idle)
        BY <2>1, <3>2
      <4>3. ASSUME NEW n \in Nat, 1 <= n
            PROVE  (IF 1 <= n - 1 THEN n - 1 - 1 + 1 ELSE 0) = n - 1
        BY <4>3
      <4> QED
        BY <4>1, <4>2, <4>3
    <3>5. \A i \in 1..(Len(idle) - 1) : SubSeq(idle, 1, Len(idle) - 1)[i] = idle[i]
      BY <3>2, SubSeqProperties
    <3> QED
      BY <3>1, <3>3, <3>4, <3>5
  <2>5. ASSUME NEW u \in Workers
        PROVE  Len(working'[u]) <= 1
    <3>1. CASE u = w
      BY <2>3, <3>1
    <3>2. CASE u # w
      BY <2>3, <3>2 DEF OneJobEach
    <3> QED
      BY <3>1, <3>2
  <2>6. \A i, k \in 1..Len(idle') : idle'[i] = idle'[k] => i = k
    BY <2>1, <2>4 DEF OneJobEach
  <2>7. \A i \in 1..Len(idle') : idle'[i] \notin Busy'
    BY <2>1, <2>3, <2>4 DEF OneJobEach
  <2>8. ASSUME NEW u \in Workers
        PROVE  Lives(u)' <=> (u \in Busy' \/ \E i \in 1..Len(idle') : idle'[i] = u)
    <3>1. Lives(u)' <=> Lives(u)
      BY <2>2 DEF Lives
    <3>2. (\E i \in 1..Len(idle) : idle[i] = u) <=> (u = w \/ \E i \in 1..Len(idle') : idle'[i] = u)
      BY <2>1, <2>4
    <3> QED
      BY <2>3, <3>1, <3>2 DEF OneJobEach
  <2> QED
    BY <2>2, <2>3, <2>4, <2>5, <2>6, <2>7, <2>8 DEF TypeOK, OneJobEach
<1>3. CASE Spawn
  <2>1. PICK w \in Workers : ~Lives(w) /\ SpawnIn(w)
    BY <1>3 DEF Spawn
  <2>2. w \notin Busy /\ idle = <<>> /\ idle' = idle /\ Dispatched(w)
    BY <2>1 DEF SpawnIn, OneJobEach
  <2>3. /\ working' \in [Workers -> Seq(Nat)] /\ Len(working'[w]) <= 1 /\ Busy' = Busy \cup {w}
        /\ \A u \in Workers : u # w => working'[u] = working[u]
        /\ now' = now
    BY <2>2, OneMore
  <2>4. alive[w] \in Seq(Int \X Int) /\ alive'[w] = Append(alive[w], <<now, Open>>)
        /\ \A u \in Workers : u # w => alive'[u] = alive[u]
    BY <2>1 DEF SpawnIn, TypeOK
  <2>5. alive' \in [Workers -> Seq(Int \X Int)] /\ Lives(w)'
    <3>1. now \in Nat
      BY DEF TypeOK
    <3>2. alive'[w] \in Seq(Int \X Int) /\ alive'[w] # <<>> /\ alive'[w][Len(alive'[w])][2] = Open
      BY <2>4, <3>1, NewLife
    <3>3. alive' = [alive EXCEPT ![w] = Append(@, <<now, Open>>)]
      BY <2>1 DEF SpawnIn
    <3> QED
      BY <2>4, <3>2, <3>3 DEF TypeOK, Lives
  <2>6. ASSUME NEW u \in Workers
        PROVE  Len(working'[u]) <= 1
    <3>1. CASE u = w
      BY <2>3, <3>1
    <3>2. CASE u # w
      BY <2>3, <3>2 DEF OneJobEach
    <3> QED
      BY <3>1, <3>2
  <2>7. ASSUME NEW u \in Workers
        PROVE  Lives(u)' <=> (u \in Busy' \/ \E i \in 1..Len(idle') : idle'[i] = u)
    <3>1. CASE u = w
      BY <2>3, <2>5, <3>1
    <3>2. CASE u # w
      <4>1. Lives(u)' <=> Lives(u)
        BY <2>4, <3>2 DEF Lives
      <4> QED
        BY <2>2, <2>3, <3>2, <4>1 DEF OneJobEach
    <3> QED
      BY <3>1, <3>2
  <2>8. Len(idle') = 0
    BY <2>2
  <2> QED
    BY <2>2, <2>3, <2>5, <2>6, <2>7, <2>8 DEF TypeOK, OneJobEach
<1>4. ASSUME NEW w \in Workers, Keep(w)
      PROVE  Inv'
  <2>1. Done(w) /\ idle' = Append(idle, w) /\ alive' = alive
    BY <1>4 DEF Keep
  <2>2. /\ working' \in [Workers -> Seq(Nat)] /\ Len(working'[w]) = 0
        /\ w \in Busy /\ Busy' = Busy \ {w}
        /\ \A u \in Workers : u # w => working'[u] = working[u]
        /\ now' = now
    BY <2>1, OneLess
  <2>3. /\ idle' \in Seq(Workers) /\ Len(idle') = Len(idle) + 1 /\ idle'[Len(idle) + 1] = w
        /\ \A i \in 1..Len(idle) : idle'[i] = idle[i]
        /\ \A i \in 1..Len(idle') : i \in 1..Len(idle) \/ i = Len(idle) + 1
        /\ Len(idle) + 1 \in 1..Len(idle') /\ 1..Len(idle) \subseteq 1..Len(idle')
    BY <2>1 DEF TypeOK
  <2>4. \A i \in 1..Len(idle) : idle[i] # w /\ idle[i] \notin Busy
    BY <2>2 DEF OneJobEach
  <2>5. \A i, k \in 1..Len(idle') : idle'[i] = idle'[k] => i = k
    BY <2>3, <2>4 DEF OneJobEach
  <2>6. ASSUME NEW i \in 1..Len(idle')
        PROVE  idle'[i] \notin Busy'
    <3>1. CASE i = Len(idle) + 1
      BY <2>2, <2>3, <3>1
    <3>2. CASE i \in 1..Len(idle)
      BY <2>2, <2>3, <2>4, <3>2
    <3> QED
      BY <2>3, <3>1, <3>2
  <2>7. ASSUME NEW u \in Workers
        PROVE  Lives(u)' <=> (u \in Busy' \/ \E i \in 1..Len(idle') : idle'[i] = u)
    <3>1. Lives(u)' <=> Lives(u)
      BY <2>1 DEF Lives
    <3>2. (\E i \in 1..Len(idle') : idle'[i] = u) <=> (u = w \/ \E i \in 1..Len(idle) : idle[i] = u)
      BY <2>3
    <3> QED
      BY <2>2, <3>1, <3>2 DEF OneJobEach
  <2>8. \A u \in Workers : Len(working'[u]) <= 1
    BY <2>2 DEF OneJobEach
  <2> QED
    BY <2>1, <2>2, <2>3, <2>5, <2>6, <2>7, <2>8 DEF TypeOK, OneJobEach
<1>5. ASSUME NEW w \in Workers, Retire(w)
      PROVE  Inv'
  <2>1. Done(w) /\ idle' = idle
    BY <1>5 DEF Retire
  <2>2. /\ working' \in [Workers -> Seq(Nat)] /\ Len(working'[w]) = 0
        /\ w \in Busy /\ Busy' = Busy \ {w}
        /\ \A u \in Workers : u # w => working'[u] = working[u]
        /\ now' = now
    BY <2>1, OneLess
  <2>3. alive[w] \in Seq(Int \X Int) /\ alive[w] # <<>> /\ now + ExitIn \in Nat
    BY <2>2, PoolAssumption DEF OneJobEach, Lives, TypeOK
  <2>4. alive' = [alive EXCEPT ![w] = [alive[w] EXCEPT ![Len(alive[w])][2] = now + ExitIn]]
    BY <1>5 DEF Retire
  <2>11. alive'[w] = [alive[w] EXCEPT ![Len(alive[w])][2] = now + ExitIn]
    BY <2>4 DEF TypeOK
  <2>5. alive'[w] \in Seq(Int \X Int) /\ alive'[w][Len(alive'[w])][2] = now + ExitIn
    BY <2>3, <2>11, EndLife
  <2>6. ~Lives(w)'
    BY <2>3, <2>5 DEF Lives, Open
  <2>7. alive' \in [Workers -> Seq(Int \X Int)] /\ \A u \in Workers : u # w => alive'[u] = alive[u]
    BY <2>4, <2>5 DEF TypeOK
  <2>8. \A i \in 1..Len(idle) : idle[i] # w
    BY <2>2 DEF OneJobEach
  <2>9. ASSUME NEW u \in Workers
        PROVE  Lives(u)' <=> (u \in Busy' \/ \E i \in 1..Len(idle') : idle'[i] = u)
    <3>1. CASE u = w
      BY <2>1, <2>2, <2>6, <2>8, <3>1
    <3>2. CASE u # w
      <4>1. Lives(u)' <=> Lives(u)
        BY <2>7, <3>2 DEF Lives
      <4> QED
        BY <2>1, <2>2, <3>2, <4>1 DEF OneJobEach
    <3> QED
      BY <3>1, <3>2
  <2>10. \A u \in Workers : Len(working'[u]) <= 1
    BY <2>2 DEF OneJobEach
  <2>12. TypeOK'
    BY <2>1, <2>2, <2>7 DEF TypeOK
  <2>13. \A i, k \in 1..Len(idle') : idle'[i] = idle'[k] => i = k
    BY <2>1 DEF OneJobEach
  <2>14. \A i \in 1..Len(idle') : idle'[i] \notin Busy'
    BY <2>1, <2>2 DEF OneJobEach
  <2> QED
    BY <2>9, <2>10, <2>12, <2>13, <2>14 DEF OneJobEach
<1>6. CASE UNCHANGED vars
  BY <1>6 DEF vars, TypeOK, OneJobEach, Busy, Lives
<1> QED
  BY <1>1, <1>2, <1>3, <1>4, <1>5, <1>6 DEF Next

(* No worker is given two jobs at once (Pool.take, Pool.release).          *)
THEOREM OneJobAtATime == Spec => []OneJobEach
<1>1. Inv => OneJobEach
  BY DEF Inv
<1> QED
  BY InitInv, NextInv, <1>1, PTL DEF Spec

=============================================================================
