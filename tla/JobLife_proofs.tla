--------------------------- MODULE JobLife_proofs ---------------------------
(***************************************************************************)
(* What a story that refines JobLife may rely on, for all sets of jobs and *)
(* consumers: each job is in one place, and a job that is done stays done. *)
(***************************************************************************)
EXTENDS JobLife, SequenceTheorems, TLAPS

TypeOK == list \in Seq(Jobs) /\ place \in [Jobs -> Places]

WaitingJobs == {j \in Jobs : place[j] = Waiting}

Inv == TypeOK /\ OnePlace

(* A job that is not in the list is added at its end.                      *)
LEMMA AddLast ==
  ASSUME NEW s \in Seq(Jobs), NEW S, Lists(s, S), NEW j \in Jobs, j \notin S
  PROVE  Append(s, j) \in Seq(Jobs) /\ Lists(Append(s, j), S \cup {j})
<1> DEFINE t == Append(s, j)
<1>1. t \in Seq(Jobs) /\ Len(s) \in Nat /\ Len(t) = Len(s) + 1 /\ t[Len(s) + 1] = j
  OBVIOUS
<1>2. \A i \in 1..Len(s) : t[i] = s[i]
  OBVIOUS
<1> HIDE DEF t
<1>3. \A k \in S \cup {j} : \E i \in 1..Len(t) : t[i] = k
  <2> TAKE k \in S \cup {j}
  <2>1. CASE k = j
    BY <1>1, <2>1
  <2>2. CASE k \in S
    <3>1. PICK i \in 1..Len(s) : s[i] = k
      BY <2>2 DEF Lists
    <3> QED
      BY <1>1, <1>2, <3>1
  <2> QED
    BY <2>1, <2>2
<1>4. \A i \in 1..Len(t) : t[i] \in S \cup {j}
  BY <1>1, <1>2 DEF Lists
<1>5. \A i, k \in 1..Len(t) : t[i] = t[k] => i = k
  <2> SUFFICES ASSUME NEW i \in 1..Len(t), NEW k \in 1..Len(t), t[i] = t[k] PROVE i = k
    OBVIOUS
  <2>1. \A n \in 1..Len(s) : t[n] \in S /\ t[n] # j
    BY <1>2 DEF Lists
  <2>2. CASE i \in 1..Len(s) /\ k \in 1..Len(s)
    BY <1>2, <2>2 DEF Lists
  <2>3. CASE i = Len(s) + 1 \/ k = Len(s) + 1
    BY <1>1, <2>1, <2>3
  <2> QED
    BY <1>1, <2>2, <2>3
<1> QED
  BY <1>1, <1>3, <1>4, <1>5 DEF Lists, t

(* The first n jobs leave the list.                                        *)
LEMMA DropFirst ==
  ASSUME NEW s \in Seq(Jobs), NEW S, Lists(s, S), NEW n \in 1..Len(s)
  PROVE  /\ SubSeq(s, n + 1, Len(s)) \in Seq(Jobs)
         /\ Lists(SubSeq(s, n + 1, Len(s)), S \ {s[i] : i \in 1..n})
<1> DEFINE t == SubSeq(s, n + 1, Len(s))
           gone == {s[i] : i \in 1..n}
<1>1. Len(s) \in Nat /\ n \in Int /\ 1 <= n /\ n <= Len(s)
  OBVIOUS
<1>2. \A i \in (n + 1)..Len(s) : s[i] \in Jobs
  BY <1>1, ElementOfSeq
<1>3. t \in Seq(Jobs) /\ Len(t) = Len(s) - n /\ \A i \in 1..(Len(s) - n) : t[i] = s[n + i]
  <2>1. n + 1 \in Int /\ Len(s) \in Int
    BY <1>1
  <2>2. /\ t \in Seq(Jobs)
        /\ Len(t) = IF n + 1 <= Len(s) THEN Len(s) - (n + 1) + 1 ELSE 0
        /\ \A i \in 1..(Len(s) - (n + 1) + 1) : t[i] = s[(n + 1) + i - 1]
    BY <1>2, <2>1, SubSeqProperties
  <2> QED
    BY <1>1, <2>2
<1> HIDE DEF t
<1>4. \A k \in S \ gone : \E i \in 1..Len(t) : t[i] = k
  <2> TAKE k \in S \ gone
  <2>1. PICK i \in 1..Len(s) : s[i] = k
    BY DEF Lists
  <2>2. i \notin 1..n
    BY <2>1
  <2>3. i - n \in 1..Len(t) /\ t[i - n] = s[i]
    BY <1>1, <1>3, <2>2
  <2> QED
    BY <2>1, <2>3
<1>5. \A i \in 1..Len(t) : t[i] \in S \ gone
  <2> TAKE i \in 1..Len(t)
  <2>1. n + i \in 1..Len(s) /\ t[i] = s[n + i]
    BY <1>1, <1>3
  <2>2. s[n + i] \in S
    BY <2>1 DEF Lists
  <2>3. ASSUME NEW k \in 1..n PROVE s[k] # s[n + i]
    <3>1. k \in 1..Len(s) /\ k # n + i
      BY <1>1
    <3> QED
      BY <2>1, <3>1 DEF Lists
  <2> QED
    BY <2>1, <2>2, <2>3
<1>6. \A i, k \in 1..Len(t) : t[i] = t[k] => i = k
  <2> SUFFICES ASSUME NEW i \in 1..Len(t), NEW k \in 1..Len(t), t[i] = t[k] PROVE i = k
    OBVIOUS
  <2>1. n + i \in 1..Len(s) /\ n + k \in 1..Len(s) /\ s[n + i] = s[n + k]
    BY <1>1, <1>3
  <2>2. n + i = n + k
    BY <2>1 DEF Lists
  <2> QED
    BY <1>1, <2>2
<1> QED
  BY <1>3, <1>4, <1>5, <1>6 DEF Lists, t

(* Jobs that are not in the list come to its front, each once.             *)
LEMMA AddFront ==
  ASSUME NEW s \in Seq(Jobs), NEW S, Lists(s, S), NEW front \in Seq(Jobs),
         \A i \in 1..Len(front) : front[i] \notin S,
         \A i, k \in 1..Len(front) : front[i] = front[k] => i = k
  PROVE  /\ front \o s \in Seq(Jobs)
         /\ Lists(front \o s, S \cup {front[i] : i \in 1..Len(front)})
<1> DEFINE t == front \o s
           back == {front[i] : i \in 1..Len(front)}
           f == Len(front)
           m == Len(s)
<1>1. f \in Nat /\ m \in Nat
  OBVIOUS
<1>2. t \in Seq(Jobs) /\ Len(t) = f + m
      /\ \A i \in 1..(f + m) : t[i] = IF i <= f THEN front[i] ELSE s[i - f]
  BY ConcatProperties
<1> HIDE DEF t
<1>3. \A i \in 1..f : i \in 1..Len(t) /\ t[i] = front[i]
  BY <1>1, <1>2
<1>4. \A i \in 1..m : f + i \in 1..Len(t) /\ t[f + i] = s[i]
  <2> TAKE i \in 1..m
  <2>1. f + i \in 1..(f + m) /\ ~(f + i <= f) /\ (f + i) - f = i
    BY <1>1
  <2> QED
    BY <1>2, <2>1
<1>5. \A i \in 1..Len(t) : i \in 1..f \/ (i - f \in 1..m /\ t[i] = s[i - f])
  BY <1>1, <1>2
<1>6. \A k \in S \cup back : \E i \in 1..Len(t) : t[i] = k
  <2> TAKE k \in S \cup back
  <2>1. CASE k \in S
    <3>1. PICK i \in 1..m : s[i] = k
      BY <2>1 DEF Lists
    <3> QED
      BY <1>4, <3>1
  <2>2. CASE k \in back
    <3>1. PICK i \in 1..f : front[i] = k
      BY <2>2
    <3> QED
      BY <1>3, <3>1
  <2> QED
    BY <2>1, <2>2
<1>7. \A i \in 1..Len(t) : t[i] \in S \cup back
  <2> TAKE i \in 1..Len(t)
  <2>1. CASE i \in 1..f
    BY <1>3, <2>1
  <2>2. CASE i - f \in 1..m /\ t[i] = s[i - f]
    BY <2>2 DEF Lists
  <2> QED
    BY <1>5, <2>1, <2>2
<1>8. \A i, k \in 1..Len(t) : t[i] = t[k] => i = k
  <2> SUFFICES ASSUME NEW i \in 1..Len(t), NEW k \in 1..Len(t), t[i] = t[k] PROVE i = k
    OBVIOUS
  <2>1. \A p \in 1..f : t[p] \notin S
    BY <1>3
  <2>2. ASSUME NEW p \in 1..Len(t), p - f \in 1..m, t[p] = s[p - f] PROVE t[p] \in S
    BY <2>2 DEF Lists
  <2>3. CASE i \in 1..f /\ k \in 1..f
    BY <1>3, <2>3
  <2>4. CASE i \notin 1..f /\ k \notin 1..f
    <3>1. /\ i - f \in 1..m /\ t[i] = s[i - f]
          /\ k - f \in 1..m /\ t[k] = s[k - f]
      BY <1>5, <2>4
    <3>2. i - f = k - f
      BY <3>1 DEF Lists
    <3> QED
      BY <1>1, <1>2, <3>2
  <2>5. CASE i \in 1..f /\ k \notin 1..f
    BY <1>5, <2>1, <2>2, <2>5
  <2>6. CASE i \notin 1..f /\ k \in 1..f
    BY <1>5, <2>1, <2>2, <2>6
  <2> QED
    BY <2>3, <2>4, <2>5, <2>6
<1> QED
  BY <1>2, <1>6, <1>7, <1>8 DEF Lists, t

LEMMA InitInv == Init => Inv
  BY DEF Init, Inv, TypeOK, OnePlace

(* How a job may move: what is done stays, and nothing else is disturbed.  *)
LEMMA NextInv ==
  ASSUME PlacesApart, Inv, [Next]_vars
  PROVE  Inv' /\ \A j \in Jobs : place[j] = Finished => place'[j] = Finished
<1> USE DEF Inv, TypeOK
<1>0. Waiting \in Places /\ Finished \in Places /\ Consumers \subseteq Places
  BY DEF Places
<1>1. \A n \in 1..Len(list) : Taken(n) \subseteq WaitingJobs
  BY DEF OnePlace, Lists, Taken, WaitingJobs
<1>2. ASSUME NEW j \in Jobs, Push(j)
      PROVE  Inv' /\ \A k \in Jobs : place[k] = Finished => place'[k] = Finished
  <2>1. place' \in [Jobs -> Places] /\ WaitingJobs' = WaitingJobs \cup {j} /\ j \notin WaitingJobs
    BY <1>0, <1>2 DEF Push, WaitingJobs, PlacesApart
  <2>2. list' \in Seq(Jobs) /\ Lists(list', WaitingJobs \cup {j})
    BY <1>2, <2>1, AddLast DEF Push, OnePlace, WaitingJobs
  <2> QED
    BY <1>2, <2>1, <2>2 DEF Push, PlacesApart, OnePlace, WaitingJobs
<1>3. ASSUME NEW c \in Consumers, NEW n \in 1..Len(list), Take(c, n)
      PROVE  Inv' /\ \A k \in Jobs : place[k] = Finished => place'[k] = Finished
  <2>1. place' \in [Jobs -> Places] /\ WaitingJobs' = WaitingJobs \ Taken(n)
    BY <1>0, <1>1, <1>3 DEF Take, WaitingJobs, PlacesApart
  <2>2. list' \in Seq(Jobs) /\ Lists(list', WaitingJobs \ Taken(n))
    BY <1>3, DropFirst DEF Take, OnePlace, WaitingJobs, Taken
  <2>3. \A k \in Jobs : place[k] = Finished => place'[k] = Finished
    BY <1>1, <1>3 DEF Take, WaitingJobs, PlacesApart
  <2> QED
    BY <2>1, <2>2, <2>3 DEF OnePlace, WaitingJobs
<1>4. ASSUME NEW c \in Consumers, NEW front \in Fronts, HandBack(c, front)
      PROVE  Inv' /\ \A k \in Jobs : place[k] = Finished => place'[k] = Finished
  <2> DEFINE back == {front[i] : i \in 1..Len(front)}
  <2>1. PICK n \in 1..Cardinality(Jobs) : front \in [1..n -> Jobs]
    BY DEF Fronts
  <2>2. n \in Nat
    OBVIOUS
  <2>3. front \in Seq(Jobs)
    BY <2>1, <2>2, SeqDef
  <2>4. \A i \in 1..Len(front) : front[i] \in Jobs /\ front[i] \notin WaitingJobs /\ place[front[i]] # Finished
    BY <1>4, <2>3, ElementOfSeq DEF HandBack, WaitingJobs, PlacesApart
  <2>5. place' = [j \in Jobs |-> IF j \in back THEN Waiting ELSE place[j]]
    BY <1>4 DEF HandBack
  <2>6. place' \in [Jobs -> Places] /\ WaitingJobs' = WaitingJobs \cup back
    BY <1>0, <2>4, <2>5 DEF WaitingJobs
  <2>7. list' \in Seq(Jobs) /\ Lists(list', WaitingJobs \cup back)
    BY <1>4, <2>3, <2>4, AddFront DEF HandBack, OnePlace, WaitingJobs
  <2>8. \A k \in Jobs : place[k] = Finished => place'[k] = Finished
    BY <2>4, <2>5
  <2> QED
    BY <2>6, <2>7, <2>8 DEF OnePlace, WaitingJobs
<1>5. ASSUME NEW c \in Consumers, NEW j \in Jobs, Finish(c, j)
      PROVE  Inv' /\ \A k \in Jobs : place[k] = Finished => place'[k] = Finished
  <2>1. place' \in [Jobs -> Places] /\ WaitingJobs' = WaitingJobs /\ list' = list
    BY <1>0, <1>5 DEF Finish, WaitingJobs, PlacesApart
  <2> QED
    BY <1>5, <2>1 DEF Finish, OnePlace, WaitingJobs
<1>6. ASSUME Serve
      PROVE  Inv' /\ \A k \in Jobs : place[k] = Finished => place'[k] = Finished
  <2>1. Len(list) \in Nat /\ 1 \in 1..Len(list) /\ Head(list) = list[1]
    BY <1>6, EmptySeq DEF Serve
  <2>2. Taken(1) = {Head(list)} /\ Head(list) \in WaitingJobs
    BY <1>1, <2>1 DEF Taken
  <2>3. Tail(list) = SubSeq(list, 1 + 1, Len(list))
    BY <1>6, TailIsSubSeq DEF Serve
  <2>4. list' \in Seq(Jobs) /\ Lists(list', WaitingJobs \ Taken(1))
    BY <1>6, <2>1, <2>3, DropFirst DEF Serve, OnePlace, WaitingJobs, Taken
  <2>5. place' \in [Jobs -> Places] /\ WaitingJobs' = WaitingJobs \ Taken(1)
    BY <1>0, <1>6, <2>2 DEF Serve, WaitingJobs, PlacesApart
  <2> QED
    BY <1>6, <2>4, <2>5 DEF Serve, OnePlace, WaitingJobs
<1>7. CASE UNCHANGED vars
  BY <1>7 DEF vars, OnePlace
<1> QED
  BY <1>2, <1>3, <1>4, <1>5, <1>6, <1>7 DEF Next

(* However consumers take, finish and hand back jobs, each job is in one   *)
(* place: in the list once, and then nobody holds it, or not in the list   *)
(* (what the stories of gen_*.py promise of the list and the pending rows).*)
THEOREM EachJobInOnePlace == ASSUME PlacesApart PROVE Spec => []OnePlace
<1>1. Inv /\ [Next]_vars => Inv'
  BY NextInv
<1>2. Inv => OnePlace
  BY DEF Inv
<1> QED
  BY InitInv, <1>1, <1>2, PTL DEF Spec

(* A job that is done is never handed out, handed back or pushed again.    *)
THEOREM DoneForGood == ASSUME PlacesApart PROVE Spec => DoneStays
<1>1. Inv /\ [Next]_vars => Inv'
  BY NextInv
<1>2. Inv /\ [Next]_vars => [\A j \in Jobs : place[j] = Finished => place'[j] = Finished]_vars
  BY NextInv
<1> QED
  BY InitInv, <1>1, <1>2, PTL DEF Spec, DoneStays

=============================================================================
