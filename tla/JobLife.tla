------------------------------- MODULE JobLife -------------------------------
(***************************************************************************)
(* What every story of the diagrams promises of its jobs, whatever wakes,  *)
(* sweeps, deaths and closes there are: a job waits in the list, is held   *)
(* by one consumer or is done; it is taken from the head of the list, a    *)
(* job that is handed back goes to the front, and a job that is done       *)
(* stays done.                                                             *)
(***************************************************************************)
EXTENDS Integers, FiniteSets, Sequences

CONSTANTS Jobs, Consumers, New, Waiting, Finished

(* No consumer has the name of a place, and the places differ.             *)
PlacesApart ==
  /\ New \notin Consumers /\ Waiting \notin Consumers /\ Finished \notin Consumers
  /\ New # Waiting /\ New # Finished /\ Waiting # Finished

VARIABLES
  list,    \* the waiting jobs, the head first
  place    \* place[j]: New, Waiting, Finished or the consumer that holds j

vars == <<list, place>>

Places == Consumers \cup {New, Waiting, Finished}

(* A sequence that has each member of S once.                              *)
Lists(s, S) ==
  /\ \A j \in S : \E i \in 1..Len(s) : s[i] = j
  /\ \A i \in 1..Len(s) : s[i] \in S
  /\ \A i, k \in 1..Len(s) : s[i] = s[k] => i = k

(* The story may start in the middle of the jobs' lives.                   *)
Init ==
  /\ place \in [Jobs -> Places]
  /\ list \in Seq(Jobs) /\ Lists(list, {j \in Jobs : place[j] = Waiting})

Push(j) ==
  /\ place[j] = New
  /\ place' = [place EXCEPT ![j] = Waiting]
  /\ list' = Append(list, j)

(* Consumer c takes the first n jobs.                                      *)
Taken(n) == {list[i] : i \in 1..n}
Take(c, n) ==
  /\ place' = [j \in Jobs |-> IF j \in Taken(n) THEN c ELSE place[j]]
  /\ list' = SubSeq(list, n + 1, Len(list))

(* Some of c's jobs go back to the front, in an order the story chooses.   *)
Fronts == UNION {[1..n -> Jobs] : n \in 1..Cardinality(Jobs)}
HandBack(c, front) ==
  /\ \A i \in 1..Len(front) : place[front[i]] = c
  /\ \A i, k \in 1..Len(front) : front[i] = front[k] => i = k
  /\ place' = [j \in Jobs |-> IF \E i \in 1..Len(front) : front[i] = j THEN Waiting ELSE place[j]]
  /\ list' = front \o list

Finish(c, j) ==
  /\ place[j] = c
  /\ place' = [place EXCEPT ![j] = Finished]
  /\ UNCHANGED list

(* The first job is taken and finished by a consumer the story leaves out. *)
Serve ==
  /\ list # <<>>
  /\ place' = [place EXCEPT ![Head(list)] = Finished]
  /\ list' = Tail(list)

Next ==
  \/ \E j \in Jobs : Push(j)
  \/ Serve
  \/ \E c \in Consumers :
       \/ \E n \in 1..Len(list) : Take(c, n)
       \/ \E front \in Fronts : HandBack(c, front)
       \/ \E j \in Jobs : Finish(c, j)

Spec == Init /\ [][Next]_vars

-----------------------------------------------------------------------------
(* Properties.                                                             *)

(* Every job is in one place: in the list once and held by nobody, or not  *)
(* in the list (STORYBOARD.md: "an item is in exactly one of {list,        *)
(* pending, done} at every keyframe").                                     *)
OnePlace == Lists(list, {j \in Jobs : place[j] = Waiting})

(* A job that is done is never handed out, handed back or pushed again.    *)
DoneStays == [][\A j \in Jobs : place[j] = Finished => place'[j] = Finished]_vars

=============================================================================
