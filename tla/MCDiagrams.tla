----------------------------- MODULE MCDiagrams -----------------------------
(* Instances of Diagrams for TLC.  Each set of scenarios holds the one the  *)
(* generator is run with; the others shift its times so that wakes, nudges, *)
(* sweeps, job ends and closes meet in other orders.                        *)
EXTENDS Diagrams

ASSUME AckJobs!PlacesApart /\ WakeJobs!PlacesApart /\ CloseJobs!PlacesApart /\ DeadJobsA!PlacesApart

H(n) == n * (Sec \div 100)   \* hundredths of a second

MCAckScenarios ==
  {[enq |-> [A |-> H(40), B |-> H(b)], work |-> H(w), vt |-> H(v), phase |-> H(p)] :
     b \in {60, 90, 110}, w \in {100, 200, 240}, v \in {300, 395, 400}, p \in {0, 10, 15, 30, 32, 45, 95}}

ThreeEnqueues(x, y, z) == <<<<H(x), "X">>, <<H(x + y), "Y">>, <<H(x + y + z), "Z">>>>
MCWakeScenarios ==
  {[enq |-> ThreeEnqueues(x, y, z), picks |-> p, phase |-> [C1 |-> H(30), C2 |-> H(ph)], work |-> H(w)] :
     x \in {30, 50}, y \in {2, 19, 34, 80}, z \in {3, 60, 134},
     p \in [1..3 -> {"C1", "C2"}], ph \in {32, 80}, w \in {50, 200}}
  \cup {[enq |-> <<<<H(x), "X">>, <<H(y), "Y">>>>, picks |-> <<"C1", "C2">>,
         phase |-> [C1 |-> H(a), C2 |-> H(b)], work |-> H(200)] :
          x \in {45, 50, 55}, y \in {135, 150, 165, 180, 185, 190, 230}, a \in {30, 66, 72, 76}, b \in {70, 80, 90}}

MCCloseScenarios ==
  {[enq |-> <<H(40), H(46), H(e)>>, work |-> [J1 |-> H(w), J2 |-> H(w + 30), J3 |-> H(w + 60)],
    tick |-> H(k), start |-> H(s), close |-> H(c), pop |-> p] :
     e \in {52, 62, 280}, w \in {200, 260, 300}, k \in {80, 30}, s \in {240, 270, 330},
     c \in {220, 320, 340}, p \in {1, 3}}

MCDeadScenarios ==
  {[kill |-> k, phase |-> [C1 |-> p, C2 |-> q]] :
     k \in {100, 350}, p \in {0, 120, 300, 450, 700}, q \in {0, 200, 500}}

=============================================================================
