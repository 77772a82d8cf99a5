------------------------------ MODULE Diagrams ------------------------------
(***************************************************************************)
(* The generators of the README's pictures (assets/diagrams/gen), each     *)
(* behaviour a run of one of them: the worker pool and what is drawn of    *)
(* it, or one of the four stories in one of its scenarios.  They share     *)
(* nothing but the helpers; what they have in common is that each moves    *)
(* its jobs as JobLife says.                                               *)
(***************************************************************************)
EXTENDS Drawings

CONSTANTS AckScenarios, WakeScenarios, CloseScenarios, DeadScenarios

VARIABLES
  gen,     \* the generator that runs
  sc, world, status   \* of a story: its scenario, its world, its verdict

story == <<sc, world, status>>

Ack == INSTANCE AckStory WITH Scenarios <- AckScenarios
Wake == INSTANCE WakeStory WITH Scenarios <- WakeScenarios
Close == INSTANCE CloseStory WITH Scenarios <- CloseScenarios
Dead == INSTANCE DeadStory WITH Scenarios <- DeadScenarios

NoStory == sc = "none" /\ world = "none" /\ status = "running"

GenInit ==
  /\ Init
  /\ \/ gen = "pool" /\ NoStory
     \/ gen = "ack" /\ Ack!Init
     \/ gen = "wake" /\ Wake!Init
     \/ gen = "close" /\ Close!Init
     \/ gen = "dead" /\ Dead!Init

GenNext ==
  \/ gen = "pool" /\ Next /\ UNCHANGED <<gen, story>>
  \/ gen = "ack" /\ Ack!Next /\ UNCHANGED <<gen, vars>>
  \/ gen = "wake" /\ Wake!Next /\ UNCHANGED <<gen, vars>>
  \/ gen = "close" /\ Close!Next /\ UNCHANGED <<gen, vars>>
  \/ gen = "dead" /\ Dead!Next /\ UNCHANGED <<gen, vars>>

GenSpec == GenInit /\ [][GenNext]_<<gen, story, vars>>

-----------------------------------------------------------------------------
(* Where the jobs of a story are: all still new in the other generators.   *)
Runs(g) == gen = g
NoPlaces(J) == [j \in J |-> "new"]

AckJobs ==
  INSTANCE JobLife WITH
    Jobs <- {"A", "B"}, Consumers <- {"C"}, New <- "new", Waiting <- "waiting", Finished <- "done",
    list <- IF Runs("ack") THEN world.lst ELSE <<>>,
    place <- IF Runs("ack") THEN [j \in {"A", "B"} |-> Ack!Place(j)] ELSE NoPlaces({"A", "B"})

WakeJobs ==
  INSTANCE JobLife WITH
    Jobs <- {"X", "Y", "Z"}, Consumers <- {"C1", "C2"}, New <- "new", Waiting <- "waiting", Finished <- "done",
    list <- IF Runs("wake") THEN world.queue ELSE <<>>,
    place <- IF Runs("wake") THEN [j \in {"X", "Y", "Z"} |-> Wake!Place(j)] ELSE NoPlaces({"X", "Y", "Z"})

CloseJobs ==
  INSTANCE JobLife WITH
    Jobs <- {"J1", "J2", "J3"}, Consumers <- {"C1", "C2"}, New <- "new", Waiting <- "waiting", Finished <- "done",
    list <- IF Runs("close") THEN world.lst ELSE <<>>,
    place <- IF Runs("close") THEN [j \in {"J1", "J2", "J3"} |-> Close!Place(j)] ELSE NoPlaces({"J1", "J2", "J3"})

DeadJobsA ==
  INSTANCE JobLife WITH
    Jobs <- {"J1", "J2"}, Consumers <- {"C1", "C2"}, New <- "new", Waiting <- "waiting", Finished <- "done",
    list <- IF Runs("dead") THEN world.sim["A"].lst ELSE <<>>,
    place <- IF Runs("dead") THEN [j \in {"J1", "J2"} |-> Dead!Place("A", j)] ELSE NoPlaces({"J1", "J2"})

DeadJobsB ==
  INSTANCE JobLife WITH
    Jobs <- {"J1", "J2"}, Consumers <- {"C1", "C2"}, New <- "new", Waiting <- "waiting", Finished <- "done",
    list <- IF Runs("dead") THEN world.sim["B"].lst ELSE <<>>,
    place <- IF Runs("dead") THEN [j \in {"J1", "J2"} |-> Dead!Place("B", j)] ELSE NoPlaces({"J1", "J2"})

-----------------------------------------------------------------------------
(* Properties: those of Drawings, and of the stories by their names there. *)

(* Every story moves its jobs as JobLife allows: the list, what is held    *)
(* and what is done never disagree, jobs are taken from the head and come  *)
(* back to the front in a block, whatever wakes, sweeps, deaths and closes *)
(* there are (simulate, sim and build of gen_*.py; STORYBOARD.md: "an item *)
(* is in exactly one of {list, pending, done} at every keyframe").         *)
KeepsJobs == AckJobs!Spec /\ WakeJobs!Spec /\ CloseJobs!Spec /\ DeadJobsA!Spec /\ DeadJobsB!Spec

(* A job's square makes its moves one after the other, although different  *)
(* statements write them (AckStory.MovesInOrder of gen_ack.py,             *)
(* CloseStory.MovesInTurn of gen_close.py).                                *)
SquaresMoveInOrder ==
  /\ gen = "ack" => Ack!MovesInOrder
  /\ gen = "close" => Close!MovesInTurn

(* The deadline bars are full at the deadline and part full at an ack, and *)
(* B is late from its deadline to the first sweep after it                 *)
(* (AckStory.BarsTellDeadlines and LateTellsSweep, of gen_ack.py).         *)
AckDeadlinesTold == gen = "ack" => Ack!BarsTellDeadlines /\ Ack!LateTellsSweep

(* No item waits for a nudge while a consumer is free, and the loop ends   *)
(* with every job done and every consumer in :idle                         *)
(* (WakeStory.ServedAtOnce and EndsCalm, of gen_wake.py).                  *)
WakeServes == gen = "wake" => Wake!ServedAtOnce /\ Wake!EndsCalm

(* A consumer with a job is not in :idle, and the chips and the labels by  *)
(* them tell who is (WakeStory.StaysOut, ChipsTellIdle and LabelsApart, of *)
(* gen_wake.py).                                                           *)
WakeIdleTold == gen = "wake" => Wake!StaysOut /\ Wake!ChipsTellIdle /\ Wake!LabelsApart

(* A closed consumer is not in :idle and in the end holds no job           *)
(* (CloseStory.ClosedLetsGo, of gen_close.py).                             *)
CloseClosedLetsGo == gen = "close" => Close!ClosedLetsGo

(* Status text, chips and bars are right once they had time to change: the *)
(* text is the last state's, a chip where its consumer is, a bar full      *)
(* exactly when its run was acknowledged (CloseStory.StatusTold, ChipTells *)
(* and BarsTellRuns, of gen_close.py).                                     *)
CloseShown == gen = "close" => Close!StatusTold /\ Close!ChipTells /\ Close!BarsTellRuns

(* A dead consumer's jobs are back in the list in time                     *)
(* (DeadStory.DeadInTime, of gen_dead.py).                                 *)
DeadDeadInTime == gen = "dead" => Dead!DeadInTime

(* No sweep takes a live consumer for dead, none stalls                    *)
(* (DeadStory.LiveKept, of gen_dead.py).                                   *)
DeadLiveKept == gen = "dead" => Dead!LiveKept

(* Of the texts at one place the current one is shown, and a job's square  *)
(* is where the job is, in drawn time too (DeadStory.CaptionsTell and      *)
(* JobsDrawn, of gen_dead.py).                                             *)
DeadShown == gen = "dead" => Dead!CaptionsTell /\ Dead!JobsDrawn

=============================================================================
