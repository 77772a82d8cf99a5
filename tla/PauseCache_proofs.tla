-------------------------- MODULE PauseCache_proofs --------------------------
(***************************************************************************)
(* Every change of the cached pause reaches the OnPauseChange hooks, and   *)
(* when nothing is on its way the cached pause agrees with the key, for    *)
(* any number of calls, messages and faults (PauseCache).                  *)
(***************************************************************************)
EXTENDS PauseCache, SequenceTheorems, TLAPS

(* What the argument needs of the state's shape: every thread has a frame  *)
(* and pauseLoop a next step.                                              *)
Frames == DOMAIN thread = Threads /\ "at" \in DOMAIN loop

HookInv == Frames /\ HookOwed

(* A step that leaves the cache, the kick and what the hooks were told     *)
(* alone, and neither takes pauseLoop back to its wait nor a kick from a   *)
(* thread, owes the hooks what was owed before.                            *)
LEMMA StillOwed ==
  ASSUME HookOwed, UNCHANGED <<paused, told, kick>>,
         loop.at # "wait" => loop'.at # "wait",
         \A t \in Threads : At(t, "kick") => At(t, "kick")'
  PROVE  HookOwed'
BY DEF HookOwed

(* No goroutine's step loses a frame.                                      *)
LEMMA FramesStep == ASSUME Frames, [Next]_vars PROVE Frames'
<1> USE DEF Frames, Enter, Becomes, Ends, clientVars, loopVars
<1>1. CASE UNCHANGED vars BY <1>1 DEF vars
<1>2. CASE Remote \/ Lose \/ \E m \in Messages : Forge(m)
  BY <1>2 DEF Remote, Lose, Forge
<1>3. ASSUME NEW t \in Askers, Ask(t) \/ Answer(t) \/ NoAnswer(t) \/ Check(t)
      PROVE  Frames'
  BY <1>3 DEF Ask, Answer, NoAnswer, Check
<1>4. CASE (\E v \in BOOLEAN : BeginCall(v)) \/ RunCall \/ FailCall \/ Receive \/ Mark
  BY <1>4 DEF BeginCall, RunCall, FailCall, Receive, Mark
<1>5. ASSUME NEW t \in Threads, Bump(t) \/ Set(t) \/ Kick(t) PROVE Frames'
  BY <1>5 DEF Bump, Set, Kick
<1>6. CASE Loop \/ LoopError
  BY <1>6 DEF Loop, LoopTake, LoopRecheck, LoopLoad, LoopAsk, LoopVerify,
              LoopStore, LoopTell, LoopError
<1> QED BY <1>1, <1>2, <1>3, <1>4, <1>5, <1>6 DEF Next, Threads

(* No step leaves a change without a kick, a running loop or a thread      *)
(* about to kick.                                                          *)
LEMMA HookStep == ASSUME HookInv, [Next]_vars PROVE HookOwed'
<1> USE DEF HookInv, Frames, Enter, Threads, Setters, At, Becomes, Ends
<1>1. CASE UNCHANGED vars BY <1>1, StillOwed DEF vars, clientVars, loopVars
<1>2. CASE Remote \/ Lose \/ \E m \in Messages : Forge(m)
  BY <1>2, StillOwed DEF Remote, Lose, Forge, clientVars, loopVars
<1>3. ASSUME NEW t \in Askers, Ask(t) \/ Answer(t) \/ NoAnswer(t) \/ Check(t)
      PROVE  HookOwed'
  BY <1>3, StillOwed DEF Ask, Answer, NoAnswer, Check, clientVars, loopVars
<1>4. CASE (\E v \in BOOLEAN : BeginCall(v)) \/ RunCall \/ FailCall \/ Receive \/ Mark
  BY <1>4, StillOwed DEF BeginCall, RunCall, FailCall, Receive, Mark, clientVars, loopVars
<1>5. ASSUME NEW t \in Setters, Bump(t) PROVE HookOwed'
  BY <1>5, StillOwed DEF Bump, loopVars
<1>6. ASSUME NEW t \in Threads, Set(t) PROVE HookOwed'
  <2>1. CASE paused = thread[t].val BY <1>6, <2>1, StillOwed DEF Set, loopVars
  <2>2. CASE paused # thread[t].val BY <1>6, <2>2 DEF Set, HookOwed
  <2> QED BY <2>1, <2>2
<1>7. ASSUME NEW t \in Threads, Kick(t) PROVE HookOwed' BY <1>7 DEF Kick, HookOwed
<1>8. CASE Loop
  <2>1. CASE LoopTake BY <2>1 DEF LoopTake, HookOwed
  <2>2. CASE LoopStore BY <2>2 DEF LoopStore, HookOwed
  <2>3. CASE LoopTell BY <2>3 DEF LoopTell, HookOwed, clientVars
  <2>4. CASE LoopRecheck \/ LoopLoad \/ LoopAsk \/ LoopVerify
    BY <2>4 DEF LoopRecheck, LoopLoad, LoopAsk, LoopVerify, HookOwed
  <2> QED BY <1>8, <2>1, <2>2, <2>3, <2>4 DEF Loop
<1>9. CASE LoopError BY <1>9 DEF LoopError, HookOwed
<1> QED BY <1>1, <1>2, <1>3, <1>4, <1>5, <1>6, <1>7, <1>8, <1>9 DEF Next

(* No change of the cached pause is kept from the OnPauseChange hooks      *)
(* (setPaused, kickPause, pauseLoop), however the goroutines interleave    *)
(* and however many calls, messages and faults there are.                  *)
THEOREM HooksAreTold == Spec => []HookOwed
<1>1. Init => HookInv
  BY DEF Init, HookInv, Frames, HookOwed, Enter
<1>2. HookInv /\ [Next]_vars => HookInv'
  BY FramesStep, HookStep DEF HookInv
<1>3. HookInv => HookOwed BY DEF HookInv
<1> QED BY <1>1, <1>2, <1>3, PTL DEF Spec

-----------------------------------------------------------------------------
(* The state's shape, and the bound on gen.                                *)

AskerSteps == {"idle", "sent", "check", "bump", "mark", "set", "kick"}
LoopSteps == {"wait", "taken", "load", "ask", "verify", "store", "tell"}

(* The moves of gen still to come: one for each message on its way or in   *)
(* the reader's hands, one for a call whose script has run, and two for a  *)
(* call whose script has not.                                              *)
InHand == IF At("reader", "bump") THEN 1 ELSE 0
OfCall == IF At("call", "sent") THEN 2 ELSE IF At("call", "bump") THEN 1 ELSE 0
Coming == Len(msgs) + InHand + OfCall

TypeInv == TypeOK /\ gen + Coming <= 2 * calls + remote + faults

(* A message appended or taken.                                            *)
LEMMA MessageFacts ==
  ASSUME NEW q \in Seq(Messages)
  PROVE  /\ Len(q) \in Nat
         /\ \A m \in Messages : /\ Append(q, m) \in Seq(Messages)
                                /\ Len(Append(q, m)) = Len(q) + 1
                                /\ Append(q, m) # <<>>
                                /\ Append(q, m)[Len(q) + 1] = m
         /\ q # <<>> => /\ Tail(q) \in Seq(Messages)
                        /\ Len(Tail(q)) = Len(q) - 1
                        /\ Head(q) \in Messages /\ Head(q) = q[1]
                        /\ \A i \in 1..Len(q) - 1 : Tail(q)[i] = q[i + 1]
                        /\ Len(q) > 0
                        /\ Tail(q) = <<>> => Len(q) = 1
         /\ q = <<>> => Len(q) = 0
<1>1. Len(q) \in Nat /\ (q = <<>> <=> Len(q) = 0)
  BY LenProperties, EmptySeq
<1>2. ASSUME NEW m \in Messages
      PROVE  /\ Append(q, m) \in Seq(Messages) /\ Len(Append(q, m)) = Len(q) + 1
             /\ Append(q, m) # <<>> /\ Append(q, m)[Len(q) + 1] = m
  BY AppendProperties
<1>3. ASSUME q # <<>>
      PROVE  /\ Tail(q) \in Seq(Messages) /\ Len(Tail(q)) = Len(q) - 1
             /\ Head(q) \in Messages /\ Head(q) = q[1]
             /\ \A i \in 1..Len(q) - 1 : Tail(q)[i] = q[i + 1]
             /\ Len(q) > 0
             /\ Tail(q) = <<>> => Len(q) = 1
  <2>1. /\ Tail(q) \in Seq(Messages) /\ Len(Tail(q)) = Len(q) - 1
        /\ Head(q) \in Messages
        /\ \A i \in 1..Len(Tail(q)) : Tail(q)[i] = q[i + 1]
    BY <1>3, HeadTailProperties
  <2>2. Head(q) = q[1] OBVIOUS
  <2>3. Tail(q) = <<>> => Len(Tail(q)) = 0 BY EmptySeq
  <2> QED BY <1>1, <1>3, <2>1, <2>2, <2>3
<1> QED BY <1>1, <1>2, <1>3

(* While TypeInv holds gen has not passed its bound, and a thread's frame  *)
(* can be replaced by any frame.                                           *)
LEMMA TypeFacts ==
  ASSUME TypeInv
  PROVE  /\ MaxGen \in Nat /\ gen \in Nat /\ Len(msgs) \in Nat
         /\ calls \in Nat /\ remote \in Nat /\ faults \in Nat
         /\ Coming \in Nat /\ InHand \in Nat /\ OfCall \in Nat
         /\ gen + Coming <= MaxGen
         /\ \A t \in Threads : /\ thread[t].at \in AskerSteps
                               /\ thread[t].gen \in 0..MaxGen
                               /\ thread[t].val \in BOOLEAN
         /\ \A step \in AskerSteps, g \in 0..MaxGen, v \in BOOLEAN, t \in Threads :
              [thread EXCEPT ![t] = [at |-> step, gen |-> g, val |-> v]]
                \in [Threads -> Frame(AskerSteps)]
<1>1. /\ gen \in Nat /\ Len(msgs) \in Nat
      /\ calls \in Nat /\ remote \in Nat /\ faults \in Nat
  BY MessageFacts DEF TypeInv, TypeOK
<1>2. MaxGen \in Nat
  BY PauseAssumption DEF MaxGen
<1>3. Coming \in Nat /\ InHand \in Nat /\ OfCall \in Nat
  <2>1. InHand \in Nat /\ OfCall \in Nat
    BY DEF InHand, OfCall
  <2> QED BY <1>1, <2>1 DEF Coming
<1>4. gen + Coming <= MaxGen
  BY <1>1, <1>3, PauseAssumption DEF TypeInv, TypeOK, MaxGen
<1>5. thread \in [Threads -> Frame(AskerSteps)]
  BY DEF TypeInv, TypeOK, AskerSteps
<1> QED BY <1>1, <1>2, <1>3, <1>4, <1>5 DEF Frame

(* A thread that gets a frame, and a frame that is new.                    *)
LEMMA FrameFacts ==
  ASSUME TypeInv, NEW t \in Threads
  PROVE  /\ \A f \in Frame(AskerSteps) : Becomes(t, f) => thread' \in [Threads -> Frame(AskerSteps)]
         /\ Ends(t) => thread' \in [Threads -> Frame(AskerSteps)]
         /\ Enter("kick") \in Frame(AskerSteps)
         /\ \A step \in AskerSteps, g \in 0..MaxGen, v \in BOOLEAN :
              [at |-> step, gen |-> g, val |-> v] \in Frame(AskerSteps)
<1>1. thread \in [Threads -> Frame(AskerSteps)]
  BY DEF TypeInv, TypeOK, AskerSteps
<1>2. \A f \in Frame(AskerSteps) : Becomes(t, f) => thread' \in [Threads -> Frame(AskerSteps)]
  BY <1>1 DEF Becomes
<1>3. 0 \in 0..MaxGen
  BY TypeFacts
<1>4. /\ Enter("kick") \in Frame(AskerSteps) /\ Enter("idle") \in Frame(AskerSteps)
  BY <1>3 DEF Enter, Frame, AskerSteps
<1>5. \A step \in AskerSteps, g \in 0..MaxGen, v \in BOOLEAN :
        [at |-> step, gen |-> g, val |-> v] \in Frame(AskerSteps)
  BY DEF Frame
<1> QED BY <1>2, <1>4, <1>5 DEF Ends

(* No step of the key, of its messages or of a fault breaks the shape.     *)
LEMMA RemoteType ==
  ASSUME TypeInv, Remote \/ Lose \/ \E m \in Messages : Forge(m)
  PROVE  TypeInv'
<1> DEFINE all == 2 * calls + remote + faults
<1>0. /\ TypeOK /\ gen + Coming <= all /\ gen \in Nat /\ Len(msgs) \in Nat
      /\ Coming \in Nat /\ InHand \in Nat /\ OfCall \in Nat
      /\ calls \in Nat /\ remote \in Nat /\ faults \in Nat
  BY TypeFacts DEF TypeInv
<1>1. CASE Remote
  <2>1. msgs' \in Seq(Messages) /\ Len(msgs') = Len(msgs) + 1 /\ key' \in BOOLEAN
    BY <1>1, <1>0, MessageFacts DEF Remote, Script, TypeOK, Messages
  <2>2. TypeOK'
    BY <1>1, <2>1, <1>0, PauseAssumption DEF Remote, TypeOK, clientVars, loopVars
  <2>3. Coming' = Coming + 1
    <3>1. InHand' = InHand /\ OfCall' = OfCall
      BY <1>1 DEF Remote, InHand, OfCall, At
    <3> QED BY <2>1, <3>1, <1>0 DEF Coming
  <2> QED BY <1>1, <2>2, <2>3, <1>0 DEF TypeInv, Remote, clientVars
<1>2. CASE Lose
  <2>1. msgs' \in Seq(Messages) /\ Len(msgs') = Len(msgs) - 1
    BY <1>2, <1>0, MessageFacts DEF Lose, TypeOK
  <2>2. TypeOK'
    BY <1>2, <2>1, <1>0, PauseAssumption DEF Lose, Fault, TypeOK, clientVars, loopVars
  <2>3. Coming' = Coming - 1
    <3>1. InHand' = InHand /\ OfCall' = OfCall
      BY <1>2 DEF Lose, InHand, OfCall, At
    <3> QED BY <2>1, <3>1, <1>0 DEF Coming
  <2> QED BY <1>2, <2>2, <2>3, <1>0 DEF TypeInv, Lose, Fault, clientVars
<1>3. ASSUME NEW m \in Messages, Forge(m) PROVE TypeInv'
  <2>1. msgs' \in Seq(Messages) /\ Len(msgs') = Len(msgs) + 1
    BY <1>3, <1>0, MessageFacts DEF Forge, TypeOK
  <2>2. TypeOK'
    BY <1>3, <2>1, <1>0, PauseAssumption DEF Forge, Fault, TypeOK, clientVars, loopVars
  <2>3. Coming' = Coming + 1
    <3>1. InHand' = InHand /\ OfCall' = OfCall
      BY <1>3 DEF Forge, InHand, OfCall, At
    <3> QED BY <2>1, <3>1, <1>0 DEF Coming
  <2> QED BY <1>3, <2>2, <2>3, <1>0 DEF TypeInv, Forge, Fault, clientVars
<1> QED BY <1>1, <1>2, <1>3

(* A pop's or a sweep's steps keep the shape.                              *)
LEMMA AskerType ==
  ASSUME TypeInv, NEW t \in Askers, Ask(t) \/ Answer(t) \/ NoAnswer(t) \/ Check(t)
  PROVE  TypeInv'
<1> DEFINE all == 2 * calls + remote + faults
<1>0. /\ TypeOK /\ gen + Coming <= all /\ gen \in Nat /\ Len(msgs) \in Nat
      /\ Coming \in Nat /\ InHand \in Nat /\ OfCall \in Nat
      /\ calls \in Nat /\ remote \in Nat /\ faults \in Nat /\ MaxGen \in Nat
      /\ gen \in 0..MaxGen /\ 0 \in 0..MaxGen
  BY TypeFacts DEF TypeInv
<1>1. t \in Threads /\ t # "reader" /\ t # "call"
  BY PauseAssumption DEF Threads
<1>2. /\ thread[t].gen \in 0..MaxGen /\ thread[t].val \in BOOLEAN /\ key \in BOOLEAN
      /\ DOMAIN thread = Threads
  BY <1>0, <1>1, TypeFacts DEF TypeOK
<1>3. thread' \in [Threads -> Frame(AskerSteps)]
  <2>1. /\ "sent" \in AskerSteps /\ "check" \in AskerSteps /\ "set" \in AskerSteps
        /\ FALSE \in BOOLEAN
    BY DEF AskerSteps
  <2>2. CASE Ask(t) BY <1>0, <1>1, <2>1, <2>2, FrameFacts DEF Ask
  <2>3. CASE Answer(t) BY <1>1, <1>2, <2>1, <2>3, FrameFacts DEF Answer
  <2>4. CASE NoAnswer(t) BY <1>1, <2>4, FrameFacts DEF NoAnswer
  <2>5. CASE Check(t) BY <1>0, <1>1, <1>2, <2>1, <2>5, FrameFacts DEF Check
  <2> QED BY <2>2, <2>3, <2>4, <2>5
<1>4. UNCHANGED <<key, msgs, paused, gen, kick, recheck, loop, told, calls, remote>>
  BY DEF Ask, Answer, NoAnswer, Check, Fault, clientVars, loopVars, bounds
<1>5. faults' \in 0..MaxFaults /\ faults' >= faults /\ missed' \in BOOLEAN
  BY <1>0, PauseAssumption DEF Ask, Answer, NoAnswer, Check, Fault, bounds, TypeOK
<1>6. TypeOK'
  BY <1>0, <1>3, <1>4, <1>5 DEF TypeOK, AskerSteps
<1>7. thread'["reader"] = thread["reader"] /\ thread'["call"] = thread["call"]
  BY <1>1, <1>2 DEF Ask, Answer, NoAnswer, Check, Ends, Becomes, Threads, Setters
<1>8. InHand' = InHand /\ OfCall' = OfCall
  BY <1>7 DEF InHand, OfCall, At
<1> QED BY <1>0, <1>4, <1>5, <1>6, <1>8 DEF TypeInv, Coming

(* A Pause's or Resume's steps, and the reader's first, keep the shape.    *)
LEMMA CallType ==
  ASSUME TypeInv, (\E v \in BOOLEAN : BeginCall(v)) \/ RunCall \/ FailCall \/ Receive \/ Mark
  PROVE  TypeInv'
<1> DEFINE all == 2 * calls + remote + faults
<1>0. /\ TypeOK /\ gen + Coming <= all /\ gen \in Nat /\ Len(msgs) \in Nat
      /\ Coming \in Nat /\ InHand \in Nat /\ OfCall \in Nat
      /\ calls \in Nat /\ remote \in Nat /\ faults \in Nat /\ MaxGen \in Nat
      /\ gen \in 0..MaxGen /\ 0 \in 0..MaxGen
  BY TypeFacts DEF TypeInv
<1>1. /\ "call" \in Threads /\ "reader" \in Threads /\ DOMAIN thread = Threads
      /\ key \in BOOLEAN /\ msgs \in Seq(Messages) /\ thread["call"].val \in BOOLEAN
  BY <1>0, TypeFacts DEF Threads, Setters, TypeOK
<1>2. ASSUME NEW t \in Threads, NEW step \in AskerSteps, NEW g \in 0..MaxGen,
             NEW v \in BOOLEAN
      PROVE  [thread EXCEPT ![t] = [at |-> step, gen |-> g, val |-> v]]
               \in [Threads -> Frame(AskerSteps)]
  BY TypeFacts
<1>3. ASSUME NEW v \in BOOLEAN, BeginCall(v) PROVE TypeInv'
  <2>1. thread' \in [Threads -> Frame(AskerSteps)]
    BY <1>0, <1>1, <1>2, <1>3 DEF BeginCall, Becomes, AskerSteps
  <2>2. TypeOK'
    BY <1>0, <1>3, <2>1, PauseAssumption DEF BeginCall, TypeOK, AskerSteps, clientVars, loopVars
  <2>3. OfCall' = 2 /\ OfCall = 0 /\ InHand' = InHand
    BY <1>1, <1>3 DEF BeginCall, Becomes, At, OfCall, InHand
  <2>4. msgs' = msgs /\ gen' = gen /\ calls' = calls + 1 /\ remote' = remote /\ faults' = faults
    BY <1>3 DEF BeginCall, clientVars
  <2> QED BY <1>0, <2>2, <2>3, <2>4 DEF TypeInv, Coming
<1>4. ASSUME NEW v \in BOOLEAN, Script(v)
      PROVE  /\ msgs' \in Seq(Messages) /\ Len(msgs') \in Nat /\ Len(msgs') <= Len(msgs) + 1
             /\ key' \in BOOLEAN
  BY <1>0, <1>1, <1>4, MessageFacts DEF Script, Messages
<1>5. CASE RunCall
  <2>1. thread' \in [Threads -> Frame(AskerSteps)]
    BY <1>0, <1>1, <1>2, <1>5 DEF RunCall, Becomes, AskerSteps
  <2>2. /\ msgs' \in Seq(Messages) /\ Len(msgs') \in Nat /\ Len(msgs') <= Len(msgs) + 1
        /\ key' \in BOOLEAN
    BY <1>1, <1>4, <1>5 DEF RunCall
  <2>3. TypeOK'
    BY <1>0, <1>5, <2>1, <2>2 DEF RunCall, TypeOK, AskerSteps, clientVars, loopVars, bounds
  <2>4. OfCall' = 1 /\ OfCall = 2 /\ InHand' = InHand
    BY <1>1, <1>5 DEF RunCall, Becomes, At, OfCall, InHand
  <2>5. gen' = gen /\ calls' = calls /\ remote' = remote /\ faults' = faults
    BY <1>5 DEF RunCall, clientVars, bounds
  <2> QED BY <1>0, <2>2, <2>3, <2>4, <2>5 DEF TypeInv, Coming
<1>6. CASE FailCall
  <2>1. thread' \in [Threads -> Frame(AskerSteps)]
    BY <1>0, <1>1, <1>2, <1>6 DEF FailCall, Ends, Enter, Becomes, AskerSteps
  <2>2. /\ msgs' \in Seq(Messages) /\ Len(msgs') \in Nat /\ Len(msgs') <= Len(msgs) + 1
        /\ key' \in BOOLEAN
    <3>1. CASE Script(thread["call"].val) BY <1>1, <1>4, <3>1
    <3>2. CASE UNCHANGED <<key, msgs>> BY <1>0, <1>1, <3>2
    <3> QED BY <1>6, <3>1, <3>2 DEF FailCall
  <2>3. TypeOK'
    BY <1>0, <1>6, <2>1, <2>2, PauseAssumption
       DEF FailCall, Fault, TypeOK, AskerSteps, clientVars, loopVars
  <2>4. OfCall' = 0 /\ OfCall = 2 /\ InHand' = InHand
    BY <1>1, <1>6 DEF FailCall, Ends, Enter, Becomes, At, OfCall, InHand
  <2>5. gen' = gen /\ calls' = calls /\ remote' = remote /\ faults' = faults + 1
    BY <1>6 DEF FailCall, Fault, clientVars
  <2> QED BY <1>0, <2>2, <2>3, <2>4, <2>5 DEF TypeInv, Coming
<1>7. CASE Receive
  <2>1. thread' \in [Threads -> Frame(AskerSteps)]
    BY <1>0, <1>1, <1>2, <1>7 DEF Receive, Becomes, AskerSteps
  <2>2. msgs' \in Seq(Messages) /\ Len(msgs') = Len(msgs) - 1
    BY <1>1, <1>7, MessageFacts DEF Receive
  <2>3. TypeOK'
    BY <1>0, <1>7, <2>1, <2>2 DEF Receive, TypeOK, AskerSteps, clientVars, loopVars, bounds
  <2>4. InHand' = 1 /\ InHand = 0 /\ OfCall' = OfCall
    BY <1>1, <1>7 DEF Receive, Becomes, At, OfCall, InHand
  <2>5. gen' = gen /\ calls' = calls /\ remote' = remote /\ faults' = faults
    BY <1>7 DEF Receive, clientVars, bounds
  <2> QED BY <1>0, <2>2, <2>3, <2>4, <2>5 DEF TypeInv, Coming
<1>8. CASE Mark
  <2>1. thread' \in [Threads -> Frame(AskerSteps)]
    BY <1>0, <1>1, <1>2, <1>8 DEF Mark, Becomes, Enter, AskerSteps
  <2>2. TypeOK'
    BY <1>0, <1>8, <2>1 DEF Mark, TypeOK, AskerSteps, loopVars, bounds
  <2>3. InHand' = 0 /\ InHand = 0 /\ OfCall' = OfCall
    BY <1>1, <1>8 DEF Mark, Becomes, Enter, At, OfCall, InHand
  <2>4. msgs' = msgs /\ gen' = gen /\ calls' = calls /\ remote' = remote /\ faults' = faults
    BY <1>8 DEF Mark, bounds
  <2> QED BY <1>0, <2>2, <2>3, <2>4 DEF TypeInv, Coming
<1> QED BY <1>3, <1>5, <1>6, <1>7, <1>8

(* A thread's bump, set and kick keep the shape.                           *)
LEMMA SetterType ==
  ASSUME TypeInv, NEW t \in Threads, (t \in Setters /\ Bump(t)) \/ Set(t) \/ Kick(t)
  PROVE  TypeInv'
<1> DEFINE all == 2 * calls + remote + faults
<1>0. /\ TypeOK /\ gen + Coming <= all /\ gen \in Nat /\ Len(msgs) \in Nat
      /\ Coming \in Nat /\ InHand \in Nat /\ OfCall \in Nat
      /\ calls \in Nat /\ remote \in Nat /\ faults \in Nat /\ MaxGen \in Nat
      /\ gen \in 0..MaxGen /\ 0 \in 0..MaxGen
  BY TypeFacts DEF TypeInv
<1>1. /\ thread[t].gen \in 0..MaxGen /\ thread[t].val \in BOOLEAN
      /\ DOMAIN thread = Threads /\ thread[t] \in Frame(AskerSteps)
      /\ thread \in [Threads -> Frame(AskerSteps)]
      /\ gen + Coming <= MaxGen
  BY <1>0, TypeFacts DEF TypeOK, AskerSteps
<1>2. CASE t \in Setters /\ Bump(t)
  <2>1. thread' \in [Threads -> Frame(AskerSteps)]
    BY <1>1, <1>2 DEF Bump, AskerSteps, Frame
  <2>2. /\ msgs' = msgs /\ gen' = gen + 1 /\ calls' = calls /\ remote' = remote
        /\ faults' = faults
    BY <1>2 DEF Bump, bounds
  <2>3. InHand' + OfCall' = (InHand + OfCall) - 1
    <3>1. CASE t = "reader"
      <4>1. InHand' = 0 /\ InHand = 1 /\ OfCall' = OfCall
        BY <1>1, <1>2, <3>1 DEF Bump, At, OfCall, InHand, Threads, Setters
      <4> QED BY <1>0, <4>1
    <3>2. CASE t = "call"
      <4>1. OfCall' = 0 /\ OfCall = 1 /\ InHand' = InHand
        BY <1>1, <1>2, <3>2 DEF Bump, At, OfCall, InHand, Threads, Setters
      <4> QED BY <1>0, <4>1
    <3> QED BY <1>2, <3>1, <3>2 DEF Setters
  <2>4. OfCall' \in Nat /\ InHand' \in Nat
    BY DEF OfCall, InHand
  <2>5. Coming' = Coming - 1
    <3>1. Coming' = Len(msgs) + (InHand' + OfCall')
      BY <1>0, <2>2, <2>4 DEF Coming
    <3>2. Coming = Len(msgs) + (InHand + OfCall)
      BY <1>0 DEF Coming
    <3>3. Len(msgs) \in Nat /\ InHand \in Nat /\ OfCall \in Nat
      BY <1>0
    <3> QED BY <2>3, <3>1, <3>2, <3>3
  <2>6. gen' \in 0..MaxGen
    <3>1. Coming' \in Nat
      BY <1>0, <2>2, <2>4 DEF Coming
    <3> QED BY <1>0, <1>1, <2>2, <2>5, <3>1
  <2>7. TypeOK'
    BY <1>0, <1>2, <2>1, <2>6 DEF Bump, TypeOK, AskerSteps, loopVars, bounds
  <2> QED BY <1>0, <2>2, <2>5, <2>7 DEF TypeInv
<1>3. CASE Set(t) \/ Kick(t)
  <2>1. thread' \in [Threads -> Frame(AskerSteps)]
    BY <1>3, FrameFacts DEF Set, Kick
  <2>2. /\ msgs' = msgs /\ gen' = gen /\ calls' = calls /\ remote' = remote
        /\ faults' = faults
    BY <1>3 DEF Set, Kick, bounds
  <2>3. TypeOK'
    BY <1>0, <1>1, <1>3, <2>1 DEF Set, Kick, TypeOK, AskerSteps, loopVars, bounds
  <2>4. InHand' = InHand /\ OfCall' = OfCall
    BY <1>1, <1>3 DEF Set, Kick, Ends, Becomes, Enter, At, OfCall, InHand, Threads, Setters
  <2> QED BY <1>0, <2>2, <2>3, <2>4 DEF TypeInv, Coming
<1> QED BY <1>2, <1>3

(* pauseLoop's steps keep the shape.                                       *)
LEMMA LoopType == ASSUME TypeInv, Loop \/ LoopError PROVE TypeInv'
<1> DEFINE all == 2 * calls + remote + faults
<1>0. /\ TypeOK /\ gen + Coming <= all /\ gen \in Nat /\ Len(msgs) \in Nat
      /\ Coming \in Nat /\ InHand \in Nat /\ OfCall \in Nat
      /\ calls \in Nat /\ remote \in Nat /\ faults \in Nat /\ MaxGen \in Nat
      /\ gen \in 0..MaxGen /\ 0 \in 0..MaxGen
  BY TypeFacts DEF TypeInv
<1>1. /\ loop \in Frame(LoopSteps) /\ key \in BOOLEAN /\ loop.gen \in 0..MaxGen
      /\ loop.val \in BOOLEAN /\ paused \in BOOLEAN
  BY <1>0 DEF TypeOK, LoopSteps, Frame
<1>2. loop' \in Frame(LoopSteps)
  <2>1. Enter("taken") \in Frame(LoopSteps) /\ Enter("load") \in Frame(LoopSteps)
        /\ Enter("tell") \in Frame(LoopSteps) /\ Enter("wait") \in Frame(LoopSteps)
    BY <1>0 DEF Enter, LoopSteps, Frame
  <2>2. CASE LoopTake \/ LoopRecheck \/ LoopError \/ LoopStore \/ LoopTell
    BY <2>1, <2>2 DEF LoopTake, LoopRecheck, LoopError, LoopStore, LoopTell
  <2>3. CASE LoopLoad
    BY <1>0, <2>3 DEF LoopLoad, LoopSteps, Frame
  <2>4. CASE LoopAsk
    BY <1>1, <2>4 DEF LoopAsk, LoopSteps, Frame
  <2>5. CASE LoopVerify
    BY <1>1, <2>1, <2>5 DEF LoopVerify, LoopSteps, Frame
  <2> QED BY <2>2, <2>3, <2>4, <2>5 DEF Loop
<1>3. /\ UNCHANGED <<key, msgs, gen, thread, calls, remote>>
      /\ paused' \in BOOLEAN /\ kick' \in BOOLEAN /\ recheck' \in BOOLEAN
      /\ told' \in BOOLEAN /\ missed' \in BOOLEAN
      /\ faults' \in 0..MaxFaults /\ faults' >= faults
  <2>1. CASE LoopTake
    <3>1. UNCHANGED <<key, msgs, gen, thread, bounds, paused, recheck, told, missed>> /\ kick' \in BOOLEAN
      BY <2>1 DEF LoopTake
    <3>2. faults \in 0..MaxFaults /\ faults >= faults
      BY <1>0 DEF TypeOK
    <3> QED BY <1>0, <3>1, <3>2 DEF bounds, TypeOK
  <2>6. CASE LoopRecheck
    <3>1. UNCHANGED <<key, msgs, gen, thread, bounds, paused, kick, told, missed>> /\ recheck' \in BOOLEAN
      BY <2>6 DEF LoopRecheck
    <3>2. faults \in 0..MaxFaults /\ faults >= faults
      BY <1>0 DEF TypeOK
    <3> QED BY <1>0, <3>1, <3>2 DEF bounds, TypeOK
  <2>4. CASE LoopLoad \/ LoopAsk
    BY <1>0, <2>4, PauseAssumption DEF LoopLoad, LoopAsk, clientVars, bounds, TypeOK
  <2>5. CASE LoopVerify \/ LoopTell
    BY <1>0, <2>5, PauseAssumption DEF LoopVerify, LoopTell, clientVars, bounds, TypeOK
  <2>2. CASE LoopStore
    BY <1>0, <1>1, <2>2, PauseAssumption DEF LoopStore, bounds, TypeOK
  <2>3. CASE LoopError
    BY <1>0, <1>1, <2>3, PauseAssumption DEF LoopError, Fault, clientVars, TypeOK
  <2> QED BY <2>1, <2>2, <2>3, <2>4, <2>5, <2>6 DEF Loop
<1>4. TypeOK'
  BY <1>0, <1>2, <1>3 DEF TypeOK, LoopSteps
<1>5. InHand' = InHand /\ OfCall' = OfCall
  BY <1>3 DEF InHand, OfCall, At
<1> QED BY <1>0, <1>3, <1>4, <1>5 DEF TypeInv, Coming

LEMMA TypeStep == ASSUME TypeInv, [Next]_vars PROVE TypeInv'
<1>1. CASE UNCHANGED vars
  BY <1>1 DEF vars, clientVars, loopVars, bounds, TypeInv, TypeOK, Coming, InHand, OfCall, At
<1> QED BY <1>1, RemoteType, AskerType, CallType, SetterType, LoopType DEF Next, Threads

(* The initial state has the shape.                                        *)
LEMMA PauseTypesInit == ASSUME Init PROVE TypeInv
<1>1. 0 \in 0..MaxGen /\ 0 \in 0..MaxCalls /\ 0 \in 0..MaxRemote /\ 0 \in 0..MaxFaults
  BY PauseAssumption DEF MaxGen
<1>2. /\ Enter("idle") \in Frame({"idle", "sent", "check", "bump", "mark", "set", "kick"})
      /\ Enter("wait") \in Frame({"wait", "taken", "load", "ask", "verify", "store", "tell"})
  BY <1>1 DEF Enter, Frame
<1>3. msgs \in Seq(Messages) /\ Len(msgs) = 0
  BY EmptySeq DEF Init
<1>4. TypeOK
  BY <1>1, <1>2, <1>3 DEF Init, TypeOK
<1>5. InHand = 0 /\ OfCall = 0
  BY DEF Init, InHand, OfCall, At, Enter, Threads, Setters
<1> QED BY <1>3, <1>4, <1>5 DEF Init, TypeInv, Coming

(* The type invariant of the cached pause, for any bounds: in particular   *)
(* gen moves at most once for each own call and each message.              *)
THEOREM PauseTypes == Spec => []TypeOK
<1>1. Init => TypeInv
  BY PauseTypesInit
<1>2. TypeInv /\ [Next]_vars => TypeInv'
  BY TypeStep
<1>3. TypeInv => TypeOK
  BY DEF TypeInv
<1> QED BY <1>1, <1>2, <1>3, PTL DEF Spec

-----------------------------------------------------------------------------
(* Why a quiet state agrees with the key.                                  *)

(* What a goroutine goes by is never ahead of gen.                         *)
Ahead ==
  /\ \A t \in Askers : thread[t].at \in {"sent", "check", "set"} => thread[t].gen <= gen
  /\ At("call", "bump") => thread["call"].gen <= gen
  /\ At("call", "set") => thread["call"].gen + 1 <= gen
  /\ loop.at \in {"ask", "verify", "store"} => loop.gen <= gen

(* A recheck that is asked for will be done; a reader that sets the cache  *)
(* handles "resumed".                                                      *)
Shapes ==
  /\ recheck => kick \/ loop.at = "taken" \/ At("reader", "kick")
  /\ At("reader", "set") => ~thread["reader"].val

(* If the last message still to be handled says "resumed", the key is      *)
(* gone.                                                                   *)
LastResumed ==
  /\ msgs # <<>> /\ msgs[Len(msgs)] = "resumed" => ~key
  /\ msgs = <<>> /\ thread["reader"].at \in {"bump", "set"} /\ ~thread["reader"].val => ~key

(* Every message has moved gen.                                            *)
Caught == msgs = <<>> /\ ~At("reader", "bump")

(* What was read from the key, or set by a call, is still the key's state  *)
(* if gen has not moved since (but by the call itself) and every message   *)
(* has moved it.                                                           *)
ReadsFresh ==
  Caught =>
    /\ \A t \in Askers :
         thread[t].at \in {"check", "set"} /\ thread[t].gen = gen => thread[t].val = key
    /\ At("call", "bump") /\ thread["call"].gen = gen => thread["call"].val = key
    /\ At("call", "set") /\ thread["call"].gen + 1 = gen => thread["call"].val = key
    /\ loop.at \in {"verify", "store"} /\ loop.gen = gen => loop.val = key

(* A message or a call is under way; the key is about to be read again.    *)
Busy ==
  \/ msgs # <<>> \/ thread["call"].at \in {"bump", "set"}
  \/ thread["reader"].at \in {"bump", "set", "mark"}
Rechecks ==
  \/ recheck \/ loop.at = "load"
  \/ loop.at \in {"ask", "verify", "store"} /\ loop.gen = gen

Settled == Busy \/ Rechecks \/ paused = key

QuietInv ==
  /\ TypeInv /\ HookInv /\ Ahead /\ Shapes
  /\ ~missed => LastResumed /\ ReadsFresh /\ Settled

(* The frames after a thread's step.                                       *)
LEMMA Stepped ==
  ASSUME TypeInv, NEW t \in Threads, NEW f, Becomes(t, f)
  PROVE  thread'[t] = f /\ \A u \in Threads : u # t => thread'[u] = thread[u]
BY DEF TypeInv, TypeOK, Becomes

(* The threads and their numbers.                                          *)
LEMMA ThreadFacts ==
  ASSUME TypeInv
  PROVE  /\ "call" \in Threads /\ "reader" \in Threads
         /\ \A t \in Askers : t \in Threads /\ t # "call" /\ t # "reader"
         /\ \A t \in Threads : thread[t].gen \in Nat /\ thread[t].val \in BOOLEAN
         /\ gen \in Nat /\ loop.gen \in Nat /\ key \in BOOLEAN /\ DOMAIN thread = Threads
         /\ msgs \in Seq(Messages) /\ "at" \in DOMAIN loop /\ "gen" \in DOMAIN loop
         /\ loop = [at |-> loop.at, gen |-> loop.gen, val |-> loop.val]
<1>1. /\ "call" \in Threads /\ "reader" \in Threads
      /\ \A t \in Askers : t \in Threads /\ t # "call" /\ t # "reader"
  BY PauseAssumption DEF Threads, Setters
<1>2. \A t \in Threads : thread[t].gen \in Nat /\ thread[t].val \in BOOLEAN
  BY TypeFacts
<1>3. /\ loop \in Frame(LoopSteps) /\ MaxGen \in Nat
  BY TypeFacts DEF TypeInv, TypeOK, LoopSteps
<1>4. /\ loop.gen \in Nat /\ "at" \in DOMAIN loop /\ "gen" \in DOMAIN loop
      /\ loop = [at |-> loop.at, gen |-> loop.gen, val |-> loop.val]
  BY <1>3 DEF Frame
<1>5. gen \in Nat /\ key \in BOOLEAN /\ DOMAIN thread = Threads /\ msgs \in Seq(Messages)
  BY TypeFacts DEF TypeInv, TypeOK
<1> QED BY <1>1, <1>2, <1>4, <1>5

(* A script that changes the key leaves a message that says so.            *)
LEMMA ScriptFacts ==
  ASSUME TypeInv, NEW v \in BOOLEAN, Script(v)
  PROVE  /\ key' = v
         /\ key = v => msgs' = msgs
         /\ key # v => /\ msgs' # <<>>
                       /\ msgs'[Len(msgs')] = IF v THEN "paused" ELSE "resumed"
BY MessageFacts, ThreadFacts DEF Script, Messages

(* No step gets ahead of gen.                                              *)
LEMMA AheadStep == ASSUME TypeInv, Ahead, Next PROVE Ahead'
<1> USE ThreadFacts DEF At
<1>1. CASE Remote \/ Lose \/ \E m \in Messages : Forge(m)
  <2>1. UNCHANGED <<thread, gen, loop>>
    BY <1>1 DEF Remote, Lose, Forge, clientVars, loopVars
  <2> QED BY <2>1 DEF Ahead
<1>2. ASSUME NEW t \in Askers, Ask(t) \/ Answer(t) \/ NoAnswer(t) \/ Check(t) PROVE Ahead'
  <2>1. UNCHANGED <<gen, loop>>
    BY <1>2 DEF Ask, Answer, NoAnswer, Check, clientVars, loopVars
  <2>2. /\ thread'["call"] = thread["call"]
        /\ \A u \in Askers : u # t => thread'[u] = thread[u]
    BY <1>2, Stepped DEF Ask, Answer, NoAnswer, Check, Ends
  <2>3. thread'[t].at \in {"sent", "check", "set"} => thread'[t].gen <= gen
    <3>1. CASE Ask(t) BY <3>1, Stepped DEF Ask
    <3>2. CASE Answer(t) BY <3>2, Stepped DEF Answer, Ends, Enter, Ahead
    <3>3. CASE NoAnswer(t) BY <3>3, Stepped DEF NoAnswer, Ends, Enter
    <3>4. CASE Check(t) BY <3>4, Stepped DEF Check, Ends, Enter
    <3> QED BY <1>2, <3>1, <3>2, <3>3, <3>4
  <2> QED BY <2>1, <2>2, <2>3 DEF Ahead
<1>3. CASE (\E v \in BOOLEAN : BeginCall(v)) \/ RunCall \/ FailCall \/ Receive \/ Mark
  <2>1. UNCHANGED <<gen, loop>>
    BY <1>3 DEF BeginCall, RunCall, FailCall, Receive, Mark, clientVars, loopVars
  <2>2. \A u \in Askers : thread'[u] = thread[u]
    BY <1>3, Stepped DEF BeginCall, RunCall, FailCall, Receive, Mark, Ends
  <2>3. /\ thread'["call"].at = "bump" => thread'["call"].gen <= gen
        /\ thread'["call"].at = "set" => thread'["call"].gen + 1 <= gen
    <3>1. CASE (\E v \in BOOLEAN : BeginCall(v)) \/ RunCall \/ FailCall
      <4>1. CASE \E v \in BOOLEAN : BeginCall(v) BY <4>1, Stepped DEF BeginCall
      <4>2. CASE RunCall BY <4>2, Stepped DEF RunCall
      <4>3. CASE FailCall BY <4>3, Stepped DEF FailCall, Ends, Enter
      <4> QED BY <3>1, <4>1, <4>2, <4>3
    <3>2. CASE Receive \/ Mark BY <3>2, Stepped DEF Receive, Mark, Ahead
    <3> QED BY <1>3, <3>1, <3>2
  <2> QED BY <2>1, <2>2, <2>3 DEF Ahead
<1>4. ASSUME NEW t \in Setters, Bump(t) PROVE Ahead'
  <2>1. gen' = gen + 1 /\ loop' = loop /\ t \in Threads
    BY <1>4 DEF Bump, loopVars, Threads
  <2>2. \A u \in Threads : u # t => thread'[u] = thread[u]
    BY <1>4, <2>1 DEF Bump
  <2>3. \A u \in Askers : thread'[u] = thread[u]
    BY <2>2, <1>4 DEF Setters
  <2>4. /\ thread'["call"].at = "bump" => thread'["call"].gen <= gen'
        /\ thread'["call"].at = "set" => thread'["call"].gen + 1 <= gen'
    <3>1. CASE t = "call"
      <4>1. thread'["call"].at = "set" /\ thread'["call"].gen = thread["call"].gen
        BY <1>4, <3>1, <2>1, TypeFacts DEF Bump, TypeInv, TypeOK, Frame
      <4> QED BY <1>4, <3>1, <4>1, <2>1 DEF Bump, Ahead
    <3>2. CASE t # "call"
      <4>1. thread'["call"] = thread["call"] BY <2>2, <3>2
      <4> QED BY <4>1, <2>1 DEF Ahead
    <3> QED BY <3>1, <3>2
  <2>5. \A u \in Askers : thread[u].at \in {"sent", "check", "set"} => thread[u].gen <= gen'
    BY <2>1 DEF Ahead
  <2>6. loop'.at \in {"ask", "verify", "store"} => loop'.gen <= gen'
    BY <2>1 DEF Ahead
  <2> QED BY <2>3, <2>4, <2>5, <2>6 DEF Ahead
<1>5. ASSUME NEW t \in Threads, Set(t) \/ Kick(t) PROVE Ahead'
  <2>1. UNCHANGED <<gen, loop>>
    BY <1>5 DEF Set, Kick, loopVars
  <2>2. thread'[t].at \in {"idle", "kick"}
    BY <1>5, Stepped DEF Set, Kick, Ends, Enter
  <2>3. \A u \in Threads : u # t => thread'[u] = thread[u]
    BY <1>5, Stepped DEF Set, Kick, Ends
  <2> QED BY <2>1, <2>2, <2>3 DEF Ahead
<1>6. CASE Loop \/ LoopError
  <2>1. UNCHANGED <<thread, gen>>
    BY <1>6 DEF Loop, LoopTake, LoopRecheck, LoopLoad, LoopAsk, LoopVerify, LoopStore,
       LoopTell, LoopError, clientVars
  <2>2. loop'.at \in {"ask", "verify", "store"} => loop'.gen <= gen
    <3>1. CASE LoopTake \/ LoopRecheck \/ LoopStore \/ LoopTell \/ LoopError
      BY <3>1 DEF LoopTake, LoopRecheck, LoopStore, LoopTell, LoopError, Enter
    <3>2. CASE LoopLoad \/ LoopAsk BY <3>2 DEF LoopLoad, LoopAsk, Ahead
    <3>3. CASE LoopVerify
      <4>1. CASE gen = loop.gen BY <3>3, <4>1 DEF LoopVerify
      <4>2. CASE gen # loop.gen BY <3>3, <4>2 DEF LoopVerify, Enter
      <4> QED BY <4>1, <4>2
    <3> QED BY <1>6, <3>1, <3>2, <3>3 DEF Loop
  <2> QED BY <2>1, <2>2 DEF Ahead
<1> QED BY <1>1, <1>2, <1>3, <1>4, <1>5, <1>6 DEF Next

(* No step drops a recheck that was asked for.                             *)
LEMMA ShapesStep == ASSUME TypeInv, Shapes, Next PROVE Shapes'
<1> USE ThreadFacts DEF At
<1>1. CASE Remote \/ Lose \/ \E m \in Messages : Forge(m)
  <2>1. UNCHANGED <<thread, recheck, kick, loop>>
    BY <1>1 DEF Remote, Lose, Forge, clientVars, loopVars
  <2> QED BY <2>1 DEF Shapes
<1>2. ASSUME NEW t \in Askers, Ask(t) \/ Answer(t) \/ NoAnswer(t) \/ Check(t) PROVE Shapes'
  <2>1. UNCHANGED <<recheck, kick, loop>>
    BY <1>2 DEF Ask, Answer, NoAnswer, Check, clientVars, loopVars
  <2>2. thread'["reader"] = thread["reader"]
    BY <1>2, Stepped DEF Ask, Answer, NoAnswer, Check, Ends
  <2> QED BY <2>1, <2>2 DEF Shapes
<1>3. CASE (\E v \in BOOLEAN : BeginCall(v)) \/ RunCall \/ FailCall
  <2>1. UNCHANGED <<recheck, kick, loop>>
    BY <1>3 DEF BeginCall, RunCall, FailCall, clientVars, loopVars
  <2>2. thread'["reader"] = thread["reader"]
    BY <1>3, Stepped DEF BeginCall, RunCall, FailCall, Ends
  <2> QED BY <2>1, <2>2 DEF Shapes
<1>4. CASE Receive BY <1>4, Stepped DEF Receive, Shapes, clientVars, loopVars
<1>5. CASE Mark BY <1>5, Stepped DEF Mark, Shapes, Enter, loopVars
<1>6. ASSUME NEW t \in Setters, Bump(t) PROVE Shapes'
  <2>1. UNCHANGED <<recheck, kick, loop>> /\ t \in Threads
    BY <1>6 DEF Bump, loopVars, Threads
  <2>2. CASE t = "reader"
    <3>1. /\ thread'["reader"].at = "set" => ~thread["reader"].val
          /\ thread'["reader"].val = thread["reader"].val
      BY <1>6, <2>1, <2>2 DEF Bump, TypeInv, TypeOK, Frame
    <3> QED BY <1>6, <2>1, <2>2, <3>1 DEF Bump, Shapes
  <2>3. CASE t # "reader"
    <3>1. thread'["reader"] = thread["reader"]
      BY <1>6, <2>1, <2>3 DEF Bump
    <3> QED BY <2>1, <3>1 DEF Shapes
  <2> QED BY <2>2, <2>3
<1>7. ASSUME NEW t \in Threads, Set(t) PROVE Shapes'
  <2>1. UNCHANGED <<recheck, kick, loop>>
    BY <1>7 DEF Set, loopVars
  <2>2. thread'["reader"] = thread["reader"] \/ thread'["reader"].at \in {"idle", "kick"}
    BY <1>7, Stepped DEF Set, Ends, Enter
  <2>3. At("reader", "kick") => thread'["reader"] = thread["reader"]
    BY <1>7, Stepped DEF Set, Ends, Enter
  <2> QED BY <2>1, <2>2, <2>3 DEF Shapes
<1>8. ASSUME NEW t \in Threads, Kick(t) PROVE Shapes'
  <2>1. thread'["reader"] = thread["reader"] \/ thread'["reader"].at = "idle"
    BY <1>8, Stepped DEF Kick, Ends, Enter
  <2> QED BY <1>8, <2>1 DEF Kick, Shapes
<1>9. CASE Loop \/ LoopError
  <2>1. thread' = thread
    BY <1>9 DEF Loop, LoopTake, LoopRecheck, LoopLoad, LoopAsk, LoopVerify, LoopStore,
       LoopTell, LoopError, clientVars
  <2>2. CASE LoopTake BY <2>1, <2>2 DEF LoopTake, Shapes, Enter
  <2>3. CASE LoopRecheck BY <2>1, <2>3 DEF LoopRecheck, Shapes
  <2>4. CASE LoopLoad \/ LoopAsk \/ LoopVerify \/ LoopTell \/ LoopError
    <3>1. kick' = kick /\ recheck' = recheck /\ loop.at # "taken"
      BY <2>4 DEF LoopLoad, LoopAsk, LoopVerify, LoopTell, LoopError, clientVars
    <3> QED BY <2>1, <3>1 DEF Shapes
  <2>5. CASE LoopStore
    <3>1. kick' = kick /\ recheck' = recheck /\ loop.at # "taken"
      BY <2>5 DEF LoopStore
    <3> QED BY <2>1, <3>1 DEF Shapes
  <2> QED BY <1>9, <2>2, <2>3, <2>4, <2>5 DEF Loop
<1> QED BY <1>1, <1>2, <1>3, <1>4, <1>5, <1>6, <1>7, <1>8, <1>9 DEF Next, Threads

(* Nothing makes up for a loss.                                            *)
LEMMA MissedStays == ASSUME missed, [Next]_vars, TypeInv PROVE missed'
<1>1. CASE UNCHANGED vars BY <1>1 DEF vars
<1>2. CASE Remote \/ Lose \/ \E m \in Messages : Forge(m)
  BY <1>2 DEF Remote, Lose, Forge
<1>3. ASSUME NEW t \in Askers, Ask(t) \/ Answer(t) \/ NoAnswer(t) \/ Check(t) PROVE missed'
  BY <1>3 DEF Ask, Answer, NoAnswer, Check
<1>4. CASE (\E v \in BOOLEAN : BeginCall(v)) \/ RunCall \/ FailCall \/ Receive \/ Mark
  BY <1>4 DEF BeginCall, RunCall, FailCall, Receive, Mark
<1>5. ASSUME NEW t \in Threads, Bump(t) \/ Set(t) \/ Kick(t) PROVE missed'
  BY <1>5 DEF Bump, Set, Kick
<1>6. CASE Loop \/ LoopError
  BY <1>6 DEF Loop, LoopTake, LoopRecheck, LoopLoad, LoopAsk, LoopVerify, LoopStore,
     LoopTell, LoopError
<1> QED BY <1>1, <1>2, <1>3, <1>4, <1>5, <1>6 DEF Next, Threads

(* The steps that leave the key, its messages and the reader alone.        *)
LEMMA LastStays ==
  ASSUME LastResumed, UNCHANGED <<key, msgs>>, thread'["reader"] = thread["reader"]
  PROVE  LastResumed'
BY DEF LastResumed

(* The last message to be handled keeps telling what the key is.           *)
LEMMA LastStep == ASSUME TypeInv, Shapes, LastResumed, Next, ~missed' PROVE LastResumed'
<1> USE ThreadFacts DEF At
<1>1. CASE Remote
  <2>1. thread' = thread /\ Script(~key) BY <1>1 DEF Remote
  <2> QED BY <2>1, ScriptFacts DEF LastResumed
<1>2. CASE Lose BY <1>2 DEF Lose
<1>3. ASSUME NEW m \in Messages, Forge(m) PROVE LastResumed'
  <2>1. /\ m = "paused" /\ key' = key /\ msgs' = Append(msgs, m)
    BY <1>3 DEF Forge, Messages
  <2>2. msgs' # <<>> /\ msgs'[Len(msgs')] = m
    BY <2>1, MessageFacts
  <2> QED BY <2>1, <2>2 DEF LastResumed
<1>4. ASSUME NEW t \in Askers, Ask(t) \/ Answer(t) \/ NoAnswer(t) \/ Check(t)
      PROVE  LastResumed'
  <2>1. UNCHANGED <<key, msgs>> /\ thread'["reader"] = thread["reader"]
    BY <1>4, Stepped DEF Ask, Answer, NoAnswer, Check, Ends
  <2> QED BY <2>1, LastStays
<1>5. CASE \E v \in BOOLEAN : BeginCall(v)
  <2>1. UNCHANGED <<key, msgs>> /\ thread'["reader"] = thread["reader"]
    BY <1>5, Stepped DEF BeginCall
  <2> QED BY <2>1, LastStays
<1>6. CASE RunCall \/ FailCall
  <2>1. thread'["reader"] = thread["reader"]
    BY <1>6, Stepped DEF RunCall, FailCall, Ends
  <2>2. CASE UNCHANGED <<key, msgs>> BY <2>1, <2>2, LastStays
  <2>3. CASE Script(thread["call"].val)
    BY <2>1, <2>3, ScriptFacts DEF LastResumed
  <2> QED BY <1>6, <2>2, <2>3 DEF RunCall, FailCall
<1>7. CASE Receive
  <2>1. /\ key' = key /\ msgs # <<>> /\ msgs' = Tail(msgs)
        /\ thread'["reader"] = [at |-> "bump", gen |-> 0, val |-> Head(msgs) = "paused"]
    BY <1>7, Stepped DEF Receive
  <2>2. CASE msgs' = <<>>
    <3>1. Head(msgs) = msgs[Len(msgs)] /\ Head(msgs) \in Messages
      BY <2>1, <2>2, MessageFacts
    <3>2. ~thread'["reader"].val => Head(msgs) = "resumed"
      <4> DEFINE b == Head(msgs) = "paused"
      <4>1. thread'["reader"] = [at |-> "bump", gen |-> 0, val |-> b]
        BY <2>1
      <4> HIDE DEF b
      <4>2. thread'["reader"].val = b
        BY <4>1
      <4>3. ~b => Head(msgs) = "resumed"
        BY <3>1 DEF b, Messages
      <4> QED BY <4>2, <4>3, Zenon
    <3> QED BY <2>1, <2>2, <3>1, <3>2 DEF LastResumed
  <2>3. CASE msgs' # <<>>
    <3>1. Len(msgs) \in Nat /\ Len(msgs') = Len(msgs) - 1 /\ msgs' \in Seq(Messages)
      BY <2>1, MessageFacts
    <3>2. Len(msgs') > 0
      BY <2>3, <3>1, MessageFacts
    <3>3. msgs'[Len(msgs')] = msgs[Len(msgs)]
      <4>1. Len(msgs') \in 1..Len(msgs) - 1 /\ Len(msgs') + 1 = Len(msgs)
        BY <3>1, <3>2
      <4> QED BY <2>1, <4>1, MessageFacts
    <3> QED BY <2>1, <2>3, <3>3 DEF LastResumed
  <2> QED BY <2>2, <2>3
<1>8. CASE Mark
  <2>1. UNCHANGED <<key, msgs>> /\ thread'["reader"].at = "kick"
    BY <1>8, Stepped DEF Mark, Enter
  <2> QED BY <2>1 DEF LastResumed
<1>9. ASSUME NEW t \in Setters, Bump(t) PROVE LastResumed'
  <2>1. UNCHANGED <<key, msgs>> /\ t \in Threads
    BY <1>9 DEF Bump, Threads
  <2>2. CASE t = "reader"
    <3>1. thread'["reader"].val = thread["reader"].val /\ thread["reader"].at = "bump"
      BY <1>9, <2>2, ThreadFacts DEF Bump, TypeInv, TypeOK, Frame
    <3> QED BY <2>1, <3>1 DEF LastResumed
  <2>3. CASE t # "reader"
    <3>1. thread'["reader"] = thread["reader"]
      BY <1>9, <2>1, <2>3 DEF Bump
    <3> QED BY <2>1, <3>1, LastStays
  <2> QED BY <2>2, <2>3
<1>10. ASSUME NEW t \in Threads, Set(t) \/ Kick(t) PROVE LastResumed'
  <2>1. UNCHANGED <<key, msgs>>
    BY <1>10 DEF Set, Kick
  <2>2. CASE t = "reader"
    <3>1. thread'["reader"].at \in {"idle", "kick"}
      BY <1>10, <2>2, Stepped DEF Set, Kick, Ends, Enter
    <3> QED BY <2>1, <3>1 DEF LastResumed
  <2>3. CASE t # "reader"
    <3>1. thread'["reader"] = thread["reader"]
      BY <1>10, <2>3, Stepped DEF Set, Kick, Ends
    <3> QED BY <2>1, <3>1, LastStays
  <2> QED BY <2>2, <2>3
<1>11. CASE Loop \/ LoopError
  <2>1. UNCHANGED <<key, msgs, thread>>
    BY <1>11 DEF Loop, LoopTake, LoopRecheck, LoopLoad, LoopAsk, LoopVerify, LoopStore,
       LoopTell, LoopError
  <2> QED BY <2>1, LastStays
<1> QED BY <1>1, <1>2, <1>3, <1>4, <1>5, <1>6, <1>7, <1>8, <1>9, <1>10, <1>11
        DEF Next, Threads

(* The steps that touch neither the key nor what the fresh reads rest on.  *)
LEMMA FreshStays ==
  ASSUME ReadsFresh, UNCHANGED <<key, gen>>, Caught' => Caught,
         \A t \in Askers : thread'[t] = thread[t] \/ thread'[t].at \in {"idle", "sent", "kick"},
         thread'["call"] = thread["call"] \/ thread'["call"].at \in {"idle", "sent", "kick"},
         loop' = loop \/ loop'.at \notin {"verify", "store"}
  PROVE  ReadsFresh'
<1> SUFFICES ASSUME Caught' PROVE ReadsFresh'
  BY DEF ReadsFresh
<1>1. /\ \A t \in Askers :
           thread[t].at \in {"check", "set"} /\ thread[t].gen = gen => thread[t].val = key
      /\ thread["call"].at = "bump" /\ thread["call"].gen = gen => thread["call"].val = key
      /\ thread["call"].at = "set" /\ thread["call"].gen + 1 = gen => thread["call"].val = key
      /\ loop.at \in {"verify", "store"} /\ loop.gen = gen => loop.val = key
  BY DEF ReadsFresh, At
<1>2. ASSUME NEW t \in Askers, thread'[t].at \in {"check", "set"}, thread'[t].gen = gen'
      PROVE  thread'[t].val = key'
  BY <1>1, <1>2
<1>3. /\ thread'["call"].at = "bump" /\ thread'["call"].gen = gen' => thread'["call"].val = key'
      /\ thread'["call"].at = "set" /\ thread'["call"].gen + 1 = gen' => thread'["call"].val = key'
  BY <1>1
<1>4. loop'.at \in {"verify", "store"} /\ loop'.gen = gen' => loop'.val = key'
  BY <1>1
<1> QED BY <1>2, <1>3, <1>4 DEF ReadsFresh, At

(* What was read and not overtaken stays fresh.                            *)
LEMMA FreshStep == ASSUME TypeInv, Ahead, ReadsFresh, Next, ~missed' PROVE ReadsFresh'
<1> USE ThreadFacts DEF At
<1>1. CASE Remote
  <2>1. thread' = thread /\ Script(~key) BY <1>1 DEF Remote
  <2> QED BY <2>1, ScriptFacts DEF ReadsFresh, Caught
<1>2. CASE Lose BY <1>2 DEF Lose
<1>3. ASSUME NEW m \in Messages, Forge(m) PROVE ReadsFresh'
  BY <1>3, MessageFacts DEF Forge, ReadsFresh, Caught
<1>4. ASSUME NEW t \in Askers, Ask(t) \/ Answer(t) \/ NoAnswer(t) \/ Check(t)
      PROVE  ReadsFresh'
  <2>1. /\ UNCHANGED <<key, msgs, gen, loop>>
        /\ thread'["reader"] = thread["reader"] /\ thread'["call"] = thread["call"]
        /\ \A u \in Askers : u # t => thread'[u] = thread[u]
    BY <1>4, Stepped DEF Ask, Answer, NoAnswer, Check, Ends, clientVars, loopVars
  <2>2. thread'[t].at \in {"check", "set"} /\ thread'[t].gen = gen /\ Caught => thread'[t].val = key
    <3>1. CASE Ask(t) BY <3>1, Stepped DEF Ask
    <3>2. CASE Answer(t) BY <3>2, Stepped DEF Answer, Ends, Enter
    <3>3. CASE NoAnswer(t) BY <3>3, Stepped DEF NoAnswer, Ends, Enter
    <3>4. CASE Check(t) BY <3>4, Stepped DEF Check, Ends, Enter, ReadsFresh
    <3> QED BY <1>4, <3>1, <3>2, <3>3, <3>4
  <2>3. Caught' <=> Caught BY <2>1 DEF Caught
  <2> QED BY <2>1, <2>2, <2>3 DEF ReadsFresh
<1>5. CASE \E v \in BOOLEAN : BeginCall(v)
  <2>1. /\ UNCHANGED <<key, msgs, gen, loop>> /\ thread'["reader"] = thread["reader"]
        /\ \A u \in Askers : thread'[u] = thread[u]
        /\ thread'["call"].at = "sent"
    BY <1>5, Stepped DEF BeginCall, clientVars, loopVars
  <2> QED BY <2>1, FreshStays DEF Caught
<1>6. CASE RunCall \/ FailCall
  <2>1. /\ UNCHANGED <<gen, loop>> /\ thread'["reader"] = thread["reader"]
        /\ \A u \in Askers : thread'[u] = thread[u]
    BY <1>6, Stepped DEF RunCall, FailCall, Ends, clientVars, loopVars
  <2>2. CASE key' # key
    <3>1. msgs' # <<>>
      BY <1>6, <2>2, ScriptFacts DEF RunCall, FailCall
    <3> QED BY <3>1 DEF ReadsFresh, Caught
  <2>3. CASE key' = key
    <3>1. msgs' = msgs
      BY <1>6, <2>3, ScriptFacts DEF RunCall, FailCall
    <3>2. CASE FailCall
      <4>1. thread'["call"].at = "idle" BY <3>2, Stepped DEF FailCall, Ends, Enter
      <4> QED BY <2>1, <2>3, <3>1, <4>1, FreshStays DEF Caught
    <3>3. CASE RunCall
      <4>1. thread'["call"].at = "bump" /\ thread'["call"].val = key'
        BY <3>3, Stepped, ScriptFacts DEF RunCall
      <4> QED BY <2>1, <2>3, <3>1, <4>1 DEF ReadsFresh, Caught
    <3> QED BY <1>6, <3>2, <3>3
  <2> QED BY <2>2, <2>3
<1>7. CASE Receive
  <2>1. thread'["reader"].at = "bump" BY <1>7, Stepped DEF Receive
  <2> QED BY <2>1 DEF ReadsFresh, Caught
<1>8. CASE Mark
  <2>1. /\ UNCHANGED <<key, msgs, gen, loop>> /\ thread["reader"].at = "mark"
        /\ thread'["call"] = thread["call"]
        /\ \A u \in Askers : thread'[u] = thread[u]
    BY <1>8, Stepped DEF Mark, loopVars
  <2> QED BY <2>1, FreshStays DEF Caught
<1>9. ASSUME NEW t \in Setters, Bump(t) PROVE ReadsFresh'
  <2>1. /\ UNCHANGED <<key, msgs, loop>> /\ gen' = gen + 1 /\ t \in Threads
        /\ \A u \in Askers : thread'[u] = thread[u]
    BY <1>9 DEF Bump, loopVars, Threads, Setters
  <2>2. \A u \in Askers : thread[u].at \in {"check", "set"} => thread'[u].gen # gen'
    BY <2>1 DEF Ahead
  <2>3. loop.at \in {"verify", "store"} => loop.gen # gen'
    BY <2>1 DEF Ahead
  <2>4. CASE t = "reader"
    <3>1. thread'["call"] = thread["call"]
      BY <1>9, <2>1, <2>4 DEF Bump
    <3>2. /\ thread["call"].at = "bump" => thread["call"].gen # gen'
          /\ thread["call"].at = "set" => thread["call"].gen + 1 # gen'
      BY <2>1 DEF Ahead
    <3> QED BY <2>1, <2>2, <2>3, <3>1, <3>2 DEF ReadsFresh
  <2>5. CASE t = "call"
    <3>1. /\ thread["call"].at = "bump" /\ thread'["call"].at = "set"
          /\ thread'["call"].gen = thread["call"].gen
          /\ thread'["call"].val = thread["call"].val
          /\ thread'["reader"] = thread["reader"]
      BY <1>9, <2>5, TypeFacts DEF Bump, TypeInv, TypeOK, Frame
    <3>2. thread["call"].gen + 1 = gen' => thread["call"].gen = gen
      BY <2>1
    <3>3. Caught' <=> Caught BY <2>1, <3>1 DEF Caught
    <3> QED BY <2>1, <2>2, <2>3, <3>1, <3>2, <3>3 DEF ReadsFresh
  <2> QED BY <2>4, <2>5 DEF Setters
<1>10. ASSUME NEW t \in Threads, Set(t) \/ Kick(t) PROVE ReadsFresh'
  <2>1. /\ UNCHANGED <<key, msgs, gen, loop>>
        /\ thread'[t].at \in {"idle", "kick"} /\ thread[t].at \in {"set", "kick"}
        /\ \A u \in Threads : u # t => thread'[u] = thread[u]
    BY <1>10, Stepped DEF Set, Kick, Ends, Enter, loopVars
  <2>2. Caught' => Caught BY <2>1 DEF Caught
  <2> QED BY <2>1, <2>2, FreshStays
<1>11. CASE Loop \/ LoopError
  <2>1. UNCHANGED <<key, msgs, gen, thread>>
    BY <1>11 DEF Loop, LoopTake, LoopRecheck, LoopLoad, LoopAsk, LoopVerify, LoopStore,
       LoopTell, LoopError, clientVars
  <2>2. Caught' <=> Caught BY <2>1 DEF Caught
  <2>3. CASE LoopTake \/ LoopRecheck \/ LoopLoad \/ LoopStore \/ LoopTell \/ LoopError
    <3>1. loop'.at \notin {"verify", "store"}
      <4>1. CASE LoopRecheck BY <4>1 DEF LoopRecheck, Enter
      <4>2. CASE LoopTake \/ LoopLoad \/ LoopStore \/ LoopTell \/ LoopError
        BY <4>2 DEF LoopTake, LoopLoad, LoopStore, LoopTell, LoopError, Enter
      <4> QED BY <2>3, <4>1, <4>2
    <3> QED BY <2>1, <2>2, <3>1, FreshStays
  <2>4. CASE LoopAsk
    <3>1. loop'.val = key' BY <2>1, <2>4 DEF LoopAsk
    <3> QED BY <2>1, <2>2, <3>1 DEF ReadsFresh
  <2>5. CASE LoopVerify
    <3>1. CASE gen = loop.gen
      <4>1. loop.at = "verify" /\ loop'.gen = loop.gen /\ loop'.val = loop.val
        BY <2>5, <3>1 DEF LoopVerify
      <4> QED BY <2>1, <2>2, <4>1 DEF ReadsFresh
    <3>2. CASE gen # loop.gen
      <4>1. loop'.at = "tell" BY <2>5, <3>2 DEF LoopVerify, Enter
      <4> QED BY <2>1, <2>2, <4>1, FreshStays
    <3> QED BY <3>1, <3>2
  <2> QED BY <1>11, <2>3, <2>4, <2>5 DEF Loop
<1> QED BY <1>1, <1>2, <1>3, <1>4, <1>5, <1>6, <1>7, <1>8, <1>9, <1>10, <1>11
        DEF Next, Threads

(* The steps that neither set the cache nor end what is under way.         *)
LEMMA SettledStays ==
  ASSUME Settled, UNCHANGED <<key, paused, gen, recheck, loop>>, Busy => Busy'
  PROVE  Settled'
BY DEF Settled, Rechecks

(* A cache that is set while nothing else is under way is set to the key's *)
(* state, unless the code's window hid a change.                           *)
LEMMA SetAgrees ==
  ASSUME TypeInv, Shapes, LastResumed, ReadsFresh,
         NEW t \in Threads, Set(t), ~missed', ~Busy'
  PROVE  paused' = key'
<1> USE ThreadFacts DEF At
<1>1. /\ UNCHANGED <<key, msgs, gen>> /\ paused' = thread[t].val /\ ~Late(t)
      /\ thread[t].at = "set"
      /\ \A u \in Threads : u # t => thread'[u] = thread[u]
  BY Stepped DEF Set, Ends
<1>2. msgs = <<>>
  BY <1>1 DEF Busy
<1>3. CASE t = "reader"
  <2>1. thread[t].val = FALSE
    BY <1>1, <1>3 DEF Shapes
  <2>2. ~key
    BY <1>1, <1>2, <1>3, <2>1 DEF LastResumed
  <2> QED BY <1>1, <2>1, <2>2
<1>4. CASE t # "reader"
  <2>1. Caught
    BY <1>1, <1>2, <1>4 DEF Caught, Busy
  <2>2. CASE t = "call"
    BY <1>1, <2>1, <2>2 DEF ReadsFresh, Late
  <2>3. CASE t \in Askers
    BY <1>1, <2>1, <2>3 DEF ReadsFresh, Late
  <2> QED BY <1>4, <2>2, <2>3 DEF Threads, Setters
<1> QED BY <1>3, <1>4

(* The cache agrees with the key, or what will set it is under way.        *)
LEMMA SettledStep ==
  ASSUME TypeInv, Ahead, Shapes, LastResumed, ReadsFresh, Settled, Next, ~missed'
  PROVE  Settled'
<1> USE ThreadFacts DEF At
<1>1. CASE Remote
  <2>1. Script(~key) BY <1>1 DEF Remote
  <2> QED BY <2>1, ScriptFacts DEF Settled, Busy
<1>2. CASE Lose BY <1>2 DEF Lose
<1>3. ASSUME NEW m \in Messages, Forge(m) PROVE Settled'
  BY <1>3, MessageFacts DEF Forge, Settled, Busy
<1>4. ASSUME NEW t \in Askers, Ask(t) \/ Answer(t) \/ NoAnswer(t) \/ Check(t)
      PROVE  Settled'
  <2>1. UNCHANGED <<key, msgs, paused, gen, recheck, loop>>
    BY <1>4 DEF Ask, Answer, NoAnswer, Check, clientVars, loopVars
  <2>2. thread'["reader"] = thread["reader"] /\ thread'["call"] = thread["call"]
    BY <1>4, Stepped DEF Ask, Answer, NoAnswer, Check, Ends
  <2> QED BY <2>1, <2>2, SettledStays DEF Busy
<1>5. CASE \E v \in BOOLEAN : BeginCall(v)
  <2>1. UNCHANGED <<key, msgs, paused, gen, recheck, loop>>
    BY <1>5 DEF BeginCall, clientVars, loopVars
  <2>2. thread'["reader"] = thread["reader"] /\ thread["call"].at = "idle"
    BY <1>5, Stepped DEF BeginCall
  <2> QED BY <2>1, <2>2, SettledStays DEF Busy
<1>6. CASE RunCall
  <2>1. thread'["call"].at = "bump" BY <1>6, Stepped DEF RunCall
  <2> QED BY <2>1 DEF Settled, Busy
<1>7. CASE FailCall
  <2>1. UNCHANGED <<paused, gen, recheck, loop>> /\ thread["call"].at = "sent"
    BY <1>7 DEF FailCall, clientVars, loopVars
  <2>2. thread'["reader"] = thread["reader"] BY <1>7, Stepped DEF FailCall, Ends
  <2>3. CASE UNCHANGED <<key, msgs>>
    BY <2>1, <2>2, <2>3, SettledStays DEF Busy
  <2>4. CASE Script(thread["call"].val)
    <3>1. CASE key = thread["call"].val
      BY <2>1, <2>2, <2>4, <3>1, ScriptFacts, SettledStays DEF Busy
    <3>2. CASE key # thread["call"].val
      BY <2>4, <3>2, ScriptFacts DEF Settled, Busy
    <3> QED BY <3>1, <3>2
  <2> QED BY <1>7, <2>3, <2>4 DEF FailCall
<1>8. CASE Receive
  <2>1. thread'["reader"].at = "bump" BY <1>8, Stepped DEF Receive
  <2> QED BY <2>1 DEF Settled, Busy
<1>9. CASE Mark
  <2>1. recheck' BY <1>9 DEF Mark
  <2> QED BY <2>1 DEF Settled, Rechecks
<1>10. ASSUME NEW t \in Setters, Bump(t) PROVE Settled'
  <2>1. thread'[t].at \in {"mark", "set"} /\ (t = "call" => thread'[t].at = "set")
    BY <1>10 DEF Bump, TypeInv, TypeOK, Frame, Threads
  <2> QED BY <2>1 DEF Settled, Busy, Setters
<1>11. ASSUME NEW t \in Threads, Set(t) PROVE Settled'
  BY <1>11, SetAgrees DEF Settled
<1>12. ASSUME NEW t \in Threads, Kick(t) PROVE Settled'
  <2>1. UNCHANGED <<key, msgs, paused, gen, recheck, loop>> /\ thread[t].at = "kick"
    BY <1>12 DEF Kick, loopVars
  <2>2. \A u \in Threads : u # t => thread'[u] = thread[u]
    BY <1>12, Stepped DEF Kick, Ends
  <2>3. Busy => Busy' BY <2>1, <2>2 DEF Busy
  <2> QED BY <2>1, <2>3, SettledStays
<1>13. CASE Loop \/ LoopError
  <2>1. UNCHANGED <<key, msgs, thread, gen>>
    BY <1>13 DEF Loop, LoopTake, LoopRecheck, LoopLoad, LoopAsk, LoopVerify, LoopStore,
       LoopTell, LoopError, clientVars
  <2>2. Busy' <=> Busy BY <2>1 DEF Busy
  <2>3. CASE LoopTake
    <3>1. recheck' = recheck /\ paused' = paused /\ loop.at = "wait"
      BY <2>3 DEF LoopTake
    <3> QED BY <2>1, <2>2, <3>1 DEF Settled, Rechecks
  <2>4. CASE LoopRecheck
    <3>1. paused' = paused /\ loop.at = "taken" /\ (recheck => loop'.at = "load")
      BY <2>4 DEF LoopRecheck, Enter
    <3> QED BY <2>1, <2>2, <3>1 DEF Settled, Rechecks
  <2>5. CASE LoopLoad
    <3>1. loop'.at = "ask" /\ loop'.gen = gen BY <2>5 DEF LoopLoad
    <3> QED BY <2>1, <3>1 DEF Settled, Rechecks
  <2>6. CASE LoopAsk
    <3>1. /\ recheck' = recheck /\ paused' = paused
          /\ loop.at = "ask" /\ loop'.at = "verify" /\ loop'.gen = loop.gen
      BY <2>6 DEF LoopAsk, clientVars
    <3> QED BY <2>1, <2>2, <3>1 DEF Settled, Rechecks
  <2>7. CASE LoopVerify
    <3>1. /\ recheck' = recheck /\ paused' = paused /\ loop.at = "verify"
          /\ gen = loop.gen => loop'.at = "store" /\ loop'.gen = loop.gen
      BY <2>7 DEF LoopVerify, clientVars
    <3> QED BY <2>1, <2>2, <3>1 DEF Settled, Rechecks
  <2>8. CASE LoopStore
    <3>1. loop.at = "store" /\ gen = loop.gen /\ paused' = loop.val
      BY <2>8 DEF LoopStore
    <3>2. CASE Busy BY <2>2, <3>2 DEF Settled
    <3>3. CASE ~Busy
      <4>1. Caught BY <3>3 DEF Caught, Busy
      <4>2. loop.val = key BY <3>1, <4>1 DEF ReadsFresh
      <4> QED BY <2>1, <3>1, <4>2 DEF Settled
    <3> QED BY <3>2, <3>3
  <2>9. CASE LoopTell
    <3>1. recheck' = recheck /\ paused' = paused /\ loop.at = "tell"
      BY <2>9 DEF LoopTell, clientVars
    <3> QED BY <2>1, <2>2, <3>1 DEF Settled, Rechecks
  <2>10. CASE LoopError BY <2>10 DEF LoopError
  <2> QED BY <1>13, <2>3, <2>4, <2>5, <2>6, <2>7, <2>8, <2>9, <2>10 DEF Loop
<1> QED BY <1>1, <1>2, <1>3, <1>4, <1>5, <1>6, <1>7, <1>8, <1>9, <1>10, <1>11,
           <1>12, <1>13 DEF Next, Threads

LEMMA QuietInvInit == ASSUME Init PROVE QuietInv
<1> USE ThreadFacts DEF Init, At
<1>1. TypeInv /\ HookInv
  BY PauseTypesInit DEF HookInv, Frames, HookOwed, Enter
<1>2. Ahead BY PauseAssumption DEF Ahead, Enter, Threads, Setters
<1>3. Shapes BY DEF Shapes, Enter, Threads, Setters
<1>4. LastResumed BY DEF LastResumed
<1>5. ReadsFresh BY PauseAssumption DEF ReadsFresh, Enter, Threads, Setters
<1>6. Settled BY DEF Settled
<1> QED BY <1>1, <1>2, <1>3, <1>4, <1>5, <1>6 DEF QuietInv

LEMMA QuietInvStep == ASSUME QuietInv, [Next]_vars PROVE QuietInv'
<1>1. TypeInv' /\ HookInv'
  BY TypeStep, FramesStep, HookStep DEF QuietInv, HookInv
<1>2. CASE UNCHANGED vars
  <2>1. UNCHANGED <<key, msgs, paused, gen, recheck, kick, loop, thread, missed>>
    BY <1>2 DEF vars, clientVars, loopVars
  <2>2. (Busy' <=> Busy) /\ (Caught' <=> Caught)
    BY <2>1 DEF Busy, Caught, At
  <2>3. (Ahead' <=> Ahead) /\ (Shapes' <=> Shapes)
    BY <2>1 DEF Ahead, Shapes, At
  <2>4. (LastResumed' <=> LastResumed) /\ (ReadsFresh' <=> ReadsFresh)
    BY <2>1, <2>2 DEF LastResumed, ReadsFresh, At
  <2>5. Settled' <=> Settled
    BY <2>1, <2>2 DEF Settled, Rechecks
  <2> QED BY <1>1, <2>1, <2>3, <2>4, <2>5 DEF QuietInv
<1>3. CASE Next
  <2>1. Ahead' /\ Shapes'
    BY <1>3, AheadStep, ShapesStep DEF QuietInv
  <2>2. ASSUME ~missed' PROVE LastResumed' /\ ReadsFresh' /\ Settled'
    <3>1. ~missed BY <1>3, <2>2, MissedStays DEF QuietInv
    <3> QED BY <1>3, <2>2, <3>1, LastStep, FreshStep, SettledStep DEF QuietInv
  <2> QED BY <1>1, <2>1, <2>2 DEF QuietInv
<1> QED BY <1>2, <1>3

(* Once everything has been handled, and nothing was lost, the cache and   *)
(* the hooks have the key's state (observe, control, recheckPaused,        *)
(* pauseLoop), whatever calls, replies, control messages and forgeries of  *)
(* "paused:" went before and in whatever order they were handled.          *)
THEOREM QuietAgreement == Spec => []QuietAgrees
<1>1. Init => QuietInv
  BY QuietInvInit
<1>2. QuietInv /\ [Next]_vars => QuietInv'
  BY QuietInvStep
<1>3. QuietInv => QuietAgrees
  <2> SUFFICES ASSUME QuietInv, Quiet, ~missed PROVE paused = key /\ told = key
    BY DEF QuietAgrees
  <2>1. /\ TypeInv /\ HookOwed /\ Shapes /\ Settled /\ msgs = <<>>
        /\ thread["call"].at = "idle" /\ thread["reader"].at = "idle"
        /\ \A t \in Askers : thread[t].at # "kick"
        /\ loop.at = "wait" /\ ~kick
    BY DEF QuietInv, Quiet, HookInv, At
  <2>2. paused = key
    BY <2>1 DEF Settled, Busy, Rechecks, Shapes, At
  <2>3. told = paused
    BY <2>1 DEF HookOwed, Threads, Setters, At
  <2> QED BY <2>2, <2>3
<1> QED BY <1>1, <1>2, <1>3, PTL DEF Spec

=============================================================================
