----------------------------- MODULE PauseCache -----------------------------
(***************************************************************************)
(* The pause as one Queue object caches it (pause.go).  The :paused key    *)
(* is the truth, and every pop script reads it.  The object's copy,        *)
(* Queue.paused, is what varmq's scheduler and the OnPauseChange hooks go  *)
(* by; it is set by the object's own Pause and Resume, by replies of pops  *)
(* and sweeps, and by control messages, each from a goroutine of its own.  *)
(*                                                                         *)
(* Other processes pause and resume too; their calls are the steps of      *)
(* Remote.  Every atomic load, swap, channel operation and Redis call of   *)
(* the object's goroutines is a step, so they interleave as Go lets them.  *)
(* The object is not closed here.                                          *)
(***************************************************************************)
EXTENDS Naturals, Sequences

CONSTANTS
  Askers,      \* the goroutines that read the key: "sweep", and "pop" if it pops
  MaxCalls,    \* bound: Pause and Resume calls of this object
  MaxRemote,   \* bound: changes of the key by other processes
  MaxFaults    \* bound: failed calls, lost and forged messages

ASSUME PauseAssumption ==
  /\ Askers \subseteq {"sweep", "pop"}
  /\ MaxCalls \in Nat /\ MaxRemote \in Nat /\ MaxFaults \in Nat

(* The goroutines that set the cache: a sweep, a pop, a caller of Pause or *)
(* Resume, and the reader of the subscription.                             *)
Setters == {"call", "reader"}
Threads == Askers \cup Setters
Messages == {"paused", "resumed"}

VARIABLES
  key,       \* <key>:paused exists
  msgs,      \* control messages on their way to this object, oldest first
  paused,    \* Queue.paused
  gen,       \* pauseHooks.gen
  kick,      \* a kick waits in pauseHooks.kick
  recheck,   \* pauseHooks.recheck
  thread,    \* thread[t]: its next step, the gen it goes by, and the state it
             \* read or is about to set
  loop,      \* pauseLoop's next step, its g, and what it read from the key
  told,      \* what pauseLoop last told the hooks
  calls, remote, faults,   \* how much of each bound is used
  missed     \* history: a change lost to a fault or to a window that the
             \* code leaves to the next pop or sweep

clientVars == <<paused, gen, kick, recheck>>
loopVars == <<loop, told>>
bounds == <<calls, remote, faults>>
vars == <<key, msgs, clientVars, thread, loopVars, bounds, missed>>

MaxGen == 2 * MaxCalls + MaxRemote + MaxFaults

(* The locals of a goroutine, and of one that has just come to step.       *)
Frame(steps) == [at : steps, gen : 0..MaxGen, val : BOOLEAN]
Enter(step) == [at |-> step, gen |-> 0, val |-> FALSE]

(* Every variable holds what its comment says; gen moves at most once for  *)
(* each own call and each message.                                         *)
TypeOK ==
  /\ key \in BOOLEAN /\ paused \in BOOLEAN /\ kick \in BOOLEAN /\ recheck \in BOOLEAN
  /\ msgs \in Seq(Messages)
  /\ gen \in 0..MaxGen
  /\ thread \in [Threads -> Frame({"idle", "sent", "check", "bump", "mark", "set", "kick"})]
  /\ loop \in Frame({"wait", "taken", "load", "ask", "verify", "store", "tell"})
  /\ told \in BOOLEAN
  /\ calls \in 0..MaxCalls /\ remote \in 0..MaxRemote /\ faults \in 0..MaxFaults
  /\ missed \in BOOLEAN

Init ==
  /\ key = FALSE /\ msgs = <<>>
  /\ paused = FALSE /\ gen = 0 /\ kick = FALSE /\ recheck = FALSE
  /\ thread = [t \in Threads |-> Enter("idle")]
  /\ loop = Enter("wait") /\ told = FALSE
  /\ calls = 0 /\ remote = 0 /\ faults = 0
  /\ missed = FALSE

At(t, step) == thread[t].at = step
Becomes(t, frame) == thread' = [thread EXCEPT ![t] = frame]
Ends(t) == Becomes(t, Enter("idle"))
Fault == faults < MaxFaults /\ faults' = faults + 1 /\ UNCHANGED <<calls, remote>>

-----------------------------------------------------------------------------
(* The key and its control channel.                                        *)

(* pauseScript (v) and resumeScript (~v): a call that changes the key      *)
(* publishes, in the same step; one that finds it so does nothing.         *)
Script(v) ==
  /\ key' = v
  /\ msgs' = IF key = v THEN msgs
             ELSE Append(msgs, IF v THEN "paused" ELSE "resumed")

(* Another process's Pause or Resume that changes the key.                 *)
Remote ==
  /\ remote < MaxRemote /\ remote' = remote + 1
  /\ Script(~key)
  /\ UNCHANGED <<clientVars, thread, loopVars, calls, faults, missed>>

(* A message is lost in a reconnect, or comes from someone who did not     *)
(* change the key.                                                         *)
Lose ==
  /\ Fault
  /\ msgs # <<>> /\ msgs' = Tail(msgs)
  /\ missed' = TRUE
  /\ UNCHANGED <<key, clientVars, thread, loopVars>>

Forge(m) ==
  /\ Fault
  /\ msgs' = Append(msgs, m)
  /\ missed' = (missed \/ m = "resumed")
  /\ UNCHANGED <<key, clientVars, thread, loopVars>>

-----------------------------------------------------------------------------
(* A pop or a sweep, which reads the key in its script.                    *)

Ask(t) ==
  /\ At(t, "idle")
  /\ Becomes(t, [at |-> "sent", gen |-> gen, val |-> FALSE])
  /\ UNCHANGED <<key, msgs, clientVars, loopVars, bounds, missed>>

(* Mutant of Answer: a sweep, like a pop, reports only a pause.            *)
AnswerPausedOnly(t) ==
  /\ At(t, "sent")
  /\ IF ~key THEN Ends(t)
     ELSE Becomes(t, [at |-> "check", gen |-> thread[t].gen, val |-> key])
  /\ UNCHANGED <<key, msgs, clientVars, loopVars, bounds, missed>>

(* The script runs: a sweep reports the key, a pop only that it was        *)
(* refused (pausedOne, pausedBatch).                                       *)
Answer(t) ==
  /\ At(t, "sent")
  /\ IF t = "pop" /\ ~key THEN Ends(t)
     ELSE Becomes(t, [at |-> "check", gen |-> thread[t].gen, val |-> key])
  /\ UNCHANGED <<key, msgs, clientVars, loopVars, bounds, missed>>

NoAnswer(t) ==
  /\ Fault
  /\ At(t, "sent") /\ Ends(t)
  /\ UNCHANGED <<key, msgs, clientVars, loopVars, missed>>

(* Mutant of Check: a reply is taken whatever came since its call.         *)
CheckNothing(t) ==
  /\ At(t, "check")
  /\ Becomes(t, [at |-> "set", gen |-> gen, val |-> thread[t].val])
  /\ UNCHANGED <<key, msgs, clientVars, loopVars, bounds, missed>>

(* observe's check of gen.                                                 *)
Check(t) ==
  /\ At(t, "check")
  /\ IF gen # thread[t].gen THEN Ends(t)
     ELSE Becomes(t, [at |-> "set", gen |-> gen, val |-> thread[t].val])
  /\ UNCHANGED <<key, msgs, clientVars, loopVars, bounds, missed>>

-----------------------------------------------------------------------------
(* This object's Pause (v) and Resume (~v), and its reader.                *)

BeginCall(v) ==
  /\ calls < MaxCalls /\ calls' = calls + 1
  /\ At("call", "idle") /\ Becomes("call", [at |-> "sent", gen |-> 0, val |-> v])
  /\ UNCHANGED <<key, msgs, clientVars, loopVars, remote, faults, missed>>

RunCall ==
  /\ At("call", "sent")
  /\ Becomes("call", [at |-> "bump", gen |-> gen, val |-> thread["call"].val])
  /\ Script(thread["call"].val)
  /\ UNCHANGED <<clientVars, loopVars, bounds, missed>>

(* The call returns an error; its script may have run.                     *)
FailCall ==
  /\ Fault
  /\ At("call", "sent") /\ Ends("call")
  /\ Script(thread["call"].val) \/ UNCHANGED <<key, msgs>>
  /\ UNCHANGED <<clientVars, loopVars, missed>>

(* Mutant of Receive: the message stays.                                   *)
ReceiveAgain ==
  /\ At("reader", "idle")
  /\ msgs # <<>>
  /\ Becomes("reader", [at |-> "bump", gen |-> 0, val |-> Head(msgs) = "paused"])
  /\ UNCHANGED <<key, msgs, clientVars, loopVars, bounds, missed>>

(* control is called with the next message.                                *)
Receive ==
  /\ At("reader", "idle")
  /\ msgs # <<>> /\ msgs' = Tail(msgs)
  /\ Becomes("reader", [at |-> "bump", gen |-> 0, val |-> Head(msgs) = "paused"])
  /\ UNCHANGED <<key, clientVars, loopVars, bounds, missed>>

(* gen.Add(1); then a "paused:" message asks for a recheck, and everything *)
(* else sets the cache.                                                    *)
Bump(t) ==
  /\ At(t, "bump")
  /\ gen' = gen + 1
  /\ thread' = [thread EXCEPT ![t].at =
                  IF t = "reader" /\ thread[t].val THEN "mark" ELSE "set"]
  /\ UNCHANGED <<key, msgs, paused, kick, recheck, loopVars, bounds, missed>>

Mark ==
  /\ At("reader", "mark") /\ Becomes("reader", Enter("kick"))
  /\ recheck' = TRUE
  /\ UNCHANGED <<key, msgs, paused, gen, kick, loopVars, bounds, missed>>

-----------------------------------------------------------------------------
(* setPaused and kickPause, from any thread.                               *)

(* A pop or sweep is late if gen moved after its check, a Pause or Resume  *)
(* if a message was handled since its script ran.                          *)
Late(t) ==
  \/ t \in Askers /\ gen # thread[t].gen
  \/ t = "call" /\ gen # thread[t].gen + 1

(* Mutant of Set: no kick.                                                 *)
SetNoKick(t) ==
  /\ At(t, "set") /\ Ends(t)
  /\ paused' = thread[t].val
  /\ missed' = (missed \/ Late(t))
  /\ UNCHANGED <<key, msgs, gen, kick, recheck, loopVars, bounds>>

(* paused.Swap.                                                            *)
Set(t) ==
  /\ At(t, "set")
  /\ IF paused # thread[t].val THEN Becomes(t, Enter("kick")) ELSE Ends(t)
  /\ paused' = thread[t].val
  /\ missed' = (missed \/ Late(t))
  /\ UNCHANGED <<key, msgs, gen, kick, recheck, loopVars, bounds>>

(* A send to a channel of one: a kick while one waits is the same kick.    *)
Kick(t) ==
  /\ At(t, "kick") /\ Ends(t)
  /\ kick' = TRUE
  /\ UNCHANGED <<key, msgs, paused, gen, recheck, loopVars, bounds, missed>>

-----------------------------------------------------------------------------
(* pauseLoop.                                                              *)

LoopTake ==
  /\ loop.at = "wait" /\ kick
  /\ loop' = Enter("taken") /\ kick' = FALSE
  /\ UNCHANGED <<key, msgs, paused, gen, recheck, thread, told, bounds, missed>>

LoopRecheck ==
  /\ loop.at = "taken" /\ loop' = Enter(IF recheck THEN "load" ELSE "tell")
  /\ recheck' = FALSE
  /\ UNCHANGED <<key, msgs, paused, gen, kick, thread, told, bounds, missed>>

LoopLoad ==
  /\ loop.at = "load" /\ loop' = [at |-> "ask", gen |-> gen, val |-> FALSE]
  /\ UNCHANGED <<key, msgs, clientVars, thread, told, bounds, missed>>

(* EXISTS of the key, or an error.                                         *)
LoopAsk ==
  /\ loop.at = "ask" /\ loop' = [at |-> "verify", gen |-> loop.gen, val |-> key]
  /\ UNCHANGED <<key, msgs, clientVars, thread, told, bounds, missed>>

LoopError ==
  /\ Fault
  /\ loop.at = "ask" /\ loop' = Enter("tell")
  /\ missed' = TRUE
  /\ UNCHANGED <<key, msgs, clientVars, thread, told>>

LoopVerify ==
  /\ loop.at = "verify"
  /\ loop' = IF gen = loop.gen THEN [loop EXCEPT !.at = "store"] ELSE Enter("tell")
  /\ UNCHANGED <<key, msgs, clientVars, thread, told, bounds, missed>>

LoopStore ==
  /\ loop.at = "store" /\ loop' = Enter("tell")
  /\ paused' = loop.val
  /\ missed' = (missed \/ gen # loop.gen)
  /\ UNCHANGED <<key, msgs, gen, kick, recheck, thread, told, bounds>>

(* The hooks are called if the state differs from what they were told.     *)
LoopTell ==
  /\ loop.at = "tell" /\ loop' = Enter("wait")
  /\ told' = paused
  /\ UNCHANGED <<key, msgs, clientVars, thread, bounds, missed>>

Loop == LoopTake \/ LoopRecheck \/ LoopLoad \/ LoopAsk \/ LoopVerify \/ LoopStore \/ LoopTell

-----------------------------------------------------------------------------
Next ==
  \/ Remote \/ Lose \/ \E m \in Messages : Forge(m)
  \/ \E t \in Askers : Ask(t) \/ Answer(t) \/ NoAnswer(t) \/ Check(t)
  \/ \E v \in BOOLEAN : BeginCall(v)
  \/ RunCall \/ FailCall \/ Receive \/ Mark
  \/ \E t \in Setters : Bump(t)
  \/ \E t \in Threads : Set(t) \/ Kick(t)
  \/ Loop \/ LoopError

Spec == Init /\ [][Next]_vars

(* Goroutines run, calls to Redis end, the subscription is read, and the   *)
(* sweep comes round every second; nothing makes anyone pop, pause or      *)
(* resume.                                                                 *)
Fairness ==
  /\ \A t \in Askers \cap {"sweep"} : WF_vars(Ask(t))
  /\ \A t \in Askers : WF_vars(Answer(t)) /\ WF_vars(Check(t))
  /\ WF_vars(RunCall) /\ WF_vars(Receive) /\ WF_vars(Mark)
  /\ \A t \in Setters : WF_vars(Bump(t))
  /\ \A t \in Threads : WF_vars(Set(t)) /\ WF_vars(Kick(t))
  /\ WF_vars(Loop)

LiveSpec == Spec /\ Fairness

-----------------------------------------------------------------------------
(* Properties.                                                             *)

(* No change is kept from the hooks: whenever the cache differs from what  *)
(* they were last told, pauseLoop is running, a kick waits for it, or a    *)
(* goroutine is about to kick (OnPauseChange: "the last call is the        *)
(* current state").                                                        *)
HookOwed ==
  told # paused => kick \/ loop.at # "wait" \/ \E t \in Threads : At(t, "kick")

(* Nothing is under way that could still set the cache.                    *)
Quiet ==
  /\ msgs = <<>> /\ At("call", "idle") /\ At("reader", "idle")
  /\ \A t \in Askers : thread[t].at \notin {"set", "kick"}
  /\ loop.at = "wait" /\ ~kick

(* Once everything has been handled the cache and the hooks have the key's *)
(* state, without waiting for a sweep, unless a message was lost or forged *)
(* as "resumed", the loop's read failed, or a change landed in the window  *)
(* between a check and its set.  In particular a reply that is older than  *)
(* a Pause, Resume or control message does not undo it (observe), and a    *)
(* forged "paused:" never stops the consumer (control).                    *)
QuietAgrees == Quiet /\ ~missed => paused = key /\ told = key

(* Whatever was lost, forged or overwritten, once the calls have stopped   *)
(* the cache and the hooks come to the key's state and stay there: "the    *)
(* next pop or sweep (<= 1 s) corrects it" (observe).                      *)
Converges == <>[](paused = key /\ told = key)

=============================================================================
