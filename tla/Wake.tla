-------------------------------- MODULE Wake --------------------------------
(***************************************************************************)
(* How consumers of a distributed list queue learn of work                 *)
(* (notification.go, distributed.go).  A consumer that finds the queue     *)
(* empty joins the idle set in Redis; a push or requeue takes members out  *)
(* of it and publishes on their wake channels; once a second a nudge pokes *)
(* a consumer whose queue has items and puts an idle one back in the set.  *)
(*                                                                         *)
(* Items are counted, not named: AckQueue follows each job.  A consumer    *)
(* works on one item at a time, as varmq drives it (external): a signal    *)
(* makes a waiting consumer pop, a busy one ignores it, and one that       *)
(* finished its item pops again.                                           *)
(***************************************************************************)
EXTENDS Naturals, FiniteSets

CONSTANTS
  Consumers,   \* DistributedQueue objects that Subscribe
  MaxPushes,   \* bound: items pushed
  Uses         \* what happens besides pushes and pops, see AllUses

AllUses == {"nudge", "len", "dequeue", "sweep", "manual", "close", "crash",
            "reconnect", "pause"}

ASSUME WakeAssumption ==
  IsFiniteSet(Consumers) /\ MaxPushes \in Nat /\ Uses \subseteq AllUses

VARIABLES
  len,       \* length of the queue
  pushes,    \* items pushed so far
  has,       \* consumers with an item in the pending hash
  idle,      \* the SET <key>:idle
  paused,    \* the queue is paused
  subs,      \* consumers whose wake channel Redis sees subscribed
  phase,     \* phase[c]: the life of consumer c
  at,        \* at[c]: where c's worker is
  flag,      \* flag[c]: Notification.idle
  signal,    \* signal[c]: a wake is on its way to c's worker
  nudgeAt,   \* nudgeAt[c]: "off", the flag a nudge was sent with, or "poke"
  lenDue,    \* consumers whose Len found 0 and has yet to set the flag
  owed,      \* owed[c]: items c requeued and has yet to wake consumers for
  lost       \* history: a wake was lost in a way the code leaves to the nudge

queueVars == <<len, pushes, has, paused>>
clientVars == <<subs, phase, at, flag, nudgeAt, lenDue, owed>>
vars == <<queueVars, clientVars, idle, signal, lost>>

Phases == {"new", "open", "leaving", "released", "closed", "dead"}
Steps == {"waiting", "looking", "took", "missed", "refused", "rawmiss", "busy"}

(* Every variable holds what its comment says, and a push, a pop or a      *)
(* requeue neither makes nor loses an item: no more are in the queue and   *)
(* pending than were pushed.                                               *)
TypeOK ==
  /\ pushes \in 0..MaxPushes
  /\ has \subseteq Consumers /\ idle \subseteq Consumers /\ subs \subseteq Consumers
  /\ len \in Nat /\ len + Cardinality(has) <= pushes
  /\ paused \in BOOLEAN /\ lost \in BOOLEAN
  /\ phase \in [Consumers -> Phases] /\ at \in [Consumers -> Steps]
  /\ flag \in [Consumers -> BOOLEAN] /\ signal \in [Consumers -> BOOLEAN]
  /\ nudgeAt \in [Consumers -> {"off", "idle", "busy", "poke"}]
  /\ lenDue \subseteq Consumers
  /\ owed \in [Consumers -> 0..MaxPushes]

Init ==
  /\ len = 0 /\ pushes = 0 /\ has = {} /\ idle = {} /\ paused = FALSE
  /\ subs = Consumers
  /\ phase = [c \in Consumers |-> "new"]
  /\ at = [c \in Consumers |-> "waiting"]
  /\ flag = [c \in Consumers |-> FALSE]
  /\ signal = [c \in Consumers |-> FALSE]
  /\ nudgeAt = [c \in Consumers |-> "off"]
  /\ lenDue = {}
  /\ owed = [c \in Consumers |-> 0]
  /\ lost = FALSE

Open(c) == phase[c] = "open"
Go(c, step) == at' = [at EXCEPT ![c] = step]

-----------------------------------------------------------------------------
(* Wakes.                                                                  *)

(* Mutant of WakeUp: a member counts as woken before anyone hears it.      *)
WakeUpDeaf(count) ==
  \E S \in SUBSET idle :
    /\ Cardinality(S) <= count
    /\ Cardinality(S) < count => S = idle
    /\ idle' = idle \ S
    /\ signal' = [c \in Consumers |-> signal[c] \/ c \in S \cap subs]
    /\ lost' = (lost \/ \E c \in S : Open(c) # (c \in subs))

(* wake: members S leave the idle set in SPOP's order until count of them  *)
(* were subscribed or the set is empty.  Two wakes are lost: an open       *)
(* consumer that is reconnecting is dropped as gone, and one that is       *)
(* closing but still subscribed takes a wake it has no use for.            *)
WakeUp(count) ==
  \E S \in SUBSET idle :
    LET woken == S \cap subs IN
    /\ count = 0 => S = {}
    /\ Cardinality(woken) <= count
    /\ Cardinality(woken) < count => S = idle
    /\ idle' = idle \ S
    /\ signal' = [c \in Consumers |-> signal[c] \/ c \in woken]
    /\ lost' = (lost \/ \E c \in S : Open(c) # (c \in subs))

(* listPushWake: RPUSH and up to one wake per waiting item, in one step.   *)
Enqueue ==
  /\ pushes < MaxPushes /\ pushes' = pushes + 1
  /\ len' = len + 1
  /\ WakeUp(len')
  /\ UNCHANGED <<has, paused, clientVars>>

(* A consumer's reader hands the wake to its worker, which may be busy.    *)
Deliver(c) ==
  /\ signal[c] /\ signal' = [signal EXCEPT ![c] = FALSE]
  /\ \/ Open(c) /\ at[c] = "waiting" /\ Go(c, "looking") /\ UNCHANGED lost
     \/ (~Open(c) \/ at[c] = "busy") /\ lost' = TRUE /\ UNCHANGED at
  /\ UNCHANGED <<queueVars, idle, subs, phase, flag, nudgeAt, lenDue, owed>>

-----------------------------------------------------------------------------
(* Pops.  "looking" is a pop on its way to Redis, with the consumer ID it  *)
(* was sent with; it may run after its consumer left or died.              *)

(* listAckPopOne: a miss joins the idle set in the same step, a refusal    *)
(* does not.                                                               *)
PopScript(c) ==
  /\ at[c] = "looking"
  /\ \/ paused /\ Go(c, "refused") /\ UNCHANGED <<len, has, idle>>
     \/ ~paused /\ len > 0 /\ Go(c, "took")
        /\ len' = len - 1 /\ has' = has \cup {c} /\ UNCHANGED idle
     \/ ~paused /\ len = 0 /\ Go(c, "missed")
        /\ idle' = idle \cup {c} /\ UNCHANGED <<len, has>>
  /\ UNCHANGED <<pushes, paused, subs, phase, flag, signal, nudgeAt, lenDue, owed, lost>>

(* DequeueWithAckId stores the flag.  Where pauses happen the cached pause *)
(* that a miss looks at may be stale, either way (see PauseCache).         *)
PopReply(c) ==
  /\ phase[c] \in {"open", "leaving", "released"}
  /\ \/ at[c] = "took" /\ Go(c, "busy") /\ flag' = [flag EXCEPT ![c] = FALSE]
     \/ at[c] \in {"missed", "refused"} /\ Go(c, "waiting")
        /\ \E f \in BOOLEAN :
             /\ "pause" \notin Uses => f
             /\ flag' = [flag EXCEPT ![c] = f]
  /\ UNCHANGED <<queueVars, idle, subs, phase, signal, nudgeAt, lenDue, owed, lost>>

(* Dequeue: the raw pop, and after a miss markIdle as a call of its own,   *)
(* which a push between the two does not see; a miss that the cached pause *)
(* takes for a paused one joins nothing, and the cache may be stale, either*)
(* way.  markIdle of a consumer that left may have looked at               *)
(* Notification.consumer before.                                           *)
RawPop(c) ==
  /\ "dequeue" \in Uses
  /\ at[c] = "looking" /\ Open(c)
  /\ \/ ~paused /\ len > 0 /\ Go(c, "busy")
        /\ len' = len - 1 /\ flag' = [flag EXCEPT ![c] = FALSE]
     \/ (paused \/ len = 0) /\ \E step \in {"rawmiss", "waiting"} :
          /\ "pause" \notin Uses => step = "rawmiss"
          /\ Go(c, step)
        /\ UNCHANGED <<len, flag>>
  /\ UNCHANGED <<pushes, has, paused, idle, subs, phase, signal, nudgeAt, lenDue,
                 owed, lost>>

MarkIdle(c) ==
  /\ at[c] = "rawmiss" /\ Go(c, "waiting")
  /\ \/ /\ flag' = [flag EXCEPT ![c] = TRUE]
        /\ idle' = idle \cup {c}
        /\ lost' = (lost \/ len > 0)
     \/ ~Open(c) /\ UNCHANGED <<flag, idle, lost>>
  /\ UNCHANGED <<queueVars, subs, phase, signal, nudgeAt, lenDue, owed>>

(* The worker finishes its item, acknowledges it, and looks for the next.  *)
Done(c) ==
  /\ at[c] = "busy" /\ Open(c)
  /\ Go(c, "looking")
  /\ has' = has \ {c}
  /\ UNCHANGED <<len, pushes, paused, idle, subs, phase, flag, signal, nudgeAt,
                 lenDue, owed, lost>>

(* Len from anywhere in the process: lenIdle, and then the flag.  One that *)
(* was sent before its consumer left or died may run after.                *)
LenScript(c) ==
  /\ "len" \in Uses /\ phase[c] # "new"
  /\ len = 0 /\ c \notin lenDue
  /\ idle' = idle \cup {c}
  /\ lenDue' = IF phase[c] = "dead" THEN lenDue ELSE lenDue \cup {c}
  /\ UNCHANGED <<queueVars, subs, phase, at, flag, signal, nudgeAt, owed, lost>>

LenReply(c) ==
  /\ c \in lenDue /\ lenDue' = lenDue \ {c}
  /\ flag' = [flag EXCEPT ![c] = TRUE]
  /\ UNCHANGED <<queueVars, idle, subs, phase, at, signal, nudgeAt, owed, lost>>

-----------------------------------------------------------------------------
(* The nudge, once a second.                                               *)

NudgeSend(c) ==
  /\ "nudge" \in Uses /\ Open(c)
  /\ nudgeAt[c] = "off"
  /\ nudgeAt' = [nudgeAt EXCEPT ![c] = IF flag[c] THEN "idle" ELSE "busy"]
  /\ UNCHANGED <<queueVars, idle, subs, phase, at, flag, signal, lenDue, owed, lost>>

(* Mutant of NudgeScript: it mends the idle set but pokes no one.          *)
NudgeScriptQuiet(c) ==
  /\ nudgeAt[c] \in {"idle", "busy"} /\ nudgeAt' = [nudgeAt EXCEPT ![c] = "off"]
  /\ idle' = IF len > 0 THEN idle \ {c}
             ELSE IF nudgeAt[c] = "idle" THEN idle \cup {c} ELSE idle
  /\ UNCHANGED <<queueVars, subs, phase, at, flag, signal, lenDue, owed, lost>>

(* The script: with items waiting the consumer leaves the set and is to be *)
(* poked; with none, one that was idle when the nudge was sent is put back.*)
NudgeScript(c) ==
  /\ nudgeAt[c] \in {"idle", "busy"}
  /\ \/ len > 0 /\ idle' = idle \ {c} /\ nudgeAt' = [nudgeAt EXCEPT ![c] = "poke"]
     \/ len = 0 /\ nudgeAt' = [nudgeAt EXCEPT ![c] = "off"]
        /\ idle' = (IF nudgeAt[c] = "idle" THEN idle \cup {c} ELSE idle)
  /\ UNCHANGED <<queueVars, subs, phase, at, flag, signal, lenDue, owed, lost>>

(* The poke of this consumer's own worker, which a busy one ignores; it    *)
(* does not pass through Redis.                                            *)
Poke(c) ==
  /\ nudgeAt[c] = "poke" /\ nudgeAt' = [nudgeAt EXCEPT ![c] = "off"]
  /\ at' = [at EXCEPT ![c] = IF Open(c) /\ @ = "waiting" THEN "looking" ELSE @]
  /\ UNCHANGED <<queueVars, idle, subs, phase, flag, signal, lenDue, owed, lost>>

-----------------------------------------------------------------------------
(* Requeues.                                                               *)

(* Mutant of SweepMove: the items stay pending.                            *)
SweepMoveKeeps(s) ==
  /\ "sweep" \in Uses
  /\ phase[s] \in {"new", "open"} /\ owed[s] = 0
  /\ \E S \in SUBSET has \ {{}} :
       /\ len' = len + Cardinality(S)
       /\ owed' = [owed EXCEPT ![s] = Cardinality(S)]
  /\ UNCHANGED <<has, pushes, paused, idle, subs, phase, at, flag, signal, nudgeAt,
                 lenDue, lost>>

(* A sweep moves items of dead, gone or late consumers back to the queue,  *)
(* and wakes consumers for them in a second call, which may fail.          *)
SweepMove(s) ==
  /\ "sweep" \in Uses
  /\ phase[s] \in {"new", "open"} /\ owed[s] = 0
  /\ \E S \in SUBSET has \ {{}} :
       /\ has' = has \ S
       /\ len' = len + Cardinality(S)
       /\ owed' = [owed EXCEPT ![s] = Cardinality(S)]
  /\ UNCHANGED <<pushes, paused, idle, subs, phase, at, flag, signal, nudgeAt,
                 lenDue, lost>>

WakeForRequeued(s) ==
  /\ owed[s] > 0 /\ owed' = [owed EXCEPT ![s] = 0]
  /\ phase[s] \in {"new", "open", "released"}
  /\ \/ WakeUp(owed[s])
     \/ lost' = TRUE /\ UNCHANGED <<idle, signal>>
  /\ UNCHANGED <<queueVars, subs, phase, at, flag, nudgeAt, lenDue>>

(* RequeueNackedItems, which calls no onRequeue.                           *)
RequeueNackedItems(s) ==
  /\ "manual" \in Uses /\ Open(s)
  /\ \E S \in SUBSET has \ {{}} :
       /\ has' = has \ S
       /\ len' = len + Cardinality(S)
  /\ UNCHANGED <<pushes, paused, clientVars, idle, signal, lost>>

-----------------------------------------------------------------------------
(* The life of a consumer.                                                 *)

(* Subscribe: an item that already waits is left to the nudge.             *)
Subscribe(c) ==
  /\ phase[c] = "new" /\ phase' = [phase EXCEPT ![c] = "open"]
  /\ flag' = [flag EXCEPT ![c] = TRUE]
  /\ idle' = idle \cup {c}
  /\ lost' = (lost \/ len > 0)
  /\ UNCHANGED <<queueVars, subs, at, signal, nudgeAt, lenDue, owed>>

(* DistributedQueue.Close: leave; then Queue.Close requeues the consumer's *)
(* item and wakes another for it; then Stop.                               *)
Leave(c) ==
  /\ "close" \in Uses
  /\ Open(c) /\ phase' = [phase EXCEPT ![c] = "leaving"]
  /\ idle' = idle \ {c}
  /\ lost' = (lost \/ signal[c] \/ at[c] = "looking" \/ owed[c] > 0)
  /\ owed' = [owed EXCEPT ![c] = 0]
  /\ UNCHANGED <<queueVars, subs, at, flag, signal, nudgeAt, lenDue>>

Release(c) ==
  /\ phase[c] = "leaving" /\ phase' = [phase EXCEPT ![c] = "released"]
  /\ len' = len + Cardinality(has \cap {c})
  /\ has' = has \ {c}
  /\ owed' = [owed EXCEPT ![c] = Cardinality(has \cap {c})]
  /\ UNCHANGED <<pushes, paused, idle, subs, at, flag, signal, nudgeAt, lenDue, lost>>

Stop(c) ==
  /\ phase[c] = "released" /\ owed[c] = 0
  /\ phase' = [phase EXCEPT ![c] = "closed"]
  /\ idle' = idle \ {c}
  /\ subs' = subs \ {c}
  /\ signal' = [signal EXCEPT ![c] = FALSE]
  /\ lost' = (lost \/ signal[c])
  /\ UNCHANGED <<queueVars, at, flag, nudgeAt, lenDue, owed>>

(* The process dies: it stays in the idle set, and what it was about to do *)
(* is lost.                                                                *)
Crash(c) ==
  /\ "crash" \in Uses
  /\ Open(c) /\ phase' = [phase EXCEPT ![c] = "dead"]
  /\ subs' = subs \ {c}
  /\ signal' = [signal EXCEPT ![c] = FALSE]
  /\ lost' = (lost \/ signal[c] \/ at[c] = "looking" \/ owed[c] > 0)
  /\ owed' = [owed EXCEPT ![c] = 0]
  /\ lenDue' = lenDue \ {c}
  /\ UNCHANGED <<queueVars, idle, at, flag, nudgeAt>>

(* The pub/sub connection drops, with what was sent on it, and is back     *)
(* later.                                                                  *)
Disconnect(c) ==
  /\ "reconnect" \in Uses
  /\ Open(c) /\ c \in subs /\ subs' = subs \ {c}
  /\ signal' = [signal EXCEPT ![c] = FALSE]
  /\ lost' = (lost \/ signal[c])
  /\ UNCHANGED <<queueVars, idle, phase, at, flag, nudgeAt, lenDue, owed>>

Reconnect(c) ==
  /\ Open(c) /\ c \notin subs /\ subs' = subs \cup {c}
  /\ UNCHANGED <<queueVars, idle, phase, at, flag, signal, nudgeAt, lenDue, owed, lost>>

-----------------------------------------------------------------------------
(* Pause, and Resume with its wakes, one per waiting item.                 *)

Pause ==
  /\ "pause" \in Uses
  /\ ~paused /\ paused' = TRUE
  /\ UNCHANGED <<len, pushes, has, clientVars, idle, signal, lost>>

Resume ==
  /\ paused /\ paused' = FALSE
  /\ WakeUp(len)
  /\ UNCHANGED <<len, pushes, has, clientVars>>

-----------------------------------------------------------------------------
Next ==
  \/ Enqueue \/ Pause \/ Resume
  \/ \E c \in Consumers :
       \/ Deliver(c) \/ PopScript(c) \/ PopReply(c) \/ RawPop(c) \/ MarkIdle(c)
       \/ Done(c) \/ LenScript(c) \/ LenReply(c)
       \/ NudgeSend(c) \/ NudgeScript(c) \/ Poke(c)
       \/ SweepMove(c) \/ WakeForRequeued(c) \/ RequeueNackedItems(c)
       \/ Subscribe(c) \/ Leave(c) \/ Release(c) \/ Stop(c) \/ Crash(c)
       \/ Disconnect(c) \/ Reconnect(c)

Spec == Init /\ [][Next]_vars

(* A consumer's nudge comes every second and its pops end; that wakes      *)
(* arrive is not assumed.                                                  *)
Fairness ==
  \A c \in Consumers :
    /\ WF_vars(NudgeSend(c)) /\ WF_vars(NudgeScript(c)) /\ WF_vars(Poke(c))
    /\ WF_vars(PopScript(c)) /\ WF_vars(PopReply(c)) /\ WF_vars(MarkIdle(c))

LiveSpec == Spec /\ Fairness

-----------------------------------------------------------------------------
(* Properties.                                                             *)

(* The consumers about to look at the queue, those asleep in the idle set, *)
(* and the requeued items whose wakes are still to come: <<c, n>> is the   *)
(* n-th of c's.                                                            *)
Coming == {c \in Consumers : Open(c) /\ (signal[c] \/ at[c] = "looking")}
Asleep == {c \in idle : Open(c) /\ at[c] = "waiting" /\ ~signal[c]}
Announced == {mark \in Consumers \X (1..MaxPushes) : mark[2] <= owed[mark[1]]}

(* No wake is lost but in the ways the code leaves to the nudge: while a   *)
(* consumer sleeps in the idle set, as many consumers are on their way to  *)
(* the queue, or requeued items about to be announced, as items wait.  The *)
(* pop that misses joins the idle set in its own script, so a push lands   *)
(* before it or finds it (popOneTail, lenIdle, listPushWake, resumeScript).*)
(* A nudge about to poke does not count: it mends, it owes nothing.        *)
WakeOwed ==
  ~lost /\ ~paused /\ Asleep # {} =>
    len <= Cardinality(Coming) + Cardinality(Announced)

(* A consumer that works on an item is not in the idle set, where a wake   *)
(* meant for a free one would reach it (nudge: "A busy consumer is not put *)
(* back").                                                                 *)
BusyNotIdle == \A c \in Consumers : Open(c) /\ at[c] = "busy" => c \notin idle

(* Whatever wakes were lost, an open consumer ends up with an item or sees *)
(* the queue empty or paused: while items wait its nudge pokes it, and the *)
(* poke makes it pop (nudgeLoop, nudge).                                   *)
Served ==
  \A c \in Consumers :
    len > 0 /\ Open(c) ~> len = 0 \/ paused \/ ~Open(c) \/ at[c] = "busy"

=============================================================================
