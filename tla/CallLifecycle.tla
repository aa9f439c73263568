---------------------------- MODULE CallLifecycle ----------------------------
(***************************************************************************)
(* The task of one phone call: Orchestrator._process_call and all it       *)
(* awaits (_dialog_loop, _listen, _run_turn, _say, _say_safe, _save), next *)
(* to the task of the agent's turn (AgentTurn), the call timer and the     *)
(* audio bridge of the caller.                                             *)
(*                                                                         *)
(* pc names the await the task is suspended in.  The audio below _say and  *)
(* _listen is reduced to what this level can tell apart (variable audio):  *)
(* a phrase that waits for the bridge, plays, or waits for the drain of a  *)
(* queue nobody reads any more; a caller who can or cannot be heard.       *)
(* stored is the snapshot RedisStateStore holds.                           *)
(***************************************************************************)
EXTENDS AgentTurn

CONSTANTS
    MaxRetries,     \* Settings.max_retries
    MaxTurns,       \* bound: replies of the caller that are understood
    EatsCancel      \* asyncio.wait_for of Python 3.11 returns the result
                    \* of a finished future instead of raising a
                    \* cancellation that arrives together with it

ASSUME CallAssumption ==
    /\ MaxRetries \in Nat
    /\ MaxTurns \in Nat
    /\ EatsCancel \in BOOLEAN

VARIABLES
    pc,         \* where the task of the call is suspended
    kind,       \* "dialog", or "announcement" (ConversationState.announcement)
    audio,      \* state of the _say or _listen in progress
    bridge,     \* the AudioSession of the call: not yet there, registered,
                \* registered but its sender has crashed, removed
    timer,      \* asyncio.timeout(call_timeout_seconds)
    retry,      \* ConversationState.retry_count
    turns,      \* replies understood so far (bounded by MaxTurns)
    stored,     \* the snapshot in the state store
    orphaned,   \* history: llm_task was left running by the call timeout
    failed,     \* history: the dialog ended in "call_failed"
    hung        \* telephony.hangup has succeeded

callVars == <<pc, kind, audio, bridge, timer, retry, turns, stored,
              orphaned, failed, hung>>
vars == <<agentVars, callVars>>

(* Awaits of _say, of the dialog, and of the end of _process_call.         *)
SayLabels == {"announcement", "greeting", "noInput", "noInputBye",
              "filler", "apology", "reply", "timeoutBye"}
SafeSays == {"filler", "apology", "timeoutBye"}     \* through _say_safe
DialogLabels == (SayLabels \ {"timeoutBye"})
                    \cup {"listen", "softWait", "hardWait", "saveTurn"}
TurnLabels == {"softWait", "filler", "hardWait"}    \* llm_task is awaited
Labels == DialogLabels
            \cup {"start", "timeoutBye", "saveFinal", "hangup", "done", "aborted"}

Registered == bridge \in {"up", "mute"}        \* get_session finds it

(* A phrase plays: over a bridge that _say found up, so that the caller    *)
(* can cut in, or over one that send_audio had to wait for.                *)
Playing == {"duplex", "playing"}

Snapshot == [step |-> step, slot |-> slot, retry |-> retry]

TypeOK ==
    /\ AgentTypeOK
    /\ pc \in Labels
    /\ kind \in {"dialog", "announcement"}
    /\ audio \in {"none", "waiting"} \cup Playing \cup {"stuck", "hearing", "deaf"}
    /\ bridge \in {"none", "up", "mute", "gone"}
    /\ timer \in {"off", "armed", "expired", "eaten"}
    /\ retry \in 0..MaxRetries
    /\ turns \in 0..MaxTurns
    /\ stored \in [step : Steps, slot : 0..MaxBookings, retry : 0..MaxRetries]
    /\ orphaned \in BOOLEAN
    /\ failed \in BOOLEAN
    /\ hung \in BOOLEAN

(* handle_callback (bridge still to come) or handle_inbound_call (bridge   *)
(* already up) has saved the state and created the task.                   *)
Init ==
    /\ AgentInit
    /\ pc = "start"
    /\ kind \in {"dialog", "announcement"}
    /\ bridge \in IF kind = "dialog" THEN {"none", "up"} ELSE {"none"}
    /\ audio = "none"
    /\ timer = "off"
    /\ retry = 0
    /\ turns = 0
    /\ stored = Snapshot
    /\ orphaned = FALSE
    /\ failed = FALSE
    /\ hung = FALSE

-----------------------------------------------------------------------------
(* Moves of the task from one await to the next.                           *)

(* _say: send_audio finds the AudioSession at once, or polls for it        *)
(* (wait_for_session).                                                     *)
Say(label) ==
    /\ pc' = label
    /\ audio' = IF Registered THEN "duplex" ELSE "waiting"
    /\ UNCHANGED timer

(* _listen: without an AudioSession it returns "" whatever the caller says.*)
Listen ==
    /\ pc' = "listen"
    /\ audio' = IF Registered THEN "hearing" ELSE "deaf"
    /\ UNCHANGED timer

Goto(label) ==
    /\ pc' = label
    /\ audio' = "none"
    /\ UNCHANGED timer

(* Faulty variant: hangs up without the last save. *)
LeaveDialogUnsaved ==
    /\ pc' = "hangup"
    /\ audio' = "none"
    /\ timer' = IF timer = "armed" THEN "off" ELSE timer

(* The dialog is over: the async with asyncio.timeout block is left and    *)
(* the finally clause of _process_call begins.                             *)
LeaveDialog ==
    /\ pc' = "saveFinal"
    /\ audio' = "none"
    /\ timer' = IF timer = "armed" THEN "off" ELSE timer

LoopHead(s) == IF s \in TERMINAL_STEPS THEN LeaveDialog ELSE Listen

(* An exception out of _dialog_loop: "call_failed", the step stays.  But a *)
(* TimeoutError of a provider is taken for the call's own time limit.      *)
Raise ==
    \/ LeaveDialog /\ failed' = TRUE /\ UNCHANGED step
    \/ /\ timer' = IF timer = "armed" THEN "off" ELSE timer
       /\ step' = "END"
       /\ pc' = "timeoutBye"
       /\ audio' = IF Registered THEN "duplex" ELSE "waiting"
       /\ UNCHANGED failed

-----------------------------------------------------------------------------
(* The task of the call.                                                   *)

(* Faulty variant: no asyncio.timeout around the dialog. *)
BeginUnlimited ==
    /\ pc = "start"
    /\ pc' = IF kind = "announcement" THEN "announcement" ELSE "greeting"
    /\ audio' = IF Registered THEN "duplex" ELSE "waiting"
    /\ UNCHANGED <<agentVars, kind, bridge, timer, retry, turns, stored, orphaned, failed, hung>>

Begin ==
    /\ pc = "start"
    /\ pc' = IF kind = "announcement" THEN "announcement" ELSE "greeting"
    /\ audio' = IF Registered THEN "duplex" ELSE "waiting"
    /\ timer' = "armed"
    /\ UNCHANGED <<agentVars, kind, bridge, retry, turns, stored, orphaned, failed, hung>>

(* state_store.get raises: nothing has been entered yet, so there is       *)
(* neither a save nor a hangup.                                            *)
BeginFails ==
    /\ pc = "start"
    /\ Goto("aborted")
    /\ UNCHANGED <<agentVars, kind, bridge, retry, turns, stored, orphaned, failed, hung>>

(* The bridge has connected while send_audio was polling for it.           *)
SayAttaches ==
    /\ audio = "waiting" /\ Registered
    /\ audio' = "playing"
    /\ UNCHANGED <<agentVars, pc, kind, bridge, timer, retry, turns, stored, orphaned, failed, hung>>

(* Faulty variant: the filler ends the turn, llm_task is not awaited again. *)
AfterSayGivesUp ==
    \/ /\ pc \in {"announcement", "noInputBye"}
       /\ step' = "END"
       /\ LeaveDialog
    \/ /\ pc \in {"greeting", "noInput"}
       /\ LoopHead(step)
       /\ UNCHANGED step
    \/ pc \in {"filler", "apology", "reply"} /\ Goto("saveTurn") /\ UNCHANGED step
    \/ pc = "timeoutBye" /\ Goto("saveFinal") /\ UNCHANGED step

(* What the code does once _say has returned.                              *)
AfterSay ==
    \/ /\ pc \in {"announcement", "noInputBye"}
       /\ step' = "END"
       /\ LeaveDialog
    \/ /\ pc \in {"greeting", "noInput"}
       /\ LoopHead(step)
       /\ UNCHANGED step
    \/ pc = "filler" /\ Goto("hardWait") /\ UNCHANGED step
    \/ pc \in {"apology", "reply"} /\ Goto("saveTurn") /\ UNCHANGED step
    \/ pc = "timeoutBye" /\ Goto("saveFinal") /\ UNCHANGED step

(* Played to the end, cut short by the caller (barge-in), or no bridge     *)
(* within the 10 seconds of wait_for_session: _say returns all the same.   *)
SayReturns ==
    /\ pc \in SayLabels
    /\ \/ audio \in Playing
       \/ audio = "waiting" /\ ~Registered
    /\ AfterSay
    /\ UNCHANGED <<turnVars, kind, bridge, retry, turns, stored, orphaned, failed, hung>>

(* Synthesis or the provider raises.                                       *)
SayRaises ==
    /\ pc \in SayLabels
    /\ audio \in Playing
    /\ IF pc \in SafeSays
       THEN AfterSay /\ UNCHANGED failed
       ELSE Raise
    /\ UNCHANGED <<turnVars, kind, bridge, retry, turns, stored, orphaned, hung>>

(* The queue has lost its reader, because the bridge is gone or its sender *)
(* has crashed, with chunks in it or still to come: wait_drained will not  *)
(* return.  Chunks taken in time let the phrase end as usual.              *)
SayStrands ==
    /\ pc \in SayLabels /\ audio \in Playing
    /\ bridge \in {"mute", "gone"}
    /\ audio' = "stuck"
    /\ UNCHANGED <<agentVars, pc, kind, bridge, timer, retry, turns, stored, orphaned, failed, hung>>

(* A caller whose bridge is still there can cut in even then: the queue is *)
(* cleared and _say returns.                                               *)
SayCutIn ==
    /\ pc \in SayLabels
    /\ audio = "stuck" /\ bridge = "mute"
    /\ AfterSay
    /\ UNCHANGED <<turnVars, kind, bridge, retry, turns, stored, orphaned, failed, hung>>

(* Faulty variant: one attempt too many. *)
ListenEmptyOnceMore ==
    /\ pc = "listen"
    /\ IF retry > MaxRetries
       THEN Say("noInputBye") /\ UNCHANGED retry
       ELSE Say("noInput") /\ retry' = retry + 1
    /\ UNCHANGED <<agentVars, kind, bridge, turns, stored, orphaned, failed, hung>>

ListenEmpty ==
    /\ pc = "listen"
    /\ IF retry >= MaxRetries
       THEN Say("noInputBye") /\ UNCHANGED retry
       ELSE Say("noInput") /\ retry' = retry + 1
    /\ UNCHANGED <<agentVars, kind, bridge, turns, stored, orphaned, failed, hung>>

(* The caller is understood: _run_turn starts llm_task.                    *)
ListenText ==
    /\ pc = "listen" /\ audio = "hearing"
    /\ turns < MaxTurns
    /\ turns' = turns + 1
    /\ retry' = 0
    /\ StartTurn
    /\ Goto("softWait")
    /\ UNCHANGED <<step, kind, bridge, stored, orphaned, failed, hung>>

ListenRaises ==
    /\ pc = "listen" /\ audio = "hearing"
    /\ Raise
    /\ UNCHANGED <<turnVars, kind, bridge, retry, turns, stored, orphaned, hung>>

(* llm_soft_timeout_seconds: a filler phrase while the shielded task runs; *)
(* a TimeoutError of the task itself is taken for it.                      *)
SoftTimeout ==
    /\ pc = "softWait" /\ (LlmAlive \/ llm = "failed")
    /\ Say("filler")
    /\ UNCHANGED <<agentVars, kind, bridge, retry, turns, stored, orphaned, failed, hung>>

(* Faulty variant: an answer without text skips the save of the turn. *)
TurnEndsUnsaved ==
    /\ pc \in {"softWait", "hardWait"} /\ llm = "answered"
    /\ step' = IF reply.final /\ step = "CONFIRMATION" THEN "END" ELSE step
    /\ IF reply.text THEN Say("reply") ELSE LoopHead(step')
    /\ UNCHANGED <<turnVars, kind, bridge, retry, turns, stored, orphaned, failed, hung>>

(* Faulty variant: every final answer ends the dialog, an escalation too. *)
TurnEndsWhenFinal ==
    /\ pc \in {"softWait", "hardWait"} /\ llm = "answered"
    /\ step' = IF reply.final THEN "END" ELSE step
    /\ IF reply.text THEN Say("reply") ELSE Goto("saveTurn")
    /\ UNCHANGED <<turnVars, kind, bridge, retry, turns, stored, orphaned, failed, hung>>

TurnEnds ==
    /\ pc \in {"softWait", "hardWait"} /\ llm = "answered"
    /\ step' = IF reply.final /\ step = "CONFIRMATION" THEN "END" ELSE step
    /\ IF reply.text THEN Say("reply") ELSE Goto("saveTurn")
    /\ UNCHANGED <<turnVars, kind, bridge, retry, turns, stored, orphaned, failed, hung>>

TurnFails ==
    /\ pc \in {"softWait", "hardWait"} /\ llm = "failed"
    /\ step' = "END"
    /\ Say("apology")
    /\ UNCHANGED <<turnVars, kind, bridge, retry, turns, stored, orphaned, failed, hung>>

SaveTurn ==
    /\ pc = "saveTurn"
    /\ stored' = Snapshot
    /\ LoopHead(step)
    /\ UNCHANGED <<agentVars, kind, bridge, retry, turns, orphaned, failed, hung>>

(* The store raises; the snapshot may have reached it nevertheless.        *)
SaveTurnRaises ==
    /\ pc = "saveTurn"
    /\ stored' \in {stored, Snapshot}
    /\ Raise
    /\ UNCHANGED <<turnVars, kind, bridge, retry, turns, orphaned, hung>>

SaveFinal ==
    /\ pc = "saveFinal"
    /\ stored' = Snapshot
    /\ Goto("hangup")
    /\ UNCHANGED <<agentVars, kind, bridge, retry, turns, orphaned, failed, hung>>

(* An exception in the finally clause itself: hangup is never reached.     *)
SaveFinalRaises ==
    /\ pc = "saveFinal"
    /\ stored' \in {stored, Snapshot}
    /\ Goto("aborted")
    /\ UNCHANGED <<agentVars, kind, bridge, retry, turns, orphaned, failed, hung>>

(* A failed hangup is logged and swallowed.                                *)
HangUp ==
    /\ pc = "hangup"
    /\ hung' \in BOOLEAN
    /\ Goto("done")
    /\ UNCHANGED <<agentVars, kind, bridge, retry, turns, stored, orphaned, failed>>

-----------------------------------------------------------------------------
(* The call timer: asyncio.timeout cancels whatever _dialog_loop awaits.   *)

(* What the cancellation does to llm_task.  Behind wait_for(shield(...)),  *)
(* and while the filler plays, the task survives; `await llm_task` passes  *)
(* the cancellation on to it.                                              *)
CancelAwaited ==
    \/ /\ pc = "hardWait" /\ LlmAlive
       /\ CancelTurn
       /\ UNCHANGED orphaned
    \/ /\ ~(pc = "hardWait" /\ LlmAlive)
       /\ orphaned' = LlmAlive
       /\ UNCHANGED turnVars

(* Faulty variant: the goodbye without step = END. *)
CallTimeoutKeepsStep ==
    /\ pc \in DialogLabels /\ timer = "armed"
    /\ timer' = "expired"
    /\ CancelAwaited
    /\ stored' \in IF pc = "saveTurn" THEN {stored, Snapshot} ELSE {stored}
    /\ pc' = "timeoutBye"
    /\ audio' = IF Registered THEN "duplex" ELSE "waiting"
    /\ UNCHANGED <<step, kind, bridge, retry, turns, failed, hung>>

CallTimeout ==
    /\ pc \in DialogLabels /\ timer = "armed"
    /\ timer' = "expired"
    /\ CancelAwaited
    /\ stored' \in IF pc = "saveTurn" THEN {stored, Snapshot} ELSE {stored}
    /\ step' = "END"
    /\ pc' = "timeoutBye"
    /\ audio' = IF Registered THEN "duplex" ELSE "waiting"
    /\ UNCHANGED <<kind, bridge, retry, turns, failed, hung>>

(* A cancellation that nobody sees.  The timer and the end of llm_task fall*)
(* into one iteration of the loop (EatsCancel); or it arrives while _say   *)
(* awaits a task it has cancelled itself, under suppress(CancelledError).  *)
(* asyncio.timeout fires once: the dialog goes on without a limit.         *)
CallTimeoutEaten ==
    /\ pc \in DialogLabels /\ timer = "armed"
    /\ \/ EatsCancel /\ pc = "softWait" /\ llm \in {"answered", "failed"}
       \/ pc \in SayLabels /\ audio = "duplex"
    /\ timer' = "eaten"
    /\ UNCHANGED <<agentVars, pc, kind, audio, bridge, retry, turns, stored, orphaned, failed, hung>>

-----------------------------------------------------------------------------
(* The bridge: media_ws.py or audiosocket_server.py.                       *)

BridgeConnects ==
    /\ bridge = "none" /\ pc \notin {"done", "aborted"}
    /\ bridge' = "up"
    /\ UNCHANGED <<agentVars, pc, kind, audio, timer, retry, turns, stored, orphaned, failed, hung>>

(* Sending a frame raises: the sender ends, the caller is still heard.     *)
SenderCrashes ==
    /\ bridge = "up"
    /\ bridge' = "mute"
    /\ UNCHANGED <<agentVars, pc, kind, audio, timer, retry, turns, stored, orphaned, failed, hung>>

(* The caller hangs up or the connection breaks: the sender is cancelled   *)
(* and the session removed.                                                *)
BridgeDrops ==
    /\ Registered
    /\ bridge' = "gone"
    /\ UNCHANGED <<agentVars, pc, kind, audio, timer, retry, turns, stored, orphaned, failed, hung>>

-----------------------------------------------------------------------------
SayStep == SayAttaches \/ SayReturns \/ SayRaises
ListenStep == ListenEmpty \/ ListenText \/ ListenRaises
TurnStep == SoftTimeout \/ TurnEnds \/ TurnFails
SaveStep == SaveTurn \/ SaveTurnRaises \/ SaveFinal \/ SaveFinalRaises
AgentStep == AgentNext /\ UNCHANGED callVars

Next ==
    \/ Begin \/ BeginFails
    \/ SayStep \/ SayStrands \/ SayCutIn \/ ListenStep \/ TurnStep \/ SaveStep \/ HangUp
    \/ CallTimeout \/ CallTimeoutEaten
    \/ BridgeConnects \/ SenderCrashes \/ BridgeDrops
    \/ AgentStep

(* The timer fires; a phrase with a reader does end; the store and the      *)
(* telephony API answer or raise; the LLM and the salon answer or time out *)
(* (their clients have timeouts).  Nothing is assumed of the caller, of    *)
(* the bridge, or of the dialog's own progress before the timer fires.     *)
Fairness ==
    /\ WF_vars(Begin)
    /\ WF_vars(CallTimeout)
    /\ WF_vars(SayStep)
    /\ WF_vars(SaveStep)
    /\ WF_vars(HangUp)
    /\ WF_vars(AgentStep)

Spec == Init /\ [][Next]_vars
FairSpec == Spec /\ Fairness
-----------------------------------------------------------------------------
(* What the call promises.                                                 *)

Ended == pc \in {"done", "aborted"}

(* llm_task runs only while the dialog awaits it: no second turn, and no   *)
(* step of the dialog, ever finds a turn still changing the state.  The    *)
(* one exception is a turn left behind by the call timeout.                *)
TurnIsAwaited == LlmAlive /\ ~orphaned => pc \in TurnLabels

(* The dialog before any prompt was counted.                               *)
AfterLastReply == [Snapshot EXCEPT !.retry = 0]

(* Whenever the call is waiting for the caller, the store holds the dialog *)
(* as the last reply that was understood left it: of what happened since,  *)
(* it lags behind only in the count of prompts nobody answered, which is   *)
(* incremented without a save and shows as zero there.                     *)
ListensOnSavedState == pc = "listen" => stored = AfterLastReply

(* A call that hung up without "call_failed" has left a finished dialog in *)
(* the store, the same one as in memory (unless its last turn was          *)
(* orphaned).                                                              *)
CompletedIsTerminal ==
    pc = "done" /\ ~failed /\ ~orphaned
        => stored = Snapshot /\ stored.step \in TERMINAL_STEPS

(* The record a finished call leaves names the last booking the salon made *)
(* for it, however the call ended, unless the salon's reply was lost or    *)
(* the turn orphaned.                                                      *)
RecordKnowsBooking ==
    pc = "done" /\ ~lost /\ ~orphaned => stored.slot = bookings

(* END is final: no later answer, tool or timer takes the dialog out of it *)
(* (unless a turn was orphaned).                                           *)
EndSticks == [][step = "END" /\ ~orphaned => step' = "END"]_vars

(* Once the turn that escalated has been answered, only a timeout of the   *)
(* call replaces ESCALATE.                                                 *)
EscalationSticks ==
    [][step = "ESCALATE" /\ ~LlmAlive /\ llm # "failed" /\ pc' # "timeoutBye"
        => step' = "ESCALATE"]_vars

(* Whatever the LLM and the caller do, or fail to do, the call ends: it    *)
(* has saved and hung up, or an exception cut that short.  There are two   *)
(* ways out: a last phrase whose bridge is gone, and a timer whose         *)
(* cancellation was lost.                                                  *)
StrandedGoodbye == pc = "timeoutBye" /\ audio = "stuck"
CallEnds == <>(Ended \/ StrandedGoodbye \/ timer = "eaten")

(* A finished call leaves no LLM task running for ever: even an orphaned   *)
(* turn comes to its end.                                                  *)
TurnsQuiesce == (pc = "done") ~> ~LlmAlive

(* orchestrator.py:289, "hard limit of call_timeout_seconds": once the     *)
(* timer has fired, the call comes to its end.                             *)
HardLimit == (timer = "expired") ~> Ended

(* test_audit2.py:130: a call that ran into its time limit is left in END. *)
TimedOutCallIsOver ==
    pc = "done" /\ timer = "expired" => stored.step = "END"
-----------------------------------------------------------------------------
(* The inductive invariant: what holds between the awaits so that the      *)
(* properties above hold.                                                  *)

(* The dialog is between turns: only prompts were counted since the last   *)
(* save.                                                                   *)
QuietLabels == {"start", "announcement", "greeting", "listen", "noInput", "noInputBye"}
ClosingLabels == {"timeoutBye", "saveFinal", "hangup", "done", "aborted"}

QuietInv == pc \in QuietLabels => stored = AfterLastReply /\ step \notin TERMINAL_STEPS

(* The count of prompts starts anew with every reply that is understood.   *)
RepliedInv == pc \in TurnLabels \cup {"apology", "reply", "saveTurn"} => retry = 0

OrphanInv == orphaned => pc \in ClosingLabels

(* A turn in progress has not been ended by anyone.                        *)
TurnInv == pc \in TurnLabels => step # "END"

ClosingInv ==
    /\ pc = "timeoutBye" /\ ~orphaned => step = "END"
    /\ pc \in {"saveFinal", "hangup", "done"} /\ ~failed /\ ~orphaned
            => step \in TERMINAL_STEPS
    /\ pc \in {"hangup", "done"} /\ ~orphaned => stored = Snapshot

(* state.slot lags behind the salon only while the reply is on its way, or *)
(* once a reply has been lost.                                             *)
BookingInv ==
    /\ accepted => Executing("create_booking")
    /\ slot = bookings \/ accepted \/ lost

IInv ==
    /\ TypeOK
    /\ TurnIsAwaited
    /\ QuietInv
    /\ RepliedInv
    /\ OrphanInv
    /\ TurnInv
    /\ ClosingInv
    /\ BookingInv
=============================================================================
