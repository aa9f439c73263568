---------------------------- MODULE AudioSession ----------------------------
(***************************************************************************)
(* The audio of one call: the two queues of core/audio_session.py between  *)
(* the bridge (media_ws.py, audiosocket_server.py) and the call's task,    *)
(* with every asyncio task that touches them:                              *)
(*   - the call's task in Orchestrator._say and _collect_utterance;        *)
(*   - per phrase, telephony.send_audio (send) and _wait_for_barge_in      *)
(*     (barge), which outlive the phrase if the call times out in it;      *)
(*   - the bridge's receive loop, and its sender behind paced_frames.      *)
(*                                                                         *)
(* A chunk of speech is the phrase it belongs to and its length in frames; *)
(* a chunk of the caller is a number, in order of arrival.  Loudness, and  *)
(* with it the confirmation of a barge-in, is a free choice.               *)
(***************************************************************************)
EXTENDS Naturals, Sequences, FiniteSets

CONSTANTS
    MaxPhrases,     \* bound: phrases the agent says
    MaxChunks,      \* bound: chunks the TTS yields for one phrase
    MaxFrames,      \* the longest chunk of the TTS provider, in frames
    GuardFrames,    \* echo_guard_seconds, in frames
    MaxArrivals     \* bound: chunks of the caller

ASSUME AudioAssumption ==
    /\ MaxPhrases \in Nat \ {0}
    /\ MaxChunks \in Nat
    /\ MaxFrames \in Nat \ {0}
    /\ GuardFrames \in Nat
    /\ MaxArrivals \in Nat

VARIABLES
    bridge,     \* the session: not created, registered, or removed and closed
    incoming,   \* AudioSession.incoming
    outgoing,   \* AudioSession.outgoing
    pending,    \* AudioSession._pending_out
    drained,    \* AudioSession._drained
    hangupRequested,
    sender,     \* paced_frames: off, get, got, busy, or dead
    buffer,     \* frames of the chunk taken that are still to be sent
    air,        \* phrase of the chunk last taken
    call,       \* the await the call's task is in
    phrase,     \* number of the phrase last begun
    guard,      \* frames left of the echo guard
    timedOut,   \* the call timer has cancelled the dialog
    send,       \* per phrase: the task in send_audio
    todo,       \* per phrase: chunks the TTS will still yield
    barge,      \* per phrase: the task in _wait_for_barge_in
    collected,  \* per phrase: the chunks that task has read
    arrived,    \* chunks of the caller pushed so far
    heard       \* those _collect_utterance has read

queueVars == <<incoming, outgoing, pending, drained>>
lineVars == <<bridge, hangupRequested, sender, buffer, air>>
callVars == <<call, phrase, guard, timedOut>>
taskVars == <<send, todo, barge, collected>>
vars == <<queueVars, lineVars, callVars, taskVars, arrived, heard>>

Phrases == 1..MaxPhrases
CLOSED == 0                                     \* the sentinel None
Speech == [phrase : Phrases, frames : 1..MaxFrames]
SpeechEnd == [phrase |-> CLOSED, frames |-> 0]  \* None in outgoing

SendStates == {"none", "polling", "pushing", "draining", "woken",
               "done", "failed", "cancelled"}
SendOver == {"done", "failed", "cancelled"}
BargeStates == {"none", "reading", "confirmed", "ended", "cancelled"}
SenderAlive == sender \in {"get", "got", "busy"}

TypeOK ==
    /\ bridge \in {"none", "up", "gone"}
    /\ incoming \in Seq(0..MaxArrivals)
    /\ outgoing \in Seq(Speech \cup {SpeechEnd})
    /\ pending \in Nat
    /\ drained \in BOOLEAN
    /\ hangupRequested \in BOOLEAN
    /\ sender \in {"off", "get", "got", "busy", "dead"}
    /\ buffer \in 0..MaxFrames
    /\ air \in 0..MaxPhrases
    /\ call \in {"idle", "wait", "reap", "cancelSend", "awaitSend", "guard",
                 "listen", "goodbye", "over", "hungUp"}
    /\ phrase \in 0..MaxPhrases
    /\ guard \in 0..GuardFrames
    /\ timedOut \in BOOLEAN
    /\ send \in [Phrases -> SendStates]
    /\ todo \in [Phrases -> 0..MaxChunks]
    /\ barge \in [Phrases -> BargeStates]
    /\ collected \in [Phrases -> Seq(1..MaxArrivals)]
    /\ arrived \in 0..MaxArrivals
    /\ heard \in SUBSET (1..MaxArrivals)

Init ==
    /\ bridge = "none"
    /\ incoming = <<>>
    /\ outgoing = <<>>
    /\ pending = 0
    /\ drained = TRUE
    /\ hangupRequested = FALSE
    /\ sender = "off"
    /\ buffer = 0
    /\ air = 0
    /\ call = "idle"
    /\ phrase = 0
    /\ guard = 0
    /\ timedOut = FALSE
    /\ send = [p \in Phrases |-> "none"]
    /\ todo = [p \in Phrases |-> 0]
    /\ barge = [p \in Phrases |-> "none"]
    /\ collected = [p \in Phrases |-> <<>>]
    /\ arrived = 0
    /\ heard = {}

-----------------------------------------------------------------------------
(* The methods of AudioSession.                                            *)

Minus(n, k) == IF k <= n THEN n - k ELSE 0      \* max(0, n - k)

(* asyncio.Event.set wakes the tasks that wait in wait_drained at that     *)
(* moment, whether or not it is cleared again before they run.             *)
Woken(tasks) == [p \in Phrases |-> IF tasks[p] = "draining" THEN "woken" ELSE tasks[p]]

PushOutgoing(chunk) ==
    /\ outgoing' = Append(outgoing, chunk)
    /\ pending' = pending + 1
    /\ drained' = FALSE

(* Faulty variant: the event is set only when it was set before. *)
MarkOutgoingTakenSilently ==
    /\ pending' = Minus(pending, 1)
    /\ UNCHANGED <<drained, send>>

MarkOutgoingTaken ==
    /\ pending' = Minus(pending, 1)
    /\ drained' = (drained \/ pending' = 0)
    /\ send' = IF pending' = 0 THEN Woken(send) ELSE send

(* Faulty variant: the chunks thrown away stay counted. *)
ClearOutgoingUncounted(tasks) ==
    /\ outgoing' = <<>>
    /\ send' = tasks
    /\ UNCHANGED <<pending, drained>>

(* The sentinel of a closed session is cleared, and counted, like a chunk. *)
ClearOutgoing(tasks) ==
    /\ outgoing' = <<>>
    /\ pending' = Minus(pending, Len(outgoing))
    /\ drained' = (drained \/ pending' = 0)
    /\ send' = IF pending' = 0 THEN Woken(tasks) ELSE tasks

-----------------------------------------------------------------------------
(* telephony.send_audio of phrase p (voximplant.py, asterisk.py).          *)

SendFindsSession(p) ==
    /\ send[p] = "polling" /\ bridge = "up"
    /\ send' = [send EXCEPT ![p] = "pushing"]
    /\ UNCHANGED <<queueVars, lineVars, callVars, todo, barge, collected, arrived, heard>>

(* No session within the timeout of wait_for_session: nothing is said.     *)
SendFindsNone(p) ==
    /\ send[p] = "polling" /\ bridge # "up"
    /\ send' = [send EXCEPT ![p] = "done"]
    /\ todo' = [todo EXCEPT ![p] = 0]
    /\ UNCHANGED <<queueVars, lineVars, callVars, barge, collected, arrived, heard>>

SendPushes(p) ==
    /\ send[p] = "pushing" /\ todo[p] > 0
    /\ todo' = [todo EXCEPT ![p] = @ - 1]
    /\ \E f \in 1..MaxFrames : PushOutgoing([phrase |-> p, frames |-> f])
    /\ UNCHANGED <<incoming, lineVars, callVars, send, barge, collected, arrived, heard>>

(* Faulty variant: send_audio returns after the last push. *)
SendDrainsNothing(p) ==
    /\ send[p] = "pushing" /\ todo[p] = 0
    /\ send' = [send EXCEPT ![p] = "done"]
    /\ UNCHANGED <<queueVars, lineVars, callVars, todo, barge, collected, arrived, heard>>

SendDrains(p) ==
    /\ send[p] = "pushing" /\ todo[p] = 0
    /\ send' = [send EXCEPT ![p] = IF drained THEN "done" ELSE "draining"]
    /\ UNCHANGED <<queueVars, lineVars, callVars, todo, barge, collected, arrived, heard>>

SendWakes(p) ==
    /\ send[p] = "woken"
    /\ send' = [send EXCEPT ![p] = "done"]
    /\ UNCHANGED <<queueVars, lineVars, callVars, todo, barge, collected, arrived, heard>>

(* Synthesis raises: what was pushed stays in the queue.                   *)
SendFails(p) ==
    /\ send[p] = "pushing"
    /\ send' = [send EXCEPT ![p] = "failed"]
    /\ todo' = [todo EXCEPT ![p] = 0]
    /\ UNCHANGED <<queueVars, lineVars, callVars, barge, collected, arrived, heard>>

SendStep == \E p \in Phrases :
    SendFindsSession(p) \/ SendFindsNone(p) \/ SendPushes(p)
        \/ SendDrains(p) \/ SendWakes(p) \/ SendFails(p)

-----------------------------------------------------------------------------
(* _wait_for_barge_in of phrase p: barge_in_confirm_chunks loud chunks in  *)
(* a row after the grace period confirm it.                                *)

BargeReads(p) ==
    /\ barge[p] = "reading"
    /\ incoming # <<>> /\ Head(incoming) # CLOSED
    /\ incoming' = Tail(incoming)
    /\ collected' = [collected EXCEPT ![p] = Append(@, Head(incoming))]
    /\ barge' \in {barge, [barge EXCEPT ![p] = "confirmed"]}
    /\ UNCHANGED <<outgoing, pending, drained, lineVars, callVars, send, todo, arrived, heard>>

BargeEnds(p) ==
    /\ barge[p] = "reading"
    /\ incoming # <<>> /\ Head(incoming) = CLOSED
    /\ incoming' = Tail(incoming)
    /\ barge' = [barge EXCEPT ![p] = "ended"]
    /\ UNCHANGED <<outgoing, pending, drained, lineVars, callVars, send, todo, collected, arrived, heard>>

BargeStep == \E p \in Phrases : BargeReads(p) \/ BargeEnds(p)

-----------------------------------------------------------------------------
(* The call's task.                                                        *)

(* After a phrase: on with the dialog, or, after the goodbye of a call     *)
(* that timed out, to its end.                                             *)
Continue == call' = IF timedOut THEN "over" ELSE "idle"

StartSay ==
    /\ call \in {"idle", "goodbye"} /\ phrase < MaxPhrases
    /\ phrase' = phrase + 1
    /\ send' = [send EXCEPT ![phrase'] = "polling"]
    /\ \E n \in 0..MaxChunks : todo' = [todo EXCEPT ![phrase'] = n]
    /\ IF bridge = "up"
       THEN call' = "wait" /\ barge' = [barge EXCEPT ![phrase'] = "reading"]
       ELSE call' = "awaitSend" /\ UNCHANGED barge
    /\ UNCHANGED <<queueVars, lineVars, guard, timedOut, collected, arrived, heard>>

(* Faulty variant: what the barge-in task has read is dropped. *)
RepushNothing ==
    /\ collected' = [collected EXCEPT ![phrase] = <<>>]
    /\ UNCHANGED incoming

(* What the barge-in task has read goes back into the queue, at its end.   *)
Repush ==
    /\ incoming' = incoming \o collected[phrase]
    /\ collected' = [collected EXCEPT ![phrase] = <<>>]

(* Faulty variant: the queue is cleared, send_audio is not cancelled. *)
SayCutKeepsSending ==
    /\ call = "wait"
    /\ barge[phrase] = "confirmed" /\ send[phrase] \notin SendOver
    /\ Repush
    /\ ClearOutgoing(send)
    /\ call' = "cancelSend"
    /\ UNCHANGED <<lineVars, phrase, guard, timedOut, todo, barge, arrived, heard>>

(* asyncio.wait returns with the barge-in confirmed and send_audio still   *)
(* running: the queue is cleared and send_audio cancelled ...              *)
SayCut ==
    /\ call = "wait"
    /\ barge[phrase] = "confirmed" /\ send[phrase] \notin SendOver
    /\ Repush
    /\ ClearOutgoing([send EXCEPT ![phrase] = "cancelled"])
    /\ todo' = [todo EXCEPT ![phrase] = 0]
    /\ call' = "cancelSend"
    /\ UNCHANGED <<lineVars, phrase, guard, timedOut, barge, arrived, heard>>

(* ... and _say returns without the echo guard.                            *)
SayCutReturns ==
    /\ call = "cancelSend"
    /\ Continue
    /\ UNCHANGED <<queueVars, lineVars, phrase, guard, timedOut, taskVars, arrived, heard>>

(* It returns with the barge-in task over, but no barge-in.                *)
SayNotCut ==
    /\ call = "wait"
    /\ barge[phrase] = "ended" \/ (barge[phrase] = "confirmed" /\ send[phrase] \in SendOver)
    /\ Repush
    /\ call' = "awaitSend"
    /\ UNCHANGED <<outgoing, pending, drained, lineVars, phrase, guard, timedOut,
                   send, todo, barge, arrived, heard>>

(* It returns with send_audio over: the barge-in task is cancelled and     *)
(* awaited, which takes the loop another step.                             *)
SayReaps ==
    /\ call = "wait"
    /\ barge[phrase] = "reading" /\ send[phrase] \in SendOver
    /\ barge' = [barge EXCEPT ![phrase] = "cancelled"]
    /\ call' = "reap"
    /\ UNCHANGED <<queueVars, lineVars, phrase, guard, timedOut, send, todo, collected, arrived, heard>>

SayReaped ==
    /\ call = "reap"
    /\ Repush
    /\ call' = "awaitSend"
    /\ UNCHANGED <<outgoing, pending, drained, lineVars, phrase, guard, timedOut,
                   send, todo, barge, arrived, heard>>

(* Faulty variant: no echo guard. *)
SayAwaitedUnguarded ==
    /\ call = "awaitSend" /\ send[phrase] = "done"
    /\ call' = "guard"
    /\ guard' = 0
    /\ UNCHANGED <<queueVars, lineVars, phrase, timedOut, taskVars, arrived, heard>>

SayAwaited ==
    /\ call = "awaitSend" /\ send[phrase] = "done"
    /\ call' = "guard"
    /\ guard' = GuardFrames
    /\ UNCHANGED <<queueVars, lineVars, phrase, timedOut, taskVars, arrived, heard>>

(* The exception of send_audio: swallowed by _say_safe, or the end of the  *)
(* dialog (_process_call goes on to save and hang up).                     *)
SayFails ==
    /\ call = "awaitSend" /\ send[phrase] = "failed"
    /\ Continue \/ call' = "over"
    /\ UNCHANGED <<queueVars, lineVars, phrase, guard, timedOut, taskVars, arrived, heard>>

SayGuarded ==
    /\ call = "guard" /\ guard = 0
    /\ Continue
    /\ UNCHANGED <<queueVars, lineVars, phrase, guard, timedOut, taskVars, arrived, heard>>

(* _listen with a session; without one it returns at once and changes      *)
(* nothing here.                                                           *)
StartListening ==
    /\ call = "idle" /\ bridge = "up"
    /\ call' = "listen"
    /\ UNCHANGED <<queueVars, lineVars, phrase, guard, timedOut, taskVars, arrived, heard>>

Hear ==
    /\ call = "listen"
    /\ incoming # <<>>
    /\ incoming' = Tail(incoming)
    /\ IF Head(incoming) = CLOSED
       THEN call' = "idle" /\ UNCHANGED heard
       ELSE heard' = heard \cup {Head(incoming)} /\ UNCHANGED call
    /\ UNCHANGED <<outgoing, pending, drained, lineVars, phrase, guard, timedOut, taskVars, arrived>>

(* Silence long enough, or the utterance long enough.                      *)
StopListening ==
    /\ call = "listen"
    /\ call' = "idle"
    /\ UNCHANGED <<queueVars, lineVars, phrase, guard, timedOut, taskVars, arrived, heard>>

FinishDialog ==
    /\ call = "idle"
    /\ call' = "over"
    /\ UNCHANGED <<queueVars, lineVars, phrase, guard, timedOut, taskVars, arrived, heard>>

(* The call timer cancels the dialog.  asyncio.wait does not cancel what   *)
(* it waits for: both tasks of the phrase live on.  (While _say awaits a   *)
(* task it has cancelled itself, the cancellation is lost: no step.)       *)
CallTimeout ==
    /\ ~timedOut
    /\ call \in {"idle", "wait", "awaitSend", "guard", "listen"}
    /\ timedOut' = TRUE
    /\ call' = "goodbye"
    /\ guard' = 0
    /\ IF call = "awaitSend" /\ send[phrase] \notin SendOver
       THEN /\ send' = [send EXCEPT ![phrase] = "cancelled"]
            /\ todo' = [todo EXCEPT ![phrase] = 0]
       ELSE UNCHANGED <<send, todo>>
    /\ UNCHANGED <<queueVars, lineVars, phrase, barge, collected, arrived, heard>>

(* telephony.hangup of an inbound call: session.request_hangup.            *)
HangUp ==
    /\ call = "over"
    /\ call' = "hungUp"
    /\ hangupRequested' = (hangupRequested \/ bridge = "up")
    /\ UNCHANGED <<queueVars, bridge, sender, buffer, air, phrase, guard, timedOut,
                   taskVars, arrived, heard>>

CallStep ==
    \/ StartSay \/ SayCut \/ SayCutReturns \/ SayNotCut \/ SayReaps \/ SayReaped
    \/ SayAwaited \/ SayFails \/ SayGuarded
    \/ StartListening \/ Hear \/ StopListening \/ FinishDialog \/ HangUp

-----------------------------------------------------------------------------
(* The bridge.                                                             *)

(* create_session; the sender starts with the connection (AudioSocket) or  *)
(* with the "start" event (VoxEngine).                                     *)
Connect ==
    /\ bridge = "none"
    /\ bridge' = "up"
    /\ UNCHANGED <<queueVars, hangupRequested, sender, buffer, air, callVars, taskVars, arrived, heard>>

StartSender ==
    /\ bridge = "up" /\ sender = "off"
    /\ sender' = "get"
    /\ UNCHANGED <<queueVars, bridge, hangupRequested, buffer, air, callVars, taskVars, arrived, heard>>

Media ==
    /\ bridge = "up" /\ arrived < MaxArrivals
    /\ arrived' = arrived + 1
    /\ incoming' = Append(incoming, arrived + 1)
    /\ UNCHANGED <<outgoing, pending, drained, lineVars, callVars, taskVars, heard>>

(* The finally clause of the receive loop: the sender is cancelled, the    *)
(* session removed and closed (a sentinel into both queues).               *)
CloseBridge ==
    /\ bridge' = "gone"
    /\ sender' = "dead"
    /\ buffer' = 0
    /\ incoming' = Append(incoming, CLOSED)
    /\ outgoing' = Append(outgoing, SpeechEnd)
    /\ UNCHANGED <<pending, drained, hangupRequested, air, callVars, taskVars, arrived, heard>>

(* "stop", a hangup frame, or the connection breaks.                       *)
Disconnect == bridge = "up" /\ CloseBridge

(* Faulty variant: the request is looked at only while frames are sent. *)
WatchHangupWhenBusy == bridge = "up" /\ hangupRequested /\ sender = "busy" /\ CloseBridge

(* _watch_hangup lives as long as the sender does.                         *)
WatchHangup == bridge = "up" /\ hangupRequested /\ SenderAlive /\ CloseBridge

-----------------------------------------------------------------------------
(* The sender: paced_frames.                                               *)

(* The chunk leaves the queue; under wait_for with idle_keepalive_ms       *)
(* (Asterisk) paced_frames gets hold of it a step of the loop later.       *)
SenderTakes ==
    /\ sender = "get" /\ outgoing # <<>>
    /\ outgoing' = Tail(outgoing)
    /\ buffer' = Head(outgoing).frames
    /\ air' = Head(outgoing).phrase
    /\ sender' = "got"
    /\ UNCHANGED <<incoming, pending, drained, bridge, hangupRequested, callVars, taskVars, arrived, heard>>

SenderMarks ==
    /\ sender = "got"
    /\ sender' = "busy"
    /\ MarkOutgoingTaken
    /\ UNCHANGED <<incoming, outgoing, bridge, hangupRequested, buffer, air, callVars,
                   todo, barge, collected, arrived, heard>>

(* Faulty variant: one frame more than the chunk holds. *)
TickOnceMore ==
    /\ sender = "busy" \/ guard > 0
    /\ guard' = Minus(guard, 1)
    /\ IF sender = "busy"
       THEN /\ buffer' = buffer - 1
            /\ sender' = IF buffer = 0 THEN "get" ELSE "busy"
       ELSE UNCHANGED <<buffer, sender>>
    /\ UNCHANGED <<queueVars, bridge, hangupRequested, air, call, phrase, timedOut,
                   taskVars, arrived, heard>>

(* One frame of time passes: the sender sends a frame, the guard runs.     *)
Tick ==
    /\ sender = "busy" \/ guard > 0
    /\ guard' = Minus(guard, 1)
    /\ IF sender = "busy"
       THEN /\ buffer' = buffer - 1
            /\ sender' = IF buffer = 1 THEN "get" ELSE "busy"
       ELSE UNCHANGED <<buffer, sender>>
    /\ UNCHANGED <<queueVars, bridge, hangupRequested, air, call, phrase, timedOut,
                   taskVars, arrived, heard>>

(* Sending a frame raises: the sender ends, the receive loop goes on.      *)
SenderCrashes ==
    /\ sender = "busy"
    /\ sender' = "dead"
    /\ buffer' = 0
    /\ UNCHANGED <<queueVars, bridge, hangupRequested, air, callVars, taskVars, arrived, heard>>

SenderStep == SenderTakes \/ SenderMarks

-----------------------------------------------------------------------------
Next ==
    \/ SendStep \/ BargeStep \/ CallStep \/ CallTimeout
    \/ Connect \/ StartSender \/ Media \/ Disconnect \/ WatchHangup
    \/ SenderStep \/ Tick \/ SenderCrashes

(* Tasks that can run do run, and time passes.  Nothing is assumed of the  *)
(* bridge's peer (Connect, StartSender, Media, Disconnect, SenderCrashes)  *)
(* nor of the call timer.                                                  *)
Fairness ==
    /\ WF_vars(SendStep)
    /\ WF_vars(BargeStep)
    /\ WF_vars(CallStep)
    /\ WF_vars(SenderStep)
    /\ WF_vars(Tick)
    /\ WF_vars(WatchHangup)

Spec == Init /\ [][Next]_vars
FairSpec == Spec /\ Fairness

-----------------------------------------------------------------------------
(* What the session promises.                                              *)

(* _pending_out counts exactly the chunks not yet marked as taken, and     *)
(* _drained is set exactly when there are none, through pushes, takes and  *)
(* clears by different tasks in any order, as long as the bridge is there. *)
Accounting ==
    /\ bridge # "gone" => pending = Len(outgoing) + (IF sender = "got" THEN 1 ELSE 0)
    /\ drained = (pending = 0)

(* A phrase is over when send_audio has returned, or the caller has cut in.*)
Over(p) == send[p] = "done" \/ (send[p] = "cancelled" /\ barge[p] = "confirmed")

(* A phrase that is over fades: no chunk of it is taken any more, whatever *)
(* other tasks and phrases do.  What still goes out is the rest of the     *)
(* chunk the sender already holds, up to MaxFrames: with a TTS that yields *)
(* a phrase as one chunk, the phrase to its end, even if it was cut.       *)
OverPhraseFades ==
    [][\A p \in Phrases : Over(p) /\ air' = p => air = p /\ buffer' <= buffer]_vars

(* Phrases reach the line one after the other.  (When the call times out   *)
(* inside _say, the task of the cancelled phrase keeps pushing and the     *)
(* goodbye is mixed into it.)                                              *)
PhrasesInOrder == [][~timedOut => air' >= air]_vars

(* Whenever the agent listens, every chunk of the caller that arrived is   *)
(* either heard already or still in the queue, once: speaking, barge-in    *)
(* and its cancellation lose none and duplicate none.                      *)
Waiting == {i \in 1..Len(incoming) : incoming[i] # CLOSED}
ListenerMissesNothing ==
    call = "listen"
        => /\ heard \cup {incoming[i] : i \in Waiting} = 1..arrived
           /\ Cardinality(heard) + Cardinality(Waiting) = arrived

(* How much of the agent's own phrase can still be unsent when it begins   *)
(* to listen after speaking to the end: what a chunk is longer than the    *)
(* echo guard.                                                             *)
BoundedTail ==
    call = "listen" /\ phrase > 0 /\ send[phrase] = "done"
        => buffer <= Minus(MaxFrames, GuardFrames)

(* As long as there is a live sender, every phrase comes to an end.        *)
Saying == call \in {"wait", "reap", "cancelSend", "awaitSend"}
PhrasesEnd == Saying ~> (~Saying \/ ~SenderAlive)

(* An inbound call that is over does not keep its caller on the line: the  *)
(* hangup reaches the bridge, and through it the peer, unless the sender,  *)
(* and with it _watch_hangup, has died.                                    *)
HangupReachesBridge ==
    (call = "over" /\ bridge = "up") ~> (bridge = "gone" \/ ~SenderAlive)

(* audio_session.py:70-73: when send_audio has returned, at most one frame *)
(* is unsent; voximplant.py:196-200: the agent does not listen over its    *)
(* own speech.                                                             *)
AtMostAFrameUnsent ==
    call = "listen" /\ phrase > 0 /\ send[phrase] = "done" => buffer <= 1
=============================================================================
