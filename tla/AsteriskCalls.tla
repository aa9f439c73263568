----------------------------- MODULE AsteriskCalls -----------------------------
(***************************************************************************)
(* Calls through Asterisk: AsteriskTelephonyProvider with its table of     *)
(* channels and the pump of ARI events, the AudioSocket server, and the    *)
(* shutdown of the application around them (main.lifespan).                *)
(*                                                                         *)
(* Asterisk and the callee are external.  The task of a call is reduced to *)
(* when it ends and how (CallLifecycle has the rest).                      *)
(***************************************************************************)
EXTENDS Naturals, Sequences, SequencesExt

CONSTANTS
    Calls,      \* call ids of make_call
    NoCall      \* not a call

ASSUME AsteriskAssumption == NoCall \notin Calls

VARIABLES
    channelVars,    \* Asterisk names PHONEAGENT_CALL_ID in its events: the
                    \* repository's ari.conf has no channelvars, its tests do
    waits,          \* Server.wait_closed waits for the connections: it does
                    \* from Python 3.12.1 on, not in the Dockerfile's 3.11
    app,            \* main.lifespan
    task,           \* what runs for a call
    channels,       \* _channels
    pump,           \* _pump_events
    continuing,     \* the channel it is sending into the dialplan
    events,         \* ARI events that it has not read
    ws,             \* the ARI WebSocket is connected
    line,           \* the channel in Asterisk
    socket,         \* its AudioSocket connection
    session,        \* its AudioSession is registered
    refused,        \* history: its continue has failed
    talked,         \* history: it reached the agent before its task was over
    lost            \* history: the call that was never hung up, and why

hostVars == <<channelVars, waits, app>>
pumpVars == <<pump, continuing, refused>>
asteriskVars == <<events, ws, line>>
socketVars == <<socket, session, talked>>
vars == <<hostVars, task, channels, pumpVars, asteriskVars, socketVars, lost>>

InCall == {"ringing", "stasis", "dialplan", "bridged"}
Events == [type : {"StasisStart", "StasisEnd"}, channel : Calls]

TypeOK ==
    /\ channelVars \in BOOLEAN /\ waits \in BOOLEAN
    /\ app \in {"up", "draining", "closing", "down"}
    /\ task \in [Calls -> {"none", "originating", "running", "hangingUp", "over"}]
    /\ channels \subseteq Calls
    /\ pump \in {"reading", "continuing", "ended"}
    /\ continuing \in Calls \cup {NoCall}
    /\ pump = "continuing" <=> continuing # NoCall
    /\ events \in Seq(Events)
    /\ ws \in BOOLEAN
    /\ line \in [Calls -> InCall \cup {"none", "down"}]
    /\ socket \in [Calls -> {"none", "open", "closed"}]
    /\ session \subseteq Calls /\ talked \subseteq Calls
    /\ refused \subseteq Calls
    /\ lost \in [Calls -> {"no", "originate", "aborted", "delete"}]

Init ==
    /\ channelVars \in BOOLEAN /\ waits \in BOOLEAN
    /\ app = "up"
    /\ task = [c \in Calls |-> "none"]
    /\ channels = {}
    /\ pump = "reading" /\ continuing = NoCall
    /\ events = <<>> /\ ws = TRUE
    /\ line = [c \in Calls |-> "none"]
    /\ socket = [c \in Calls |-> "none"]
    /\ session = {} /\ talked = {} /\ refused = {}
    /\ lost = [c \in Calls |-> "no"]

ClientOpen == app \in {"up", "draining"}
Becomes(c, place) == line' = [line EXCEPT ![c] = place]
Emit(type, c) == events' = IF ws THEN Append(events, [type |-> type, channel |-> c]) ELSE events

-----------------------------------------------------------------------------
(* make_call, and the task that its caller starts when it returns.         *)

MakeCall(c) ==
    /\ app = "up" /\ task[c] = "none"
    /\ task' = [task EXCEPT ![c] = "originating"]
    /\ UNCHANGED <<hostVars, channels, pumpVars, asteriskVars, socketVars, lost>>

Originated(c) ==
    /\ task[c] = "originating" /\ line[c] # "none"
    /\ channels' = channels \cup {c}
    /\ task' = [task EXCEPT ![c] = "running"]
    /\ UNCHANGED <<hostVars, pumpVars, asteriskVars, socketVars, lost>>

(* POST /channels raises, whether or not Asterisk has made the channel.    *)
OriginateFails(c) ==
    /\ task[c] = "originating"
    /\ task' = [task EXCEPT ![c] = "over"]
    /\ lost' = [lost EXCEPT ![c] = "originate"]
    /\ UNCHANGED <<hostVars, channels, pumpVars, asteriskVars, socketVars>>

-----------------------------------------------------------------------------
(* hangup, at the end of the task.                                         *)

(* The entry is taken out of the table before the request is sent.  Of a   *)
(* call the table does not have nothing is hung up; the request of a       *)
(* client that is closed fails.                                            *)
Hangup(c) ==
    /\ task[c] = "running"
    /\ channels' = channels \ {c}
    /\ task' = [task EXCEPT ![c] = IF c \in channels /\ ClientOpen THEN "hangingUp" ELSE "over"]
    /\ UNCHANGED <<hostVars, pumpVars, asteriskVars, socketVars, lost>>

(* The save before the hangup raises.                                      *)
TaskAborts(c) ==
    /\ task[c] = "running"
    /\ task' = [task EXCEPT ![c] = "over"]
    /\ lost' = [lost EXCEPT ![c] = "aborted"]
    /\ UNCHANGED <<hostVars, channels, pumpVars, asteriskVars, socketVars>>

(* 204, or 404 when the callee was first.                                  *)
Deleted(c) ==
    /\ task[c] = "hangingUp" /\ ClientOpen
    /\ task' = [task EXCEPT ![c] = "over"]
    /\ Becomes(c, "down")
    /\ IF line[c] = "stasis" THEN Emit("StasisEnd", c) ELSE UNCHANGED events
    /\ UNCHANGED <<hostVars, channels, pumpVars, ws, socketVars, lost>>

(* Any other answer, or none: "hangup_failed", and no second attempt.      *)
DeleteFails(c) ==
    /\ task[c] = "hangingUp"
    /\ task' = [task EXCEPT ![c] = "over"]
    /\ lost' = [lost EXCEPT ![c] = "delete"]
    /\ UNCHANGED <<hostVars, channels, pumpVars, asteriskVars, socketVars>>

-----------------------------------------------------------------------------
(* _pump_events.                                                           *)

Reads(type) == pump = "reading" /\ events # <<>> /\ Head(events).type = type

(* The id in the event, or else that of the table (_call_id_for): none if  *)
(* make_call has not seen the response to its request yet.                 *)
Identified(c) == channelVars \/ c \in channels

(* Faulty variant: an event without a call id is entered, too. *)
StasisStartUnchecked ==
    /\ Reads("StasisStart")
    /\ LET c == Head(events).channel
       IN /\ channels' = channels \cup {IF Identified(c) THEN c ELSE NoCall}
          /\ continuing' = c
    /\ pump' = "continuing"
    /\ events' = Tail(events)
    /\ UNCHANGED <<hostVars, task, refused, ws, line, socketVars, lost>>

StasisStart ==
    /\ Reads("StasisStart")
    /\ LET c == Head(events).channel
       IN /\ channels' = IF Identified(c) THEN channels \cup {c} ELSE channels
          /\ continuing' = c
    /\ pump' = "continuing"
    /\ events' = Tail(events)
    /\ UNCHANGED <<hostVars, task, refused, ws, line, socketVars, lost>>

(* Faulty variant: the end of Stasis is taken for the end of the call. *)
StasisEndForgets ==
    /\ Reads("StasisEnd")
    /\ channels' = channels \ {Head(events).channel}
    /\ events' = Tail(events)
    /\ UNCHANGED <<hostVars, task, pumpVars, ws, line, socketVars, lost>>

(* Faulty variant: every event enters the call it names. *)
StasisEndEnters ==
    /\ Reads("StasisEnd")
    /\ LET c == Head(events).channel
       IN channels' = IF Identified(c) THEN channels \cup {c} ELSE channels
    /\ events' = Tail(events)
    /\ UNCHANGED <<hostVars, task, pumpVars, ws, line, socketVars, lost>>

(* A CallEvent nobody reads.  Leaving Stasis for the dialplan ends it too. *)
StasisEnd ==
    /\ Reads("StasisEnd")
    /\ events' = Tail(events)
    /\ UNCHANGED <<hostVars, task, channels, pumpVars, ws, line, socketVars, lost>>

(* _continue_to_bridge.                                                    *)
Continued ==
    /\ pump = "continuing" /\ line[continuing] = "stasis"
    /\ Becomes(continuing, "dialplan")
    /\ Emit("StasisEnd", continuing)
    /\ pump' = "reading" /\ continuing' = NoCall
    /\ UNCHANGED <<hostVars, task, channels, refused, ws, socketVars, lost>>

(* Faulty variant: the error ends the pump. *)
ContinueFailsPump ==
    /\ pump = "continuing"
    /\ refused' = refused \cup {continuing}
    /\ pump' = "ended" /\ continuing' = NoCall
    /\ UNCHANGED <<hostVars, task, channels, asteriskVars, socketVars, lost>>

(* An error of the request, or a channel that is gone: logged.             *)
ContinueFails ==
    /\ pump = "continuing"
    /\ refused' = refused \cup {continuing}
    /\ pump' = "reading" /\ continuing' = NoCall
    /\ UNCHANGED <<hostVars, task, channels, asteriskVars, socketVars, lost>>

(* The WebSocket breaks: the loop over it ends, nobody connects again.     *)
PumpEnds ==
    /\ pump = "reading" /\ ~ws /\ events = <<>>
    /\ pump' = "ended"
    /\ UNCHANGED <<hostVars, task, channels, continuing, refused, asteriskVars, socketVars, lost>>

PumpStep == StasisStart \/ StasisEnd \/ Continued \/ ContinueFails \/ PumpEnds

-----------------------------------------------------------------------------
(* The AudioSocket server.                                                 *)

(* A handshake with the call's UUID registers the session.                 *)
Connect(c) ==
    /\ line[c] = "dialplan" /\ app = "up"
    /\ Becomes(c, "bridged")
    /\ socket' = [socket EXCEPT ![c] = "open"]
    /\ session' = session \cup {c}
    /\ talked' = IF task[c] \in {"originating", "running"} THEN talked \cup {c} ELSE talked
    /\ UNCHANGED <<hostVars, task, channels, pumpVars, events, ws, lost>>

(* Faulty variant: the connection is not closed. *)
ConnectionForgotten(c) ==
    /\ c \in session /\ line[c] = "down"
    /\ session' = session \ {c}
    /\ UNCHANGED <<hostVars, task, channels, pumpVars, asteriskVars, socket, talked, lost>>

(* A hangup frame, an error frame or the end of the stream.                *)
ConnectionEnds(c) ==
    /\ c \in session /\ line[c] = "down"
    /\ session' = session \ {c}
    /\ socket' = [socket EXCEPT ![c] = "closed"]
    /\ UNCHANGED <<hostVars, task, channels, pumpVars, asteriskVars, talked, lost>>

-----------------------------------------------------------------------------
(* main.lifespan, once the server has no request any more.                 *)

CloseServer ==
    /\ app = "up" /\ \A c \in Calls : task[c] # "originating"
    /\ app' = "draining"
    /\ UNCHANGED <<channelVars, waits, task, channels, pumpVars, asteriskVars, socketVars, lost>>

(* wait_closed has returned; Orchestrator.aclose begins with telephony:    *)
(* the pump is cancelled, the WebSocket and the client are closed.         *)
Disconnect ==
    /\ app = "draining"
    /\ waits => \A c \in Calls : socket[c] # "open"
    /\ app' = "closing"
    /\ pump' = "ended" /\ continuing' = NoCall
    /\ ws' = FALSE
    /\ UNCHANGED <<channelVars, waits, task, channels, refused, events, line, socketVars, lost>>

(* The process ends, and with it its tasks and connections.                *)
Exit ==
    /\ app = "closing"
    /\ app' = "down"
    /\ task' = [c \in Calls |-> "over"]
    /\ socket' = [c \in Calls |-> IF socket[c] = "open" THEN "closed" ELSE socket[c]]
    /\ session' = {}
    /\ UNCHANGED <<channelVars, waits, channels, pumpVars, asteriskVars, talked, lost>>

ShutdownStep == Disconnect \/ Exit

-----------------------------------------------------------------------------
(* External: Asterisk and the callee.                                      *)

Dials(c) ==
    /\ line[c] = "none" /\ task[c] = "originating"
    /\ Becomes(c, "ringing")
    /\ UNCHANGED <<hostVars, task, channels, pumpVars, events, ws, socketVars, lost>>

Answers(c) ==
    /\ line[c] = "ringing"
    /\ Becomes(c, "stasis") /\ Emit("StasisStart", c)
    /\ UNCHANGED <<hostVars, task, channels, pumpVars, ws, socketVars, lost>>

(* The callee hangs up or does not answer.  The dialplan hangs up when the *)
(* AudioSocket is refused or closed.                                       *)
LineDrops(c) ==
    /\ line[c] \in InCall
    /\ Becomes(c, "down")
    /\ IF line[c] = "stasis" THEN Emit("StasisEnd", c) ELSE UNCHANGED events
    /\ UNCHANGED <<hostVars, task, channels, pumpVars, ws, socketVars, lost>>

WebSocketBreaks ==
    /\ ws /\ ws' = FALSE
    /\ UNCHANGED <<hostVars, task, channels, pumpVars, events, line, socketVars, lost>>

-----------------------------------------------------------------------------
TaskStep(c) == Originated(c) \/ OriginateFails(c) \/ Hangup(c) \/ Deleted(c) \/ DeleteFails(c)

Next ==
    \/ \E c \in Calls :
          \/ MakeCall(c) \/ TaskStep(c) \/ TaskAborts(c)
          \/ Connect(c) \/ ConnectionEnds(c)
          \/ Dials(c) \/ Answers(c) \/ LineDrops(c)
    \/ PumpStep \/ CloseServer \/ ShutdownStep \/ WebSocketBreaks

(* Tasks end (CallEnds of CallLifecycle), requests to Asterisk are         *)
(* answered or time out, and ready handlers run.  Nobody has to answer or  *)
(* to hang up.                                                             *)
Fairness ==
    /\ \A c \in Calls : WF_vars(TaskStep(c)) /\ WF_vars(ConnectionEnds(c))
    /\ WF_vars(PumpStep) /\ WF_vars(ShutdownStep)

Spec == Init /\ [][Next]_vars /\ Fairness

-----------------------------------------------------------------------------
(* When the task of a call is over, its line is down: hangup always finds  *)
(* the channel in the table, however the pump, the callee and other calls  *)
(* interleave.  The code's three ways to leave a callee on the line are    *)
(* make_call that raises after Asterisk has dialled, a save that raises,   *)
(* and a DELETE that fails; and a shutdown that does not wait.             *)
NoForgottenLine == \A c \in Calls :
    task[c] = "over" /\ lost[c] = "no" /\ ClientOpen => line[c] \notin InCall

(* The table does not grow: a call the agent has talked to leaves no entry *)
(* behind when it is hung up, however late its events are read.  An entry  *)
(* outlives its call in three ways only: the save before the hangup        *)
(* raised; and, where events carry the call id, the POST raised although   *)
(* Asterisk dials, or the hangup overtook the StasisStart.                 *)
ConversationsLeaveNoEntry == \A c \in channels :
    task[c] \in {"hangingUp", "over"} /\ app # "down" =>
        \/ lost[c] = "aborted"
        \/ channelVars /\ (lost[c] = "originate" \/ c \notin talked)

(* An answered call is on its way into the dialplan, or its continue was   *)
(* refused: no error with one channel, and no end of another, makes the    *)
(* pump forget a channel.  Only the loss of the WebSocket does.            *)
AnsweredIsBridged == \A c \in Calls :
    line[c] = "stasis" /\ c \notin refused /\ ws =>
        /\ pump # "ended"
        /\ \/ continuing = c
           \/ [type |-> "StasisStart", channel |-> c] \in ToSet(events)

(* The shutdown comes to its end: it waits for calls in progress, which    *)
(* end, and for nothing else but a line that was left up.                  *)
ShutdownEnds ==
    app = "draining" ~>
        app = "down" \/ \E c \in Calls : socket[c] = "open" /\ lost[c] # "no" /\ line[c] = "bridged"
=============================================================================
