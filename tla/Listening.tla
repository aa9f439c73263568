------------------------------- MODULE Listening -------------------------------
(***************************************************************************)
(* How the agent and the caller take turns on a clock: _wait_for_barge_in  *)
(* while a phrase is said, the echo guard after it, the energy VAD of      *)
(* _collect_utterance, then speech recognition and the turn of the model.  *)
(*                                                                         *)
(* A tick is the length of one chunk of the caller, which is loud (its RMS *)
(* is above vad_energy_threshold) or quiet; the settings are in ticks.     *)
(* The event loop does what it can do before the clock moves on.  Which    *)
(* task holds which chunk is the subject of AudioSession.                  *)
(***************************************************************************)
EXTENDS Naturals, Sequences

CONSTANTS
    Silence,        \* vad_silence_seconds
    InitialSilence, \* vad_initial_silence_seconds
    MaxUtterance,   \* vad_max_utterance_seconds
    Grace,          \* barge_in_grace_seconds
    ConfirmChunks,  \* barge_in_confirm_chunks
    Guard,          \* echo_guard_seconds
    MaxPhrase,      \* bound: ticks the agent speaks
    MaxThink,       \* bound: ticks recognition, or the model, takes
    MaxBacklog      \* bound: chunks of the caller not yet listened to

ASSUME ListeningAssumption ==
    /\ Silence \in Nat \ {0}
    /\ InitialSilence \in Nat \ {0}
    /\ MaxUtterance \in Nat
    /\ InitialSilence <= MaxUtterance
    /\ Grace \in Nat
    /\ ConfirmChunks \in Nat \ {0}
    /\ Guard \in Nat
    /\ MaxPhrase \in Nat
    /\ MaxThink \in Nat
    /\ MaxBacklog \in Nat

VARIABLES
    phase,          \* what the call's task is doing
    filler,         \* the phrase is a filler: the model is still thinking
    incoming,       \* session.incoming
    closed,         \* the session is removed, the sentinel is in incoming
    collected,      \* what _wait_for_barge_in has read
    consecutive,    \* loud chunks it has counted in a row
    elapsed,        \* ticks since the phase began
    speechStarted,
    quiet,          \* ticks since last_speech_time
    blocked,        \* _collect_utterance is in incoming.get()
    outcome,        \* how the last utterance ended
    arrived,        \* history: a chunk has come in this tick
    callerQuiet,    \* history: ticks since the last loud chunk came
    loudRun,        \* history: loud chunks in a row since the grace period
    interrupted     \* history: the phrase was cut, nothing is listened to yet

lineVars == <<incoming, closed, arrived, callerQuiet, loudRun>>
bargeVars == <<collected, consecutive, interrupted>>
vadVars == <<speechStarted, quiet, blocked, outcome>>
vars == <<phase, filler, elapsed, lineVars, bargeVars, vadVars>>

Chunks == {"loud", "quiet"}
Processing == {"transcribing", "thinking"}

TypeOK ==
    /\ phase \in {"speaking", "guard", "listening", "over"} \cup Processing
    /\ filler \in BOOLEAN
    /\ incoming \in Seq(Chunks)
    /\ closed \in BOOLEAN
    /\ collected \in Seq(Chunks)
    /\ consecutive \in 0..ConfirmChunks
    /\ elapsed \in Nat
    /\ speechStarted \in BOOLEAN
    /\ quiet \in 0..Silence
    /\ blocked \in BOOLEAN
    /\ outcome \in {"none", "silence", "limit", "closed"}
    /\ arrived \in BOOLEAN
    /\ callerQuiet \in 0..Silence
    /\ loudRun \in 0..ConfirmChunks
    /\ interrupted \in BOOLEAN

(* The greeting of a call whose bridge is connected already.               *)
Init ==
    /\ phase = "speaking" /\ filler = FALSE
    /\ incoming = <<>> /\ closed = FALSE
    /\ collected = <<>> /\ consecutive = 0
    /\ elapsed = 0
    /\ speechStarted = FALSE /\ quiet = 0 /\ blocked = FALSE
    /\ outcome = "none"
    /\ arrived = FALSE /\ callerQuiet = Silence /\ loudRun = 0
    /\ interrupted = FALSE

UpTo(n, limit) == IF n < limit THEN n ELSE limit

Enter(p) == phase' = p /\ elapsed' = 0

(* A session that is removed is out of reach of the next get_session, and  *)
(* with it what is in its queue.                                           *)
Queue(chunks) == incoming' = IF closed THEN <<>> ELSE chunks

-----------------------------------------------------------------------------
(* _say.  A phrase starts with an empty buffer and no loud chunk counted.  *)

StartSay(isFiller) ==
    /\ Enter("speaking") /\ filler' = isFiller
    /\ collected' = <<>> /\ consecutive' = 0 /\ loudRun' = 0

(* What follows a phrase: the wait for the model after a filler; _listen,  *)
(* or the end of the dialog, otherwise.                                    *)
AfterSay ==
    /\ \/ filler /\ Enter("thinking")
       \/ ~filler /\ \E p \in {"listening", "over"} : Enter(p)
    /\ UNCHANGED <<filler, vadVars>>

BargeReading == phase = "speaking" /\ consecutive < ConfirmChunks

(* Faulty variant: the grace period is ignored. *)
BargeHearsAll ==
    /\ BargeReading /\ incoming # <<>>
    /\ incoming' = Tail(incoming)
    /\ collected' = Append(collected, Head(incoming))
    /\ consecutive' = IF Head(incoming) = "loud" THEN consecutive + 1 ELSE 0
    /\ UNCHANGED <<phase, filler, elapsed, closed, arrived, callerQuiet, loudRun,
                   interrupted, vadVars>>

BargeHears ==
    /\ BargeReading /\ incoming # <<>>
    /\ incoming' = Tail(incoming)
    /\ collected' = Append(collected, Head(incoming))
    /\ consecutive' = CASE elapsed < Grace -> consecutive
                        [] elapsed >= Grace /\ Head(incoming) = "loud" -> consecutive + 1
                        [] OTHER -> 0
    /\ UNCHANGED <<phase, filler, elapsed, closed, arrived, callerQuiet, loudRun,
                   interrupted, vadVars>>

(* Faulty variant: what the barge-in has read is dropped. *)
SayCutDropping ==
    /\ phase = "speaking" /\ consecutive = ConfirmChunks
    /\ interrupted' = TRUE
    /\ collected' = <<>> /\ consecutive' = 0
    /\ AfterSay
    /\ UNCHANGED lineVars

(* The barge-in is confirmed and the phrase not over: what it has read     *)
(* goes back to the end of the queue, and there is no echo guard.          *)
SayCut ==
    /\ phase = "speaking" /\ consecutive = ConfirmChunks
    /\ interrupted' = TRUE
    /\ Queue(incoming \o collected)
    /\ collected' = <<>> /\ consecutive' = 0
    /\ AfterSay
    /\ UNCHANGED <<closed, arrived, callerQuiet, loudRun>>

(* send_audio returns first, or together with the confirmation.            *)
SayEnds ==
    /\ phase = "speaking"
    /\ Queue(incoming \o collected)
    /\ collected' = <<>> /\ consecutive' = 0
    /\ Enter("guard")
    /\ UNCHANGED <<filler, closed, arrived, callerQuiet, loudRun, interrupted, vadVars>>

GuardOver ==
    /\ phase = "guard" /\ elapsed = Guard
    /\ AfterSay
    /\ Queue(incoming)
    /\ UNCHANGED <<closed, arrived, callerQuiet, loudRun, bargeVars>>

-----------------------------------------------------------------------------
(* _collect_utterance.  At the head of its loop it looks at the clock;     *)
(* then it waits for a chunk until the timeout computed there.             *)

(* Faulty variant: the pause is counted from the first word. *)
DueFromStart == IF speechStarted THEN elapsed >= Silence ELSE elapsed >= InitialSilence

(* Faulty variant: off by one. *)
DueLate == IF speechStarted THEN quiet > Silence ELSE elapsed > InitialSilence

Due == IF speechStarted THEN quiet >= Silence ELSE elapsed >= InitialSilence

(* Faulty variant: no limit. *)
NoLimit == FALSE

OverLimit == elapsed >= MaxUtterance

(* Without speech _listen returns "" and the caller is asked whether they  *)
(* are there.                                                              *)
Finish(why) ==
    /\ outcome' = why
    /\ interrupted' = FALSE
    /\ \/ speechStarted /\ Enter("transcribing")
          /\ UNCHANGED <<filler, collected, consecutive, loudRun>>
       \/ ~speechStarted /\ StartSay(FALSE)
    /\ speechStarted' = FALSE /\ quiet' = 0 /\ blocked' = FALSE
    /\ Queue(incoming)
    /\ UNCHANGED <<closed, arrived, callerQuiet>>

ListenFinds ==      \* at the head of the loop
    /\ phase = "listening" /\ ~blocked
    /\ \/ OverLimit /\ Finish("limit")
       \/ ~OverLimit /\ Due /\ Finish("silence")

ListenTimesOut ==   \* in get(), even as a chunk comes in
    /\ phase = "listening" /\ blocked /\ Due
    /\ Finish("silence")

Getting == phase = "listening" /\ (blocked \/ (~OverLimit /\ ~Due))

ListenBlocks ==
    /\ Getting /\ ~blocked /\ incoming = <<>> /\ ~closed
    /\ blocked' = TRUE
    /\ UNCHANGED <<phase, filler, elapsed, lineVars, bargeVars, speechStarted, quiet, outcome>>

(* Faulty variant: the limit is counted from the last loud chunk. *)
ListenTakesRestarting ==
    /\ Getting /\ incoming # <<>>
    /\ incoming' = Tail(incoming)
    /\ blocked' = FALSE
    /\ \/ Head(incoming) = "loud" /\ speechStarted' = TRUE /\ quiet' = 0 /\ elapsed' = 0
       \/ Head(incoming) = "quiet" /\ UNCHANGED <<speechStarted, quiet, elapsed>>
    /\ UNCHANGED <<phase, filler, closed, arrived, callerQuiet, loudRun, bargeVars, outcome>>

ListenTakes ==
    /\ Getting /\ incoming # <<>>
    /\ incoming' = Tail(incoming)
    /\ blocked' = FALSE
    /\ \/ Head(incoming) = "loud" /\ speechStarted' = TRUE /\ quiet' = 0
       \/ Head(incoming) = "quiet" /\ UNCHANGED <<speechStarted, quiet>>
    /\ UNCHANGED <<phase, filler, elapsed, closed, arrived, callerQuiet, loudRun, bargeVars, outcome>>

(* The sentinel, or no session to begin with.                              *)
ListenClosed ==
    /\ Getting /\ incoming = <<>> /\ closed
    /\ Finish("closed")

ListenStep == ListenFinds \/ ListenTimesOut \/ ListenBlocks \/ ListenTakes \/ ListenClosed

-----------------------------------------------------------------------------
(* stt.transcribe: a text, "" or an exception, which ends the call.        *)
Transcribed ==
    /\ phase = "transcribing"
    /\ \/ Enter("thinking") /\ UNCHANGED <<filler, collected, consecutive, loudRun>>
       \/ StartSay(FALSE)
       \/ Enter("over") /\ UNCHANGED <<filler, collected, consecutive, loudRun>>
    /\ Queue(incoming)
    /\ UNCHANGED <<closed, arrived, callerQuiet, interrupted, vadVars>>

(* The model answers, with or without a text, and without one the dialog   *)
(* goes on or is over; or it keeps silent for longer than                  *)
(* llm_soft_timeout_seconds, which is once a turn.                         *)
Answered ==
    /\ phase = "thinking"
    /\ \/ StartSay(FALSE)
       \/ ~filler /\ StartSay(TRUE)
       \/ /\ \E p \in {"listening", "over"} : Enter(p)
          /\ filler' = FALSE
          /\ UNCHANGED <<collected, consecutive, loudRun>>
    /\ Queue(incoming)
    /\ UNCHANGED <<closed, arrived, callerQuiet, interrupted, vadVars>>

-----------------------------------------------------------------------------
(* The line, and the clock.                                                *)

Arrive(chunk) ==
    /\ ~closed /\ ~arrived /\ phase # "over"
    /\ Len(incoming) + Len(collected) < MaxBacklog
    /\ incoming' = Append(incoming, chunk)
    /\ arrived' = TRUE
    /\ callerQuiet' = IF chunk = "loud" THEN 0 ELSE callerQuiet
    /\ loudRun' = CASE phase # "speaking" \/ elapsed < Grace -> loudRun
                    [] phase = "speaking" /\ elapsed >= Grace /\ chunk = "loud" ->
                          UpTo(loudRun + 1, ConfirmChunks)
                    [] OTHER -> 0
    /\ UNCHANGED <<phase, filler, elapsed, closed, bargeVars, vadVars>>

Close ==
    /\ ~closed /\ phase # "over"
    /\ closed' = TRUE
    /\ UNCHANGED <<phase, filler, elapsed, incoming, arrived, callerQuiet, loudRun, bargeVars, vadVars>>

(* Nothing that is ready to run is kept waiting by the event loop.         *)
Idle ==
    \/ phase = "speaking" /\ incoming = <<>> /\ consecutive < ConfirmChunks /\ elapsed < MaxPhrase
    \/ phase = "guard" /\ elapsed < Guard
    \/ phase = "listening" /\ blocked /\ incoming = <<>> /\ ~closed /\ ~Due
    \/ phase \in Processing /\ elapsed < MaxThink

Tick ==
    /\ Idle
    /\ elapsed' = elapsed + 1
    /\ quiet' = IF speechStarted THEN quiet + 1 ELSE quiet
    /\ arrived' = FALSE
    /\ callerQuiet' = UpTo(callerQuiet + 1, Silence)
    /\ UNCHANGED <<phase, filler, incoming, closed, loudRun, bargeVars, speechStarted, blocked, outcome>>

Next ==
    \/ BargeHears \/ SayCut \/ SayEnds \/ GuardOver
    \/ ListenStep \/ Transcribed \/ Answered
    \/ \E chunk \in Chunks : Arrive(chunk)
    \/ Close \/ Tick

(* The clock moves and the listening task runs.                            *)
Fairness == WF_vars(Tick) /\ WF_vars(ListenStep)

Spec == Init /\ [][Next]_vars /\ Fairness

-----------------------------------------------------------------------------
FinishesListening == phase = "listening" /\ phase' # "listening"

(* vad_max_utterance_seconds is looked at between two reads only, and a    *)
(* read may wait for the whole pause: an utterance lasts less than the two *)
(* settings together, however the caller speaks.                           *)
UtteranceBound == phase = "listening" => elapsed < MaxUtterance + Silence

(* An utterance is never cut in the middle of a phrase of the caller: when *)
(* a pause ends it and nothing is left to read, the caller has really been *)
(* quiet for vad_silence_seconds, though the pause is measured from when a *)
(* chunk was read and the queue may have held it for long.                 *)
CutOnlyInPause == [][
    FinishesListening /\ speechStarted /\ outcome' = "silence" /\ incoming = <<>> =>
        callerQuiet >= Silence]_vars

(* A caller who has cut the agent short is listened to: the chunks that    *)
(* confirmed the barge-in make the next utterance, even if they say        *)
(* nothing more, and even across the rest of a turn after a filler.        *)
InterruptionIsHeard == [][
    FinishesListening /\ interrupted /\ outcome' # "closed" => speechStarted]_vars

(* What the caller said while the agent was thinking, or at the beginning  *)
(* of the phrase, does not cut it: only barge_in_confirm_chunks loud       *)
(* chunks in a row that came after the grace period do.                    *)
SustainedBargeIn == [][
    phase = "speaking" /\ phase' \notin {"speaking", "guard"} => loudRun = ConfirmChunks]_vars

(* The agent does not listen for ever, to silence or to noise.             *)
ListenEnds == phase = "listening" ~> phase # "listening"
=============================================================================
