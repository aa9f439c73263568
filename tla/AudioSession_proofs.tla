-------------------------- MODULE AudioSession_proofs --------------------------
(***************************************************************************)
(* Proofs about AudioSession, for every number of phrases, of chunks and   *)
(* of frames and every echo guard: its types, and everything its runs      *)
(* check that is not liveness.                                             *)
(***************************************************************************)
EXTENDS AudioSession, SequenceTheorems, FiniteSetTheorems, TLAPS

USE AudioAssumption DEF AudioAssumption

-----------------------------------------------------------------------------
(* TypeOK by the sort of the variables.                                    *)

NamesOK ==
    /\ bridge \in {"none", "up", "gone"}
    /\ sender \in {"off", "get", "got", "busy", "dead"}
    /\ call \in {"idle", "wait", "reap", "cancelSend", "awaitSend", "guard",
                 "listen", "goodbye", "over", "hungUp"}
NumbersOK ==
    /\ pending \in Nat
    /\ phrase \in 0..MaxPhrases
    /\ guard \in 0..GuardFrames
    /\ arrived \in 0..MaxArrivals
AirOK ==
    /\ buffer \in 0..MaxFrames
    /\ air \in 0..MaxPhrases
FlagsOK ==
    /\ drained \in BOOLEAN
    /\ hangupRequested \in BOOLEAN
    /\ timedOut \in BOOLEAN
SendOK ==
    /\ send \in [Phrases -> SendStates]
    /\ todo \in [Phrases -> 0..MaxChunks]
BargeOK ==
    /\ barge \in [Phrases -> BargeStates]
SpokenOK ==
    /\ outgoing \in Seq(Speech \cup {SpeechEnd})
HeardOK ==
    /\ incoming \in Seq(0..MaxArrivals)
    /\ collected \in [Phrases -> Seq(1..MaxArrivals)]
    /\ heard \in SUBSET (1..MaxArrivals)

(* A sender lives only while the session is registered, it holds frames    *)
(* exactly while it has a chunk in hand, and no sentinel is in the queue   *)
(* before the session is closed.  Nobody pushes before there is one.       *)
LineInv ==
    /\ SenderAlive => bridge = "up"
    /\ bridge = "none" => outgoing = <<>> /\ \A p \in Phrases : send[p] # "pushing"
    /\ sender \in {"got", "busy"} <=> buffer > 0
    /\ bridge # "gone" => outgoing \in Seq(Speech)

(* In these awaits the call's task has a phrase.                           *)
HasPhrase == call \in {"wait", "reap", "cancelSend", "awaitSend", "guard"} => phrase > 0

(* TypeOK is its eight parts.                                              *)
LEMMA TypeParts ==
    TypeOK <=> /\ NamesOK /\ NumbersOK /\ AirOK /\ FlagsOK
               /\ SendOK /\ BargeOK /\ SpokenOK /\ HeardOK
  BY DEF TypeOK, NamesOK, NumbersOK, AirOK, FlagsOK, SendOK, BargeOK, SpokenOK, HeardOK

(* A step of send_audio and of _wait_for_barge_in is one of these.         *)
SendQuiet(p) == SendFindsSession(p) \/ SendFindsNone(p) \/ SendDrains(p) \/ SendWakes(p) \/ SendFails(p)
SaySteps == SayCut \/ SayCutReturns \/ SayNotCut \/ SayReaps \/ SayReaped
                \/ SayAwaited \/ SayFails \/ SayGuarded
ListenSteps == StartListening \/ Hear \/ StopListening \/ FinishDialog \/ HangUp
BridgeSteps == Connect \/ StartSender \/ Media \/ Disconnect \/ WatchHangup

(* One disjunct per task: what the proofs split Next into.                 *)
LEMMA NextSteps == Next <=>
    \/ \E p \in Phrases : SendQuiet(p) \/ SendPushes(p)
    \/ BargeStep
    \/ StartSay \/ SaySteps \/ ListenSteps \/ CallTimeout
    \/ BridgeSteps \/ SenderTakes \/ SenderMarks \/ Tick \/ SenderCrashes
  BY DEF Next, SendStep, CallStep, SenderStep, SendQuiet, SaySteps, ListenSteps, BridgeSteps

(* Every step keeps the names of the phases.                               *)
LEMMA NamesStep == NamesOK /\ [Next]_vars => NamesOK'
  <1> SUFFICES ASSUME NamesOK, [Next]_vars PROVE NamesOK'
    OBVIOUS
  <1> USE DEF NamesOK, lineVars, callVars, Continue
  <1>1. ASSUME NEW p \in Phrases, SendQuiet(p) \/ SendPushes(p) PROVE NamesOK'
    BY <1>1 DEF SendQuiet, SendFindsSession, SendFindsNone, SendDrains, SendWakes, SendFails, SendPushes
  <1>2. CASE BargeStep
    BY <1>2 DEF BargeStep, BargeReads, BargeEnds
  <1>3. CASE StartSay \/ SaySteps
    BY <1>3 DEF StartSay, SaySteps, SayCut, SayCutReturns, SayNotCut, SayReaps, SayReaped,
                SayAwaited, SayFails, SayGuarded
  <1>4. CASE ListenSteps \/ CallTimeout
    BY <1>4 DEF ListenSteps, StartListening, Hear, StopListening, FinishDialog, HangUp, CallTimeout
  <1>5. CASE BridgeSteps
    BY <1>5 DEF BridgeSteps, Connect, StartSender, Media, Disconnect, WatchHangup, CloseBridge
  <1>6. CASE SenderTakes \/ SenderMarks \/ Tick \/ SenderCrashes
    BY <1>6 DEF SenderTakes, SenderMarks, Tick, SenderCrashes
  <1>7. CASE UNCHANGED vars
    BY <1>7 DEF vars
  <1> QED BY <1>1, <1>2, <1>3, <1>4, <1>5, <1>6, <1>7, NextSteps

(* Every step keeps the counters in their ranges.                          *)
LEMMA NumbersStep == NumbersOK /\ [Next]_vars => NumbersOK'
  <1> SUFFICES ASSUME NumbersOK, [Next]_vars PROVE NumbersOK'
    OBVIOUS
  <1> USE DEF NumbersOK, queueVars, callVars, Minus
  <1>1. ASSUME NEW p \in Phrases, SendQuiet(p) \/ SendPushes(p) PROVE NumbersOK'
    <2>1. UNCHANGED <<phrase, guard, arrived>>
      BY <1>1, Zenon DEF SendQuiet, SendFindsSession, SendFindsNone, SendDrains, SendWakes, SendFails,
                  SendPushes
    <2>2. pending' = pending \/ pending' = pending + 1
      BY <1>1, Zenon DEF SendQuiet, SendFindsSession, SendFindsNone, SendDrains, SendWakes, SendFails,
                  SendPushes, PushOutgoing
    <2> QED BY <2>1, <2>2
  <1>2. CASE BargeStep
    BY <1>2 DEF BargeStep, BargeReads, BargeEnds
  <1>3. CASE SayCut
    <2>1. pending' = Minus(pending, Len(outgoing)) /\ UNCHANGED <<phrase, guard, arrived>>
      BY <1>3 DEF SayCut, ClearOutgoing
    <2> QED BY <2>1
  <1>4. CASE StartSay \/ SaySteps
    BY <1>3, <1>4 DEF StartSay, SaySteps, SayCutReturns, SayNotCut, SayReaps, SayReaped,
                SayAwaited, SayFails, SayGuarded
  <1>5. CASE ListenSteps \/ CallTimeout
    BY <1>5 DEF ListenSteps, StartListening, Hear, StopListening, FinishDialog, HangUp, CallTimeout
  <1>6. CASE BridgeSteps
    BY <1>6 DEF BridgeSteps, Connect, StartSender, Media, Disconnect, WatchHangup, CloseBridge
  <1>7. CASE SenderTakes \/ SenderMarks \/ Tick \/ SenderCrashes
    BY <1>7 DEF SenderTakes, SenderMarks, MarkOutgoingTaken, Tick, SenderCrashes
  <1>8. CASE UNCHANGED vars
    BY <1>8 DEF vars
  <1> QED BY <1>1, <1>2, <1>3, <1>4, <1>5, <1>6, <1>7, <1>8, NextSteps

(* Every step keeps the flags Boolean.                                     *)
LEMMA FlagsStep == FlagsOK /\ [Next]_vars => FlagsOK'
  <1> SUFFICES ASSUME FlagsOK, [Next]_vars PROVE FlagsOK'
    OBVIOUS
  <1> USE DEF FlagsOK, queueVars, callVars, lineVars
  <1>1. ASSUME NEW p \in Phrases, SendQuiet(p) \/ SendPushes(p) PROVE FlagsOK'
    BY <1>1, Zenon DEF SendQuiet, SendFindsSession, SendFindsNone, SendDrains, SendWakes, SendFails,
                SendPushes, PushOutgoing
  <1>2. CASE BargeStep
    BY <1>2, Zenon DEF BargeStep, BargeReads, BargeEnds
  <1>3. CASE SayCut
    BY <1>3, Zenon DEF SayCut, ClearOutgoing
  <1>4. CASE StartSay \/ SaySteps
    BY <1>3, <1>4, Zenon DEF StartSay, SaySteps, SayCutReturns, SayNotCut, SayReaps, SayReaped,
                SayAwaited, SayFails, SayGuarded
  <1>5. CASE ListenSteps \/ CallTimeout
    BY <1>5, Zenon DEF ListenSteps, StartListening, Hear, StopListening, FinishDialog, HangUp, CallTimeout
  <1>6. CASE BridgeSteps
    BY <1>6, Zenon DEF BridgeSteps, Connect, StartSender, Media, Disconnect, WatchHangup, CloseBridge
  <1>7. CASE SenderTakes \/ SenderMarks \/ Tick \/ SenderCrashes
    BY <1>7, Zenon DEF SenderTakes, SenderMarks, MarkOutgoingTaken, Tick, SenderCrashes
  <1>8. CASE UNCHANGED vars
    BY <1>8, Zenon DEF vars
  <1> QED BY <1>1, <1>2, <1>3, <1>4, <1>5, <1>6, <1>7, <1>8, NextSteps

(* An await of _say is entered with a phrase.                              *)
LEMMA HasPhraseStep == NumbersOK /\ HasPhrase /\ [Next]_vars => HasPhrase'
  <1> SUFFICES ASSUME NumbersOK, HasPhrase, [Next]_vars PROVE HasPhrase'
    OBVIOUS
  <1> USE DEF NumbersOK, HasPhrase, callVars, Continue
  <1>1. ASSUME NEW p \in Phrases, SendQuiet(p) \/ SendPushes(p) PROVE UNCHANGED <<call, phrase>>
    BY <1>1, Zenon DEF SendQuiet, SendFindsSession, SendFindsNone, SendDrains, SendWakes, SendFails,
                       SendPushes
  <1>2. CASE BargeStep
    BY <1>2 DEF BargeStep, BargeReads, BargeEnds
  <1>3. CASE StartSay \/ SaySteps
    BY <1>3 DEF StartSay, SaySteps, SayCut, SayCutReturns, SayNotCut, SayReaps, SayReaped,
                SayAwaited, SayFails, SayGuarded
  <1>4. CASE ListenSteps \/ CallTimeout
    BY <1>4 DEF ListenSteps, StartListening, Hear, StopListening, FinishDialog, HangUp, CallTimeout
  <1>5. CASE BridgeSteps
    BY <1>5 DEF BridgeSteps, Connect, StartSender, Media, Disconnect, WatchHangup, CloseBridge
  <1>6. CASE SenderTakes \/ SenderMarks \/ Tick \/ SenderCrashes
    BY <1>6 DEF SenderTakes, SenderMarks, Tick, SenderCrashes
  <1>7. CASE UNCHANGED vars
    BY <1>7 DEF vars
  <1> QED BY <1>1, <1>2, <1>3, <1>4, <1>5, <1>6, <1>7, NextSteps

(* Waking moves the tasks that wait for the drain, and no others.          *)
LEMMA WokenTasks ==
    ASSUME NEW tasks \in [Phrases -> SendStates]
    PROVE  /\ Woken(tasks) \in [Phrases -> SendStates]
           /\ \A p \in Phrases :
                 Woken(tasks)[p] = IF tasks[p] = "draining" THEN "woken" ELSE tasks[p]
  BY DEF Woken, SendStates

(* Every step keeps the send tasks' types.                                 *)
LEMMA SendStep_ == SendOK /\ [Next]_vars => SendOK'
  <1> SUFFICES ASSUME SendOK, [Next]_vars PROVE SendOK'
    OBVIOUS
  <1> USE DEF SendOK, taskVars
  <1>1. ASSUME NEW p \in Phrases, SendQuiet(p) \/ SendPushes(p) PROVE SendOK'
    BY <1>1 DEF SendQuiet, SendFindsSession, SendFindsNone, SendDrains, SendWakes, SendFails,
                SendPushes, SendStates
  <1>2. CASE BargeStep
    BY <1>2 DEF BargeStep, BargeReads, BargeEnds
  <1>3. CASE StartSay
    BY <1>3 DEF StartSay, SendStates
  <1>4. CASE SayCut
    <2> DEFINE cut == [send EXCEPT ![phrase] = "cancelled"]
    <2>1. cut \in [Phrases -> SendStates]
      BY DEF SendStates
    <2>2. send' = cut \/ send' = Woken(cut)
      BY <1>4 DEF SayCut, ClearOutgoing
    <2>3. todo' \in [Phrases -> 0..MaxChunks]
      <3>1. todo' = [todo EXCEPT ![phrase] = 0]
        BY <1>4, Zenon DEF SayCut
      <3>2. 0 \in 0..MaxChunks /\ todo \in [Phrases -> 0..MaxChunks]
        OBVIOUS
      <3> HIDE DEF SendOK
      <3> QED BY <3>1, <3>2
    <2> QED BY <2>1, <2>2, <2>3, WokenTasks
  <1>5. CASE SaySteps
    BY <1>4, <1>5 DEF SaySteps, SayCutReturns, SayNotCut, SayReaps, SayReaped,
                SayAwaited, SayFails, SayGuarded
  <1>6. CASE ListenSteps \/ CallTimeout
    BY <1>6 DEF ListenSteps, StartListening, Hear, StopListening, FinishDialog, HangUp, CallTimeout,
                SendStates
  <1>7. CASE BridgeSteps
    BY <1>7 DEF BridgeSteps, Connect, StartSender, Media, Disconnect, WatchHangup, CloseBridge
  <1>8. CASE SenderMarks
    BY <1>8, WokenTasks DEF SenderMarks, MarkOutgoingTaken
  <1>9. CASE SenderTakes \/ Tick \/ SenderCrashes
    BY <1>9 DEF SenderTakes, Tick, SenderCrashes
  <1>10. CASE UNCHANGED vars
    BY <1>10 DEF vars
  <1> QED BY <1>1, <1>2, <1>3, <1>4, <1>5, <1>6, <1>7, <1>8, <1>9, <1>10, NextSteps

(* Every step keeps the barge-in tasks' types.                             *)
LEMMA BargeStep_ == BargeOK /\ [Next]_vars => BargeOK'
  <1> SUFFICES ASSUME BargeOK, [Next]_vars PROVE BargeOK'
    OBVIOUS
  <1> USE DEF BargeOK, BargeStates, taskVars
  <1>1. ASSUME NEW p \in Phrases, SendQuiet(p) \/ SendPushes(p) PROVE UNCHANGED barge
    BY <1>1 DEF SendQuiet, SendFindsSession, SendFindsNone, SendDrains, SendWakes, SendFails, SendPushes
  <1>2. CASE BargeStep
    BY <1>2 DEF BargeStep, BargeReads, BargeEnds
  <1>3. CASE StartSay \/ SaySteps
    BY <1>3 DEF StartSay, SaySteps, SayCut, SayCutReturns, SayNotCut, SayReaps, SayReaped,
                SayAwaited, SayFails, SayGuarded
  <1>4. CASE ListenSteps \/ CallTimeout
    BY <1>4 DEF ListenSteps, StartListening, Hear, StopListening, FinishDialog, HangUp, CallTimeout
  <1>5. CASE BridgeSteps
    BY <1>5 DEF BridgeSteps, Connect, StartSender, Media, Disconnect, WatchHangup, CloseBridge
  <1>6. CASE SenderTakes \/ SenderMarks \/ Tick \/ SenderCrashes
    BY <1>6 DEF SenderTakes, SenderMarks, Tick, SenderCrashes
  <1>7. CASE UNCHANGED vars
    BY <1>7 DEF vars
  <1> QED BY <1>1, <1>2, <1>3, <1>4, <1>5, <1>6, <1>7, NextSteps

(* What is on its way to the caller: the queue, the chunk in hand.         *)
LEMMA SpokenStep ==
    /\ NamesOK /\ AirOK /\ SendOK /\ SpokenOK /\ LineInv
    /\ [Next]_vars
    => AirOK' /\ SpokenOK' /\ LineInv'
  <1> SUFFICES ASSUME NamesOK, AirOK, SendOK, SpokenOK, LineInv, [Next]_vars
               PROVE  AirOK' /\ SpokenOK' /\ LineInv'
    OBVIOUS
  <1> DEFINE Q == AirOK' /\ SpokenOK' /\ LineInv'
  <1> USE DEF AirOK, SendOK, SpokenOK, LineInv, SenderAlive, queueVars, lineVars, taskVars
  <1>1. ASSUME NEW p \in Phrases, SendQuiet(p) PROVE Q
    <2>1. UNCHANGED <<outgoing, bridge, sender, buffer, air>>
      BY <1>1 DEF SendQuiet, SendFindsSession, SendFindsNone, SendDrains, SendWakes, SendFails
    <2>2. \A q \in Phrases : send'[q] = "pushing" => bridge = "up" \/ send[q] = "pushing"
      BY <1>1 DEF SendQuiet, SendFindsSession, SendFindsNone, SendDrains, SendWakes, SendFails
    <2> QED BY <2>1, <2>2
  <1>2. ASSUME NEW p \in Phrases, SendPushes(p) PROVE Q
    <2>1. PICK f \in 1..MaxFrames : outgoing' = Append(outgoing, [phrase |-> p, frames |-> f])
      BY <1>2, Zenon DEF SendPushes, PushOutgoing
    <2>2. [phrase |-> p, frames |-> f] \in Speech
      BY DEF Speech
    <2>3. UNCHANGED <<lineVars, send>> /\ bridge # "none"
      BY <1>2 DEF SendPushes
    <2>4. outgoing' \in Seq(Speech \cup {SpeechEnd})
      BY <2>1, <2>2
    <2>5. bridge # "gone" => outgoing' \in Seq(Speech)
      BY <2>1, <2>2
    <2> QED BY <2>3, <2>4, <2>5
  <1>3. CASE BargeStep
    BY <1>3 DEF BargeStep, BargeReads, BargeEnds
  <1>4. CASE SayCut
    <2> DEFINE cut == [send EXCEPT ![phrase] = "cancelled"]
    <2>1. cut \in [Phrases -> SendStates]
      BY DEF SendStates
    <2>2. outgoing' = <<>> /\ (send' = cut \/ send' = Woken(cut)) /\ UNCHANGED lineVars
      BY <1>4, Zenon DEF SayCut, ClearOutgoing
    <2>3. \A q \in Phrases : send'[q] = "pushing" => send[q] = "pushing"
      BY <2>1, <2>2, WokenTasks
    <2> QED BY <2>2, <2>3
  <1>5. CASE StartSay
    BY <1>5 DEF StartSay
  <1>6. CASE SaySteps
    BY <1>4, <1>6 DEF SaySteps, SayCutReturns, SayNotCut, SayReaps, SayReaped,
                SayAwaited, SayFails, SayGuarded
  <1>7. CASE ListenSteps \/ CallTimeout
    BY <1>7 DEF ListenSteps, StartListening, Hear, StopListening, FinishDialog, HangUp, CallTimeout
  <1>8. CASE Connect \/ StartSender \/ Media
    BY <1>8 DEF Connect, StartSender, Media, NamesOK
  <1>9. CASE Disconnect \/ WatchHangup
    <2>1. outgoing' = Append(outgoing, SpeechEnd) /\ bridge' = "gone" /\ sender' = "dead" /\ buffer' = 0
          /\ air' = air
      BY <1>9, Zenon DEF Disconnect, WatchHangup, CloseBridge
    <2> QED BY <2>1
  <1>10. CASE SenderTakes
    <2>1. Head(outgoing) \in Speech /\ Tail(outgoing) \in Seq(Speech)
      BY <1>10 DEF SenderTakes
    <2>2. Head(outgoing).frames \in 1..MaxFrames /\ Head(outgoing).phrase \in 1..MaxPhrases
      BY <2>1 DEF Speech, Phrases
    <2> QED BY <1>10, <2>1, <2>2 DEF SenderTakes
  <1>11. CASE SenderMarks
    <2>1. send' = send \/ send' = Woken(send)
      BY <1>11, Zenon DEF SenderMarks, MarkOutgoingTaken
    <2>2. UNCHANGED <<outgoing, bridge, buffer, air>> /\ sender = "got" /\ sender' = "busy"
      BY <1>11 DEF SenderMarks
    <2> QED BY <2>1, <2>2, WokenTasks
  <1>12. CASE Tick \/ SenderCrashes
    BY <1>12 DEF Tick, SenderCrashes, NamesOK
  <1>13. CASE UNCHANGED vars
    BY <1>13 DEF vars
  <1> QED BY <1>1, <1>2, <1>3, <1>4, <1>5, <1>6, <1>7, <1>8, <1>9, <1>10, <1>11, <1>12, <1>13, NextSteps
          DEF BridgeSteps

(* What comes from the caller: the queue, what barge-in tasks have read,   *)
(* what was heard.                                                         *)
LEMMA HeardStep == NumbersOK /\ HasPhrase /\ HeardOK /\ [Next]_vars => HeardOK'
  <1> SUFFICES ASSUME NumbersOK, HasPhrase, HeardOK, [Next]_vars PROVE HeardOK'
    OBVIOUS
  <1> USE DEF HeardOK, queueVars, taskVars
  <1>1. ASSUME NEW p \in Phrases, SendQuiet(p) \/ SendPushes(p)
        PROVE  UNCHANGED <<incoming, collected, heard>>
    BY <1>1 DEF SendQuiet, SendFindsSession, SendFindsNone, SendDrains, SendWakes, SendFails, SendPushes
  <1>2. ASSUME NEW p \in Phrases, BargeReads(p) PROVE HeardOK'
    <2>1. incoming # <<>> /\ Head(incoming) \in 0..MaxArrivals /\ Head(incoming) # CLOSED
      BY <1>2 DEF BargeReads
    <2>2. Head(incoming) \in 1..MaxArrivals /\ Tail(incoming) \in Seq(0..MaxArrivals)
      BY <2>1 DEF CLOSED
    <2>3. Append(collected[p], Head(incoming)) \in Seq(1..MaxArrivals)
      BY <2>2
    <2>4. /\ incoming' = Tail(incoming) /\ heard' = heard
          /\ collected' = [collected EXCEPT ![p] = Append(collected[p], Head(incoming))]
      BY <1>2, Zenon DEF BargeReads
    <2> QED BY <2>2, <2>3, <2>4
  <1>3. ASSUME NEW p \in Phrases, BargeEnds(p) PROVE HeardOK'
    BY <1>3 DEF BargeEnds
  <1>4. CASE Repush /\ phrase > 0 /\ UNCHANGED heard
    <2>1. phrase \in Phrases /\ 1..MaxArrivals \subseteq 0..MaxArrivals
      BY <1>4 DEF NumbersOK, Phrases
    <2>2. collected[phrase] \in Seq(0..MaxArrivals)
      BY <2>1, SeqMonotonic
    <2>3. incoming \o collected[phrase] \in Seq(0..MaxArrivals) /\ <<>> \in Seq(1..MaxArrivals)
      BY <2>2
    <2> QED BY <1>4, <2>3 DEF Repush
  <1>5. CASE SayCut \/ SayNotCut \/ SayReaped
    <2>1. Repush /\ call \in {"wait", "reap"} /\ UNCHANGED heard
      BY <1>5, Zenon DEF SayCut, SayNotCut, SayReaped
    <2> QED BY <1>4, <2>1 DEF HasPhrase
  <1>6. CASE StartSay \/ SaySteps
    BY <1>5, <1>6 DEF StartSay, SaySteps, SayCutReturns, SayReaps, SayAwaited, SayFails, SayGuarded
  <1>7. CASE Hear
    <2>1. Head(incoming) \in 0..MaxArrivals /\ Tail(incoming) \in Seq(0..MaxArrivals)
      BY <1>7 DEF Hear
    <2>2. heard' = heard \/ (Head(incoming) # 0 /\ heard' = heard \cup {Head(incoming)})
      BY <1>7, Zenon DEF Hear, CLOSED
    <2>3. incoming' = Tail(incoming) /\ collected' = collected
      BY <1>7 DEF Hear
    <2>4. heard' \in SUBSET (1..MaxArrivals)
      <3>1. Head(incoming) # 0 => Head(incoming) \in 1..MaxArrivals
        BY <2>1
      <3> QED BY <2>2, <3>1
    <2> QED BY <2>1, <2>3, <2>4
  <1>8. CASE ListenSteps \/ CallTimeout
    BY <1>7, <1>8 DEF ListenSteps, StartListening, StopListening, FinishDialog, HangUp, CallTimeout
  <1>9. CASE Media
    <2>1. arrived + 1 \in 0..MaxArrivals
      BY <1>9 DEF Media, NumbersOK
    <2>2. incoming' = Append(incoming, arrived + 1) /\ UNCHANGED <<collected, heard>>
      BY <1>9, Zenon DEF Media
    <2>3. Append(incoming, arrived + 1) \in Seq(0..MaxArrivals)
      BY <2>1
    <2> QED BY <2>2, <2>3
  <1>10. CASE Disconnect \/ WatchHangup
    <2>1. incoming' = Append(incoming, CLOSED) /\ UNCHANGED <<collected, heard>>
      BY <1>10, Zenon DEF Disconnect, WatchHangup, CloseBridge
    <2>2. CLOSED \in 0..MaxArrivals
      BY DEF CLOSED
    <2>3. Append(incoming, CLOSED) \in Seq(0..MaxArrivals)
      BY <2>2
    <2> QED BY <2>1, <2>3
  <1>11. CASE Connect \/ StartSender
    BY <1>11 DEF Connect, StartSender
  <1>12. CASE SenderTakes \/ SenderMarks \/ Tick \/ SenderCrashes
    BY <1>12 DEF SenderTakes, SenderMarks, Tick, SenderCrashes
  <1>13. CASE UNCHANGED vars
    BY <1>13 DEF vars
  <1> QED BY <1>1, <1>2, <1>3, <1>6, <1>8, <1>9, <1>10, <1>11, <1>12, <1>13, NextSteps
          DEF BargeStep, BridgeSteps

TypeInv == TypeOK /\ LineInv /\ HasPhrase

(* The initial states are well typed.                                      *)
LEMMA TypeInvInit == Init => TypeInv
  <1> SUFFICES ASSUME Init PROVE TypeInv
    OBVIOUS
  <1>1. NamesOK /\ NumbersOK /\ AirOK /\ HeardOK /\ SpokenOK
    BY DEF Init, NamesOK, NumbersOK, AirOK, HeardOK, SpokenOK
  <1>2. FlagsOK
    BY Zenon DEF Init, FlagsOK
  <1>3. SendOK /\ BargeOK
    BY DEF Init, SendOK, BargeOK, SendStates, BargeStates
  <1>4. LineInv /\ HasPhrase
    BY DEF Init, LineInv, HasPhrase, SenderAlive
  <1> QED BY <1>1, <1>2, <1>3, <1>4, TypeParts DEF TypeInv

(* TypeInv is inductive.                                                   *)
LEMMA TypeInvStep == TypeInv /\ [Next]_vars => TypeInv'
  <1> SUFFICES ASSUME TypeInv, [Next]_vars PROVE TypeInv'
    OBVIOUS
  <1>1. /\ NamesOK /\ NumbersOK /\ AirOK /\ FlagsOK /\ SendOK /\ BargeOK /\ SpokenOK /\ HeardOK
        /\ LineInv /\ HasPhrase
    BY TypeParts DEF TypeInv
  <1>2. /\ NamesOK' /\ NumbersOK' /\ AirOK' /\ FlagsOK' /\ SendOK' /\ BargeOK' /\ SpokenOK' /\ HeardOK'
        /\ LineInv' /\ HasPhrase'
    BY <1>1, NamesStep, NumbersStep, FlagsStep, SendStep_, BargeStep_, SpokenStep, HeardStep, HasPhraseStep
  <1> QED BY <1>2 DEF TypeInv, TypeOK, NamesOK, NumbersOK, AirOK, FlagsOK, SendOK, BargeOK, SpokenOK,
             HeardOK

(* Every variable keeps its type; the sender never has less than nothing   *)
(* left to send, because it takes no sentinel.                             *)
THEOREM TypeCorrect == Spec => []TypeOK
  <1>1. TypeInv => TypeOK
    BY DEF TypeInv
  <1> QED BY <1>1, TypeInvInit, TypeInvStep, PTL DEF Spec

-----------------------------------------------------------------------------
(* What the steps do, by the variables they touch.                         *)

(* The outgoing queue and its count change in six sorts of steps only.     *)
QueueTouched ==
    \/ \E p \in Phrases : SendPushes(p)
    \/ SayCut \/ SenderTakes \/ SenderMarks \/ Disconnect \/ WatchHangup

(* Every other step leaves the agent's queue and its counter alone.        *)
LEMMA QueueSteps ==
    ASSUME TypeInv, [Next]_vars, ~QueueTouched
    PROVE  /\ UNCHANGED <<outgoing, pending, drained, air>>
           /\ sender' = "got" <=> sender = "got"
           /\ bridge' = "gone" <=> bridge = "gone"
  <1> DEFINE Q == /\ UNCHANGED <<outgoing, pending, drained, air>>
                  /\ sender' = "got" <=> sender = "got"
                  /\ bridge' = "gone" <=> bridge = "gone"
  <1> USE DEF queueVars, lineVars
  <1>1. ASSUME NEW p \in Phrases, SendQuiet(p) PROVE Q
    BY <1>1 DEF SendQuiet, SendFindsSession, SendFindsNone, SendDrains, SendWakes, SendFails
  <1>2. CASE BargeStep
    BY <1>2 DEF BargeStep, BargeReads, BargeEnds
  <1>3. CASE StartSay \/ (SaySteps /\ ~SayCut)
    BY <1>3 DEF StartSay, SaySteps, SayCutReturns, SayNotCut, SayReaps, SayReaped, SayAwaited,
                SayFails, SayGuarded
  <1>4. CASE ListenSteps \/ CallTimeout
    BY <1>4 DEF ListenSteps, StartListening, Hear, StopListening, FinishDialog, HangUp, CallTimeout
  <1>5. CASE Connect \/ StartSender \/ Media
    BY <1>5 DEF Connect, StartSender, Media
  <1>6. CASE Tick \/ SenderCrashes
    BY <1>6 DEF Tick, SenderCrashes
  <1>7. CASE UNCHANGED vars
    BY <1>7 DEF vars
  <1> QED BY <1>1, <1>2, <1>3, <1>4, <1>5, <1>6, <1>7, NextSteps DEF BridgeSteps, QueueTouched

(* A phrase's task moves alone, and never back from its end.               *)
LEMMA SendMoves ==
    ASSUME TypeInv, NEW p \in Phrases, SendQuiet(p)
    PROVE  /\ send[p] \in {"polling", "pushing", "woken"}
           /\ send'[p] \in {"pushing", "done", "draining", "failed"}
           /\ \A q \in Phrases : q # p => send'[q] = send[q]
           /\ UNCHANGED <<queueVars, lineVars, callVars, barge, collected, arrived, heard>>
  BY DEF TypeInv, TypeOK, SendQuiet, SendFindsSession, SendFindsNone, SendDrains, SendWakes, SendFails

(* The sender wakes the tasks that wait for the drain, or nobody.          *)
LEMMA MarksMoves ==
    ASSUME TypeInv, SenderMarks
    PROVE  /\ \A p \in Phrases : send'[p] = send[p] \/ (send[p] = "draining" /\ send'[p] = "woken")
           /\ pending' # 0 => send' = send
           /\ UNCHANGED <<outgoing, incoming, callVars, barge, collected, arrived, heard, air, bridge>>
  <1>1. send' = send \/ (pending' = 0 /\ send' = Woken(send))
    BY Zenon DEF SenderMarks, MarkOutgoingTaken
  <1>2. UNCHANGED <<outgoing, incoming, callVars, barge, collected, arrived, heard, air, bridge>>
    BY Zenon DEF SenderMarks
  <1>3. send \in [Phrases -> SendStates]
    BY DEF TypeInv, TypeOK
  <1> QED BY <1>1, <1>2, <1>3, WokenTasks

(* A barge-in empties the queue, cancels its phrase and wakes the others.  *)
LEMMA CutMoves ==
    ASSUME TypeInv, SayCut
    PROVE  /\ phrase \in Phrases /\ call = "wait" /\ call' = "cancelSend"
           /\ barge[phrase] = "confirmed"
           /\ send'[phrase] = "cancelled"
           /\ \A p \in Phrases : p # phrase =>
                 send'[p] = send[p] \/ (send[p] = "draining" /\ send'[p] = "woken")
           /\ outgoing' = <<>>
           /\ UNCHANGED <<lineVars, phrase, guard, timedOut, barge, arrived, heard>>
           /\ Repush
  <1> DEFINE cut == [send EXCEPT ![phrase] = "cancelled"]
  <1>1. /\ call = "wait" /\ call' = "cancelSend" /\ outgoing' = <<>> /\ barge[phrase] = "confirmed"
        /\ UNCHANGED <<lineVars, phrase, guard, timedOut, barge, arrived, heard>> /\ Repush
        /\ send' = cut \/ send' = Woken(cut)
    BY Zenon DEF SayCut, ClearOutgoing
  <1>2. phrase \in Phrases /\ send \in [Phrases -> SendStates]
    BY <1>1 DEF TypeInv, TypeOK, HasPhrase, Phrases
  <1>3. cut \in [Phrases -> SendStates]
    BY <1>2 DEF SendStates
  <1> QED BY <1>1, <1>2, <1>3, WokenTasks

-----------------------------------------------------------------------------
(* The count of the chunks.                                                *)

Counted ==
    /\ bridge # "gone" => pending = Len(outgoing) + (IF sender = "got" THEN 1 ELSE 0)
    /\ drained <=> pending = 0

(* Without a count there is nothing but the sentinel in the queue, even    *)
(* after the session was closed.                                           *)
Emptied == pending = 0 => \A i \in 1..Len(outgoing) : outgoing[i] = SpeechEnd

(* Every step that touches the queue corrects _pending_out.                *)
LEMMA CountedStep == TypeInv /\ Counted /\ [Next]_vars => Counted'
  <1> SUFFICES ASSUME TypeInv, Counted, [Next]_vars PROVE Counted'
    OBVIOUS
  <1>1. pending \in Nat /\ Len(outgoing) \in Nat /\ outgoing \in Seq(Speech \cup {SpeechEnd})
    BY DEF TypeInv, TypeOK
  <1>2. CASE ~QueueTouched
    BY <1>2, QueueSteps DEF Counted
  <1>3. ASSUME NEW p \in Phrases, SendPushes(p) PROVE Counted'
    <2>1. PICK f \in 1..MaxFrames : outgoing' = Append(outgoing, [phrase |-> p, frames |-> f])
      BY <1>3, Zenon DEF SendPushes, PushOutgoing
    <2>2. [phrase |-> p, frames |-> f] \in Speech \cup {SpeechEnd}
      BY DEF Speech
    <2>3. Len(outgoing') = Len(outgoing) + 1
      BY <1>1, <2>1, <2>2
    <2>4. pending' = pending + 1 /\ ~drained' /\ UNCHANGED <<bridge, sender>>
      BY <1>3, Zenon DEF SendPushes, PushOutgoing, lineVars
    <2> QED BY <1>1, <2>3, <2>4 DEF Counted
  <1>4. CASE SayCut
    <2>1. /\ outgoing' = <<>> /\ pending' = Minus(pending, Len(outgoing))
          /\ drained' = (drained \/ pending' = 0) /\ UNCHANGED <<bridge, sender>>
      BY <1>4, Zenon DEF SayCut, ClearOutgoing, lineVars
    <2>2. drained' <=> (drained \/ pending' = 0)
      BY <2>1
    <2>3. Len(outgoing') = 0
      BY <2>1
    <2> QED BY <1>1, <2>1, <2>2, <2>3 DEF Counted, Minus
  <1>5. CASE SenderTakes
    <2>1. Len(Tail(outgoing)) = Len(outgoing) - 1
      BY <1>1, <1>5 DEF SenderTakes
    <2>2. /\ sender = "get" /\ sender' = "got" /\ outgoing' = Tail(outgoing)
          /\ UNCHANGED <<pending, drained, bridge>>
      BY <1>5, Zenon DEF SenderTakes
    <2>3. bridge # "gone" => pending = Len(outgoing)
      BY <1>1, <2>2 DEF Counted
    <2>4. bridge' # "gone" => pending' = Len(outgoing') + 1
      BY <1>1, <2>1, <2>2, <2>3
    <2>5. drained' <=> pending' = 0
      BY <2>2 DEF Counted
    <2> QED BY <2>2, <2>4, <2>5 DEF Counted
  <1>6. CASE SenderMarks
    <2>1. /\ pending' = Minus(pending, 1) /\ drained' = (drained \/ pending' = 0)
          /\ UNCHANGED <<outgoing, bridge>> /\ sender = "got" /\ sender' = "busy"
      BY <1>6, Zenon DEF SenderMarks, MarkOutgoingTaken
    <2>2. drained' <=> (drained \/ pending' = 0)
      BY <2>1
    <2>3. bridge # "gone"
      BY <2>1 DEF TypeInv, LineInv, SenderAlive
    <2> QED BY <1>1, <2>1, <2>2, <2>3 DEF Counted, Minus
  <1>7. CASE Disconnect \/ WatchHangup
    BY <1>7 DEF Disconnect, WatchHangup, CloseBridge, Counted
  <1> QED BY <1>2, <1>3, <1>4, <1>5, <1>6, <1>7 DEF QueueTouched

(* As long as nothing is counted only the sentinel comes into the queue.   *)
LEMMA EmptiedStep == TypeInv /\ Counted /\ Emptied /\ [Next]_vars => Emptied'
  <1> SUFFICES ASSUME TypeInv, Counted, Emptied, [Next]_vars PROVE Emptied'
    OBVIOUS
  <1>1. pending \in Nat /\ outgoing \in Seq(Speech \cup {SpeechEnd})
    BY DEF TypeInv, TypeOK
  <1>2. CASE ~QueueTouched
    BY <1>2, QueueSteps DEF Emptied
  <1>3. ASSUME NEW p \in Phrases, SendPushes(p) PROVE Emptied'
    <2>1. pending' = pending + 1
      BY <1>3, Zenon DEF SendPushes, PushOutgoing
    <2> QED BY <1>1, <2>1 DEF Emptied
  <1>4. CASE SayCut
    BY <1>4, CutMoves DEF Emptied
  <1>5. CASE SenderTakes
    <2>1. \A i \in 1..Len(outgoing') : i + 1 \in 1..Len(outgoing) /\ outgoing'[i] = outgoing[i + 1]
      BY <1>1, <1>5 DEF SenderTakes
    <2>2. pending' = pending
      BY <1>5 DEF SenderTakes
    <2> QED BY <1>1, <2>1, <2>2 DEF Emptied
  <1>6. CASE SenderMarks
    <2>1. bridge # "gone" /\ sender = "got"
      BY <1>6 DEF SenderMarks, TypeInv, LineInv, SenderAlive
    <2>2. pending = Len(outgoing) + 1 /\ Len(outgoing) \in Nat
      BY <1>1, <2>1 DEF Counted
    <2>3. outgoing' = outgoing /\ pending' = Minus(pending, 1)
      BY <1>6 DEF SenderMarks, MarkOutgoingTaken
    <2>4. pending' = 0 => Len(outgoing) = 0
      BY <2>2, <2>3 DEF Minus
    <2> QED BY <2>3, <2>4 DEF Emptied
  <1>7. CASE Disconnect \/ WatchHangup
    <2>1. bridge = "up" /\ outgoing' = Append(outgoing, SpeechEnd) /\ pending' = pending
      BY <1>7 DEF Disconnect, WatchHangup, CloseBridge
    <2>2. pending = 0 => Len(outgoing) = 0
      BY <1>1, <2>1 DEF Counted
    <2> QED BY <1>1, <2>1, <2>2 DEF Emptied
  <1> QED BY <1>2, <1>3, <1>4, <1>5, <1>6, <1>7 DEF QueueTouched

-----------------------------------------------------------------------------
(* The tasks of the phrases and the call's task.                           *)

(* A phrase not yet begun has no tasks.                                    *)
Fresh == \A p \in Phrases : p > phrase =>
    send[p] = "none" /\ barge[p] = "none" /\ collected[p] = <<>>

(* What each await of the call's task knows of the phrase.                 *)
Stages ==
    /\ call = "goodbye" => timedOut
    /\ timedOut => call \notin {"idle", "listen"}
    /\ call # "guard" => guard = 0
    /\ call = "guard" => send[phrase] = "done"
    /\ call = "cancelSend" => send[phrase] = "cancelled"
    /\ call = "reap" => send[phrase] \in SendOver
    /\ call \in {"reap", "awaitSend"} => barge[phrase] # "reading"
    /\ call = "awaitSend" /\ barge[phrase] = "confirmed" => send[phrase] \in SendOver

(* send_audio is cancelled by a barge-in that is over, or by the timer     *)
(* when there is none.                                                     *)
CutInv == \A p \in Phrases : send[p] = "cancelled" => barge[p] # "reading"

(* Until the timer fires only the phrase being said has live tasks, and    *)
(* what its barge-in task has read is given back when it is over.          *)
Alone == ~timedOut => \A p \in Phrases :
    /\ p # phrase \/ call \notin {"wait", "reap", "awaitSend"}
          => send[p] \in SendOver \cup {"none"}
    /\ p # phrase \/ call # "wait" => barge[p] # "reading"
    /\ p # phrase \/ call \notin {"wait", "reap"} => collected[p] = <<>>

TaskInv == Fresh /\ Stages /\ CutInv /\ Alone

(* At the start there is no task but the call's.                           *)
LEMMA TaskInvInit == Init => TaskInv
  <1> SUFFICES ASSUME Init PROVE TaskInv
    OBVIOUS
  <1>1. Fresh /\ CutInv /\ Alone
    BY DEF Init, Fresh, CutInv, Alone
  <1>2. Stages
    <2>1. call = "idle" /\ ~timedOut /\ guard = 0
      BY Zenon DEF Init
    <2> QED BY <2>1 DEF Stages
  <1> QED BY <1>1, <1>2 DEF TaskInv

(* Steps that leave the call's task and the barge-in tasks where they are. *)
LEMMA TaskStepSend ==
    ASSUME TypeInv, TaskInv, NEW p \in Phrases, SendQuiet(p) \/ SendPushes(p)
    PROVE  TaskInv'
  <1> USE DEF TypeInv, TypeOK, SendOver, TaskInv
  <1>1. CASE SendQuiet(p)
    <2>1. UNCHANGED callVars /\ UNCHANGED barge /\ UNCHANGED collected
      BY <1>1, SendMoves
    <2>2. send[p] \notin SendOver \cup {"none"} /\ send'[p] # "cancelled"
          /\ \A q \in Phrases : q # p => send'[q] = send[q]
      BY <1>1, SendMoves
    <2>3. Fresh' /\ CutInv'
      BY <2>1, <2>2 DEF Fresh, CutInv, callVars
    <2>4. Stages'
      BY <2>1, <2>2, SMTT(30) DEF Stages, callVars, HasPhrase, Phrases
    <2>5. Alone'
      BY <2>1, <2>2 DEF Alone, callVars
    <2> QED BY <2>3, <2>4, <2>5
  <1>2. CASE SendPushes(p)
    <2>1. UNCHANGED callVars /\ UNCHANGED barge /\ UNCHANGED collected /\ UNCHANGED send
      BY <1>2, Zenon DEF SendPushes
    <2> QED BY <2>1 DEF callVars, Fresh, Stages, CutInv, Alone
  <1> QED BY <1>1, <1>2

(* A step of the barge-in task of a phrase keeps TaskInv.                  *)
LEMMA TaskStepBarge ==
    ASSUME TypeInv, TaskInv, NEW p \in Phrases, BargeReads(p) \/ BargeEnds(p)
    PROVE  TaskInv'
  <1> USE DEF TypeInv, TypeOK, SendOver, TaskInv
  <1>1. UNCHANGED callVars /\ UNCHANGED send /\ barge[p] = "reading"
    BY Zenon DEF BargeReads, BargeEnds
  <1>2. \A q \in Phrases : q # p => barge'[q] = barge[q] /\ collected'[q] = collected[q]
    BY DEF BargeReads, BargeEnds
  <1>3. Fresh'
    BY <1>1, <1>2 DEF Fresh, callVars
  <1>4. CutInv'
    BY <1>1, <1>2 DEF CutInv
  <1>5. Stages'
    BY <1>1, <1>2, SMTT(30) DEF Stages, callVars, HasPhrase, Phrases
  <1>6. Alone'
    BY <1>1, <1>2 DEF Alone, callVars
  <1> QED BY <1>3, <1>4, <1>5, <1>6

(* So does a step of the line, the bridge or its sender.                   *)
LEMMA TaskStepLine ==
    ASSUME TypeInv, TaskInv,
           BridgeSteps \/ SenderTakes \/ SenderMarks \/ Tick \/ SenderCrashes \/ UNCHANGED vars
    PROVE  TaskInv'
  <1> USE DEF TypeInv, TypeOK, SendOver, TaskInv
  <1>1. CASE SenderMarks
    <2>1. UNCHANGED callVars /\ UNCHANGED barge /\ UNCHANGED collected
      BY <1>1, MarksMoves
    <2>2. \A q \in Phrases : send'[q] = send[q] \/ (send[q] = "draining" /\ send'[q] = "woken")
      BY <1>1, MarksMoves
    <2>3. Fresh' /\ CutInv'
      BY <2>1, <2>2 DEF Fresh, CutInv, callVars
    <2>4. Stages'
      BY <2>1, <2>2 DEF Stages, callVars, HasPhrase, Phrases
    <2>5. Alone'
      BY <2>1, <2>2 DEF Alone, callVars
    <2> QED BY <2>3, <2>4, <2>5
  <1>2. CASE Tick
    <2>1. UNCHANGED <<call, phrase, timedOut, send, barge, collected>> /\ guard' = Minus(guard, 1)
      BY <1>2, Zenon DEF Tick, taskVars
    <2> QED BY <2>1 DEF Fresh, Stages, CutInv, Alone, Minus
  <1>3. CASE BridgeSteps \/ SenderTakes \/ SenderCrashes \/ UNCHANGED vars
    <2>1. UNCHANGED callVars /\ UNCHANGED barge /\ UNCHANGED collected /\ UNCHANGED send
      BY <1>3, Zenon DEF BridgeSteps, Connect, StartSender, Media, Disconnect, WatchHangup, CloseBridge,
                         SenderTakes, SenderCrashes, taskVars, vars
    <2> QED BY <2>1 DEF callVars, Fresh, Stages, CutInv, Alone
  <1> QED BY <1>1, <1>2, <1>3

(* Steps of the call's task.                                               *)
LEMMA TaskStepSay ==
    ASSUME TypeInv, TaskInv, StartSay \/ SaySteps
    PROVE  TaskInv'
  <1> USE DEF TypeInv, TypeOK, SendOver, TaskInv, Phrases, HasPhrase
  <1>1. CASE StartSay
    <2>1. /\ call \in {"idle", "goodbye"} /\ call' \in {"wait", "awaitSend"}
          /\ phrase' = phrase + 1 /\ phrase' \in Phrases
          /\ send' = [send EXCEPT ![phrase'] = "polling"]
          /\ call' = "wait" \/ barge' = barge
          /\ barge' = barge \/ barge' = [barge EXCEPT ![phrase'] = "reading"]
          /\ UNCHANGED <<collected, timedOut, guard>>
      BY <1>1 DEF StartSay
    <2>2. send'[phrase'] = "polling" /\ \A q \in Phrases : q # phrase' => send'[q] = send[q]
      BY <2>1
    <2>3. \A q \in Phrases : q # phrase' => barge'[q] = barge[q]
      BY <2>1
    <2>4. barge[phrase'] = "none" /\ send[phrase'] = "none" /\ collected[phrase'] = <<>>
      BY <2>1 DEF Fresh
    <2>5. Fresh' /\ CutInv'
      <3>1. \A q \in Phrases : q > phrase' => q > phrase /\ q # phrase'
        BY <2>1
      <3>2. Fresh'
        BY <2>1, <2>2, <2>3, <3>1 DEF Fresh
      <3>3. CutInv'
        BY <2>2, <2>3 DEF CutInv
      <3> QED BY <3>2, <3>3
    <2>6. Stages'
      BY <2>1, <2>2, <2>3, <2>4 DEF Stages
    <2>7. Alone'
      BY <2>1, <2>2, <2>3, <2>4 DEF Alone
    <2> QED BY <2>5, <2>6, <2>7
  <1>2. CASE SayCut
    <2>1. /\ phrase \in Phrases /\ call = "wait" /\ call' = "cancelSend"
          /\ send'[phrase] = "cancelled" /\ barge[phrase] = "confirmed"
          /\ UNCHANGED <<phrase, guard, timedOut, barge>>
          /\ collected' = [collected EXCEPT ![phrase] = <<>>]
          /\ \A p \in Phrases : p # phrase =>
                 send'[p] = send[p] \/ (send[p] = "draining" /\ send'[p] = "woken")
      BY <1>2, CutMoves DEF Repush
    <2>2. Fresh' /\ CutInv'
      BY <2>1 DEF Fresh, CutInv
    <2>3. Stages'
      BY <2>1 DEF Stages
    <2>4. Alone'
      BY <2>1 DEF Alone
    <2> QED BY <2>2, <2>3, <2>4
  <1>3. CASE SayNotCut \/ SayReaped
    <2>1. /\ call \in {"wait", "reap"} /\ call' = "awaitSend" /\ phrase \in Phrases
          /\ UNCHANGED <<phrase, guard, timedOut, barge, send>>
          /\ collected' = [collected EXCEPT ![phrase] = <<>>]
          /\ barge[phrase] # "reading" /\ (barge[phrase] = "confirmed" => send[phrase] \in SendOver)
      BY <1>3, SMTT(30) DEF SayNotCut, SayReaped, Repush, Stages
    <2> QED BY <2>1 DEF Fresh, Stages, CutInv, Alone
  <1>4. CASE SayReaps
    <2>1. /\ call = "wait" /\ call' = "reap" /\ phrase \in Phrases /\ send[phrase] \in SendOver
          /\ barge' = [barge EXCEPT ![phrase] = "cancelled"]
          /\ UNCHANGED <<phrase, guard, timedOut, send, collected>>
      BY <1>4 DEF SayReaps
    <2> QED BY <2>1 DEF Fresh, Stages, CutInv, Alone
  <1>5. CASE SayCutReturns \/ SayAwaited \/ SayFails \/ SayGuarded
    <2>1. UNCHANGED <<phrase, timedOut, send, barge, collected>>
      BY <1>5, Zenon DEF SayCutReturns, SayAwaited, SayFails, SayGuarded, taskVars
    <2>2. /\ call \in {"cancelSend", "awaitSend", "guard"} /\ send[phrase] \in SendOver
          /\ call' \in {"guard", "idle", "over"}
          /\ call' = "guard" => send[phrase] = "done"
          /\ call' # "guard" => guard' = 0
          /\ call' = "idle" => ~timedOut
          /\ collected[phrase] = <<>> \/ timedOut
      BY <1>5, SMTT(30) DEF SayCutReturns, SayAwaited, SayFails, SayGuarded, Continue, Stages, Alone
    <2>3. Stages'
      BY <2>1, <2>2 DEF Stages
    <2>4. Alone'
      BY <2>1, <2>2 DEF Alone
    <2> QED BY <2>1, <2>3, <2>4 DEF Fresh, CutInv
  <1> QED BY <1>1, <1>2, <1>3, <1>4, <1>5 DEF SaySteps

(* So do listening and the end of the call, and the timer, after which the *)
(* tasks of a phrase may be left behind.                                   *)
LEMMA TaskStepListen ==
    ASSUME TypeInv, TaskInv, ListenSteps \/ CallTimeout
    PROVE  TaskInv'
  <1> USE DEF TypeInv, TypeOK, SendOver, TaskInv, Phrases, HasPhrase
  <1>1. CASE ListenSteps
    <2>1. UNCHANGED <<phrase, guard, timedOut, send, barge, collected>>
      BY <1>1, Zenon DEF ListenSteps, StartListening, Hear, StopListening, FinishDialog, HangUp, taskVars
    <2>2. /\ call \in {"idle", "listen", "over"} /\ call' \in {"idle", "listen", "over", "hungUp"}
          /\ call' \in {"idle", "listen"} => call \in {"idle", "listen"}
      BY <1>1 DEF ListenSteps, StartListening, Hear, StopListening, FinishDialog, HangUp
    <2> QED BY <2>1, <2>2 DEF Fresh, Stages, CutInv, Alone
  <1>2. CASE CallTimeout
    <2>1. timedOut' /\ call' = "goodbye" /\ guard' = 0 /\ UNCHANGED <<phrase, barge, collected>>
      BY <1>2, Zenon DEF CallTimeout
    <2>2. \/ send' = send
          \/ call = "awaitSend" /\ send' = [send EXCEPT ![phrase] = "cancelled"]
      BY <1>2, Zenon DEF CallTimeout
    <2>3. CutInv' /\ Fresh'
      <3>1. \A q \in Phrases : q # phrase => send'[q] = send[q]
        BY <2>2
      <3>2. Fresh'
        <4>1. \A q \in Phrases : q > phrase => q # phrase
          OBVIOUS
        <4> HIDE DEF TypeInv, TypeOK
        <4> QED BY <2>1, <3>1, <4>1 DEF Fresh
      <3>3. CutInv'
        BY <2>1, <2>2, <3>1 DEF CutInv, Stages
      <3> QED BY <3>2, <3>3
    <2>4. Stages'
      BY <2>1 DEF Stages
    <2>5. Alone'
      BY <2>1 DEF Alone
    <2> QED BY <2>3, <2>4, <2>5
  <1> QED BY <1>1, <1>2

(* TaskInv is inductive.                                                   *)
LEMMA TaskInvStep == TypeInv /\ TaskInv /\ [Next]_vars => TaskInv'
  BY NextSteps, TaskStepSend, TaskStepBarge, TaskStepLine, TaskStepSay, TaskStepListen DEF BargeStep

-----------------------------------------------------------------------------
(* What has been said is gone.                                             *)

(* A phrase whose task has not pushed yet, or has seen the drain, has      *)
(* nothing in the queue; nor has one that was cut by its barge-in.         *)
Queued(p) == \E i \in 1..Len(outgoing) : outgoing[i].phrase = p
Unheard == \A p \in Phrases :
    send[p] \in {"none", "polling", "woken", "done"} => ~Queued(p)
CutGone == \A p \in Phrases :
    send[p] = "cancelled" /\ barge[p] = "confirmed" => ~Queued(p)

(* Nothing comes into the queue but what a task pushes, and a barge-in     *)
(* leaves nothing in it.                                                   *)
LEMMA QueuedMoves ==
    ASSUME TypeInv, [Next]_vars, NEW p \in Phrases, Queued(p)'
    PROVE  ~SayCut /\ (Queued(p) \/ SendPushes(p))
  <1>1. outgoing \in Seq(Speech \cup {SpeechEnd})
    BY DEF TypeInv, TypeOK
  <1>2. CASE ~QueueTouched
    BY <1>2, QueueSteps DEF Queued, QueueTouched
  <1>3. ASSUME NEW q \in Phrases, SendPushes(q) PROVE ~SayCut /\ (Queued(p) \/ SendPushes(p))
    <2>1. PICK f \in 1..MaxFrames : outgoing' = Append(outgoing, [phrase |-> q, frames |-> f])
      BY <1>3, Zenon DEF SendPushes, PushOutgoing
    <2>2. call' = call
      BY <1>3 DEF SendPushes, callVars
    <2>3. ~SayCut
      BY <2>2 DEF SayCut
    <2>4. [phrase |-> q, frames |-> f] \in Speech \cup {SpeechEnd}
      BY DEF Speech
    <2>5. q # p => Queued(p)
      BY <1>1, <2>1, <2>4 DEF Queued
    <2> QED BY <1>3, <2>3, <2>5
  <1>4. ~SayCut
    <2>1. SayCut => outgoing' = <<>>
      BY CutMoves
    <2> QED BY <2>1 DEF Queued
  <1>5. CASE SenderTakes
    BY <1>1, <1>4, <1>5 DEF SenderTakes, Queued
  <1>6. CASE SenderMarks
    BY <1>4, <1>6, MarksMoves DEF Queued
  <1>7. CASE Disconnect \/ WatchHangup
    <2>1. outgoing' = Append(outgoing, SpeechEnd)
      BY <1>7, Zenon DEF Disconnect, WatchHangup, CloseBridge
    <2>2. SpeechEnd.phrase # p
      BY DEF SpeechEnd, CLOSED, Phrases
    <2> QED BY <1>1, <1>4, <2>1, <2>2 DEF Queued
  <1> QED BY <1>2, <1>3, <1>4, <1>5, <1>6, <1>7 DEF QueueTouched

(* A task that had not finished pushing gets quiet in two ways only.       *)
LEMMA QuietMoves ==
    ASSUME TypeInv, TaskInv, [Next]_vars, ~SayCut, NEW p \in Phrases,
           send[p] \notin {"none", "polling", "woken", "done"},
           send'[p] \in {"none", "polling", "woken", "done"}
    PROVE  (drained /\ UNCHANGED queueVars) \/ pending' = 0
  <1> USE DEF TypeInv, TypeOK
  <1>1. ASSUME NEW q \in Phrases, SendQuiet(q) PROVE drained /\ UNCHANGED queueVars
    <2>1. q = p /\ UNCHANGED queueVars
      BY <1>1, SendMoves
    <2> QED BY <1>1, <2>1 DEF SendQuiet, SendFindsSession, SendFindsNone, SendDrains, SendWakes, SendFails
  <1>2. ASSUME NEW q \in Phrases, SendPushes(q) PROVE FALSE
    BY <1>2 DEF SendPushes
  <1>3. CASE SenderMarks
    BY <1>3, MarksMoves
  <1>4. CASE StartSay
    <2>1. phrase' \in Phrases /\ phrase' > phrase /\ send' = [send EXCEPT ![phrase'] = "polling"]
      BY <1>4 DEF StartSay, Phrases
    <2>2. send[phrase'] = "none"
      BY <2>1 DEF TaskInv, Fresh
    <2> QED BY <2>1, <2>2
  <1>5. CASE CallTimeout
    BY <1>5 DEF CallTimeout
  <1>6. CASE BargeStep \/ SaySteps \/ ListenSteps
    BY <1>6 DEF BargeStep, BargeReads, BargeEnds, SaySteps, SayCutReturns, SayNotCut, SayReaps,
                SayReaped, SayAwaited, SayFails, SayGuarded, ListenSteps, StartListening, Hear,
                StopListening, FinishDialog, HangUp, taskVars
  <1>7. CASE BridgeSteps \/ SenderTakes \/ Tick \/ SenderCrashes \/ UNCHANGED vars
    BY <1>7 DEF BridgeSteps, Connect, StartSender, Media, Disconnect, WatchHangup, CloseBridge,
                SenderTakes, Tick, SenderCrashes, vars, taskVars
  <1> QED BY <1>1, <1>2, <1>3, <1>4, <1>5, <1>6, <1>7, NextSteps

(* A phrase whose send task has ended normally has left the queue.         *)
LEMMA UnheardStep ==
    ASSUME TypeInv, TaskInv, Counted, Emptied, Unheard, [Next]_vars
    PROVE  Unheard'
  <1> SUFFICES ASSUME NEW p \in Phrases, Queued(p)',
                      send'[p] \in {"none", "polling", "woken", "done"}
               PROVE  FALSE
    BY DEF Unheard
  <1>1. ~SayCut /\ (Queued(p) \/ SendPushes(p))
    BY QueuedMoves
  <1>2. CASE SendPushes(p)
    BY <1>2 DEF SendPushes
  <1>3. CASE Queued(p)
    <2>1. send[p] \notin {"none", "polling", "woken", "done"}
      BY <1>3 DEF Unheard
    <2>2. (drained /\ UNCHANGED queueVars) \/ pending' = 0
      BY <1>1, <2>1, QuietMoves
    <2>3. pending' = 0
      BY <2>2 DEF Counted, queueVars
    <2>4. Emptied'
      BY EmptiedStep
    <2> QED BY <2>3, <2>4 DEF Emptied, Queued, SpeechEnd, CLOSED, Phrases
  <1> QED BY <1>1, <1>2, <1>3

(* send_audio is cancelled by the barge-in, or by the timer in "awaitSend". *)
LEMMA CancelMoves ==
    ASSUME TypeInv, [Next]_vars, ~SayCut, NEW p \in Phrases,
           send[p] # "cancelled", send'[p] = "cancelled"
    PROVE  CallTimeout /\ call = "awaitSend" /\ p = phrase /\ send[phrase] \notin SendOver
           /\ barge' = barge
  <1> USE DEF TypeInv, TypeOK
  <1>1. ASSUME NEW q \in Phrases, SendQuiet(q) \/ SendPushes(q) PROVE FALSE
    BY <1>1, SendMoves DEF SendPushes
  <1>2. CASE SenderMarks
    BY <1>2, MarksMoves
  <1>3. CASE StartSay
    BY <1>3 DEF StartSay
  <1>4. CASE CallTimeout
    BY <1>4 DEF CallTimeout
  <1>5. CASE BargeStep \/ SaySteps \/ ListenSteps
    BY <1>5 DEF BargeStep, BargeReads, BargeEnds, SaySteps, SayCutReturns, SayNotCut, SayReaps,
                SayReaped, SayAwaited, SayFails, SayGuarded, ListenSteps, StartListening, Hear,
                StopListening, FinishDialog, HangUp, taskVars
  <1>6. CASE BridgeSteps \/ SenderTakes \/ Tick \/ SenderCrashes \/ UNCHANGED vars
    BY <1>6 DEF BridgeSteps, Connect, StartSender, Media, Disconnect, WatchHangup, CloseBridge,
                SenderTakes, Tick, SenderCrashes, vars, taskVars
  <1> QED BY <1>1, <1>2, <1>3, <1>4, <1>5, <1>6, NextSteps

(* A barge-in is confirmed by the task that reads.                         *)
LEMMA ConfirmMoves ==
    ASSUME TypeInv, [Next]_vars, NEW p \in Phrases,
           barge[p] # "confirmed", barge'[p] = "confirmed"
    PROVE  barge[p] = "reading" /\ send' = send
  <1> USE DEF TypeInv, TypeOK
  <1>1. ASSUME NEW q \in Phrases, SendQuiet(q) \/ SendPushes(q) PROVE FALSE
    BY <1>1, SendMoves DEF SendPushes
  <1>2. ASSUME NEW q \in Phrases, BargeReads(q) \/ BargeEnds(q) PROVE barge[p] = "reading" /\ send' = send
    BY <1>2 DEF BargeReads, BargeEnds
  <1>3. CASE StartSay
    BY <1>3 DEF StartSay
  <1>4. CASE SaySteps \/ ListenSteps \/ CallTimeout
    BY <1>4 DEF SaySteps, SayCut, SayCutReturns, SayNotCut, SayReaps, SayReaped, SayAwaited, SayFails,
                SayGuarded, ListenSteps, StartListening, Hear, StopListening, FinishDialog, HangUp,
                CallTimeout, taskVars
  <1>5. CASE BridgeSteps \/ SenderTakes \/ SenderMarks \/ Tick \/ SenderCrashes \/ UNCHANGED vars
    BY <1>5 DEF BridgeSteps, Connect, StartSender, Media, Disconnect, WatchHangup, CloseBridge,
                SenderTakes, SenderMarks, Tick, SenderCrashes, vars, taskVars
  <1> QED BY <1>1, <1>2, <1>3, <1>4, <1>5, NextSteps DEF BargeStep

(* A phrase that was cut does not come back into the queue.                *)
LEMMA CutGoneStep ==
    ASSUME TypeInv, TaskInv, CutGone, [Next]_vars
    PROVE  CutGone'
  <1> SUFFICES ASSUME NEW p \in Phrases, Queued(p)', send'[p] = "cancelled", barge'[p] = "confirmed"
               PROVE  FALSE
    BY DEF CutGone
  <1>1. ~SayCut /\ (Queued(p) \/ SendPushes(p))
    BY QueuedMoves
  <1>2. CASE SendPushes(p)
    BY <1>2 DEF SendPushes
  <1>3. CASE Queued(p) /\ send[p] = "cancelled"
    <2>1. barge[p] = "reading"
      BY <1>3, ConfirmMoves DEF CutGone
    <2> QED BY <1>3, <2>1 DEF TaskInv, CutInv
  <1>4. CASE Queued(p) /\ send[p] # "cancelled"
    BY <1>1, <1>4, CancelMoves DEF TaskInv, Stages
  <1> QED BY <1>1, <1>2, <1>3, <1>4

-----------------------------------------------------------------------------
(* The order of the phrases.                                               *)

(* Until the timer fires the queue holds phrases in the order they were    *)
(* begun, none before the one on the air.                                  *)
OrderInv == ~timedOut /\ bridge # "gone" =>
    /\ air <= phrase
    /\ \A i \in 1..Len(outgoing) : air <= outgoing[i].phrase /\ outgoing[i].phrase <= phrase
    /\ \A i, j \in 1..Len(outgoing) : i <= j => outgoing[i].phrase <= outgoing[j].phrase

(* Phrases are begun in order, the timer fires once and a session that is  *)
(* gone does not come back.                                                *)
LEMMA OneWay ==
    ASSUME TypeInv, [Next]_vars
    PROVE  /\ phrase' >= phrase
           /\ ~StartSay => phrase' = phrase
           /\ timedOut => timedOut'
           /\ bridge = "gone" => bridge' = "gone"
  <1> DEFINE Q == /\ phrase' >= phrase
                  /\ ~StartSay => phrase' = phrase
                  /\ timedOut => timedOut'
                  /\ bridge = "gone" => bridge' = "gone"
  <1>0. phrase \in Nat
    BY DEF TypeInv, TypeOK
  <1> USE DEF callVars, lineVars
  <1>1. ASSUME NEW p \in Phrases, SendQuiet(p) \/ SendPushes(p) PROVE Q
    BY <1>0, <1>1, SendMoves DEF SendPushes
  <1>2. CASE BargeStep
    BY <1>0, <1>2 DEF BargeStep, BargeReads, BargeEnds
  <1>3. CASE StartSay
    <2>1. phrase' = phrase + 1 /\ UNCHANGED <<timedOut, bridge>>
      BY <1>3, Zenon DEF StartSay
    <2> QED BY <1>0, <1>3, <2>1
  <1>4. CASE SaySteps
    <2>1. UNCHANGED <<phrase, timedOut, bridge>>
      BY <1>4, Zenon DEF SaySteps, SayCut, SayCutReturns, SayNotCut, SayReaps, SayReaped, SayAwaited,
                         SayFails, SayGuarded
    <2> QED BY <1>0, <2>1
  <1>5. CASE ListenSteps
    <2>1. UNCHANGED <<phrase, timedOut, bridge>>
      BY <1>5, Zenon DEF ListenSteps, StartListening, Hear, StopListening, FinishDialog, HangUp
    <2> QED BY <1>0, <2>1
  <1>6. CASE CallTimeout
    BY <1>0, <1>6 DEF CallTimeout
  <1>7. CASE BridgeSteps
    BY <1>0, <1>7 DEF BridgeSteps, Connect, StartSender, Media, Disconnect, WatchHangup, CloseBridge
  <1>8. CASE SenderTakes \/ SenderMarks \/ SenderCrashes \/ Tick
    <2>1. UNCHANGED <<phrase, timedOut, bridge>>
      BY <1>8, Zenon DEF SenderTakes, SenderMarks, SenderCrashes, Tick
    <2> QED BY <1>0, <2>1
  <1>9. CASE UNCHANGED vars
    BY <1>0, <1>9 DEF vars
  <1> QED BY <1>1, <1>2, <1>3, <1>4, <1>5, <1>6, <1>7, <1>8, <1>9, NextSteps

(* Phrases enter the queue in order, and only at its end.                  *)
LEMMA OrderStep ==
    ASSUME TypeInv, TaskInv, OrderInv, [Next]_vars
    PROVE  OrderInv'
  <1> SUFFICES ASSUME ~timedOut', bridge' # "gone"
               PROVE  /\ air' <= phrase'
                      /\ \A i \in 1..Len(outgoing') :
                            air' <= outgoing'[i].phrase /\ outgoing'[i].phrase <= phrase'
                      /\ \A i, j \in 1..Len(outgoing') :
                            i <= j => outgoing'[i].phrase <= outgoing'[j].phrase
    BY DEF OrderInv
  <1>1. ~timedOut /\ bridge # "gone" /\ phrase' >= phrase /\ phrase \in Nat /\ phrase' \in Nat
    <2>1. ~timedOut /\ bridge # "gone" /\ phrase' >= phrase
      BY OneWay
    <2>2. TypeInv'
      BY TypeInvStep
    <2>3. phrase' \in 0..MaxPhrases
      BY <2>2 DEF TypeInv, TypeOK
    <2>4. phrase \in 0..MaxPhrases
      BY DEF TypeInv, TypeOK
    <2> QED BY <2>1, <2>3, <2>4
  <1>2. /\ air <= phrase /\ air \in Nat
        /\ \A i \in 1..Len(outgoing) : air <= outgoing[i].phrase /\ outgoing[i].phrase <= phrase
        /\ \A i, j \in 1..Len(outgoing) : i <= j => outgoing[i].phrase <= outgoing[j].phrase
    BY <1>1 DEF OrderInv, TypeInv, TypeOK
  <1>3. /\ outgoing \in Seq(Speech) /\ Len(outgoing) \in Nat
        /\ \A i \in 1..Len(outgoing) : outgoing[i].phrase \in Nat
    <2>1. outgoing \in Seq(Speech)
      BY <1>1 DEF TypeInv, LineInv
    <2>2. \A i \in 1..Len(outgoing) : outgoing[i] \in Speech
      BY <2>1, ElementOfSeq
    <2>3. \A s \in Speech : s.phrase \in Nat
      BY DEF Speech, Phrases
    <2>4. Len(outgoing) \in Nat
      BY <2>1
    <2> QED BY <2>1, <2>2, <2>3, <2>4
  <1>4. CASE ~QueueTouched
    BY <1>1, <1>2, <1>3, <1>4, QueueSteps
  <1>5. ASSUME NEW p \in Phrases, SendPushes(p)
        PROVE  outgoing' = Append(outgoing, outgoing'[Len(outgoing) + 1])
               /\ outgoing'[Len(outgoing) + 1].phrase = phrase
               /\ outgoing' \in Seq(Speech) /\ Len(outgoing') = Len(outgoing) + 1
               /\ UNCHANGED <<air, phrase>>
    <2>1. PICK f \in 1..MaxFrames : outgoing' = Append(outgoing, [phrase |-> p, frames |-> f])
      BY <1>5, Zenon DEF SendPushes, PushOutgoing
    <2>2. UNCHANGED <<air, phrase>> /\ send[p] = "pushing"
      BY <1>5, Zenon DEF SendPushes, lineVars, callVars
    <2>3. p = phrase
      BY <1>1, <2>2 DEF TaskInv, Alone, SendOver
    <2>4. [phrase |-> p, frames |-> f] \in Speech
      BY DEF Speech
    <2> QED BY <1>3, <2>1, <2>2, <2>3, <2>4
  <1>6. CASE \E p \in Phrases : SendPushes(p)
    <2>1. /\ Len(outgoing') = Len(outgoing) + 1 /\ outgoing'[Len(outgoing) + 1].phrase = phrase
          /\ UNCHANGED <<air, phrase>>
      BY <1>5, <1>6
    <2>2. \A i \in 1..Len(outgoing) : outgoing'[i] = outgoing[i]
      BY <1>3, <1>5, <1>6
    <2>3. \A i \in 1..Len(outgoing') : i \in 1..Len(outgoing) \/ i = Len(outgoing) + 1
      BY <1>3, <2>1
    <2> QED BY <1>1, <1>2, <1>3, <2>1, <2>2, <2>3, SMTT(30)
  <1>7. CASE SayCut
    BY <1>1, <1>2, <1>7, CutMoves DEF lineVars
  <1>8. CASE SenderTakes
    <2>1. \A i \in 1..Len(outgoing') : i + 1 \in 1..Len(outgoing) /\ outgoing'[i] = outgoing[i + 1]
      BY <1>3, <1>8 DEF SenderTakes
    <2>2. 1 \in 1..Len(outgoing) /\ air' = outgoing[1].phrase /\ phrase' = phrase
      BY <1>3, <1>8 DEF SenderTakes, callVars
    <2>3. Len(outgoing') \in Nat
      BY <1>3, <1>8 DEF SenderTakes
    <2>4. air' <= phrase'
      BY <1>2, <2>2
    <2>5. \A i \in 1..Len(outgoing') : air' <= outgoing'[i].phrase
      <3> SUFFICES ASSUME NEW i \in 1..Len(outgoing') PROVE air' <= outgoing'[i].phrase
        OBVIOUS
      <3>1. i + 1 \in 1..Len(outgoing) /\ outgoing'[i] = outgoing[i + 1] /\ 1 <= i + 1
        BY <2>1, <2>3
      <3> QED BY <1>2, <2>2, <3>1
    <2>6. \A i \in 1..Len(outgoing') : outgoing'[i].phrase <= phrase'
      BY <1>2, <2>1, <2>2
    <2>7. \A i, j \in 1..Len(outgoing') : i <= j => outgoing'[i].phrase <= outgoing'[j].phrase
      <3> SUFFICES ASSUME NEW i \in 1..Len(outgoing'), NEW j \in 1..Len(outgoing'), i <= j
                   PROVE  outgoing'[i].phrase <= outgoing'[j].phrase
        OBVIOUS
      <3>1. i + 1 <= j + 1
        BY <2>3
      <3> QED BY <1>2, <2>1, <3>1
    <2> QED BY <2>4, <2>5, <2>6, <2>7
  <1>9. CASE SenderMarks
    <2>1. UNCHANGED <<outgoing, air, phrase>>
      BY <1>9, MarksMoves DEF callVars
    <2> QED BY <1>2, <2>1
  <1>10. CASE Disconnect \/ WatchHangup
    BY <1>10 DEF Disconnect, WatchHangup, CloseBridge
  <1> QED BY <1>4, <1>6, <1>7, <1>8, <1>9, <1>10 DEF QueueTouched

(* No step puts an earlier phrase on the air.                              *)
LEMMA OrderKept ==
    ASSUME TypeInv, OrderInv, [Next]_vars, ~timedOut
    PROVE  air' >= air
  <1>1. air \in Nat
    BY DEF TypeInv, TypeOK
  <1>2. CASE SenderTakes
    <2>1. bridge = "up"
      BY <1>2 DEF SenderTakes, TypeInv, LineInv, SenderAlive
    <2>2. outgoing \in Seq(Speech) /\ outgoing # <<>>
      BY <1>2, <2>1 DEF SenderTakes, TypeInv, LineInv
    <2>3. 1 \in 1..Len(outgoing) /\ air' = outgoing[1].phrase
      BY <1>2, <2>2 DEF SenderTakes
    <2>4. outgoing[1] \in Speech
      BY <2>2, <2>3, ElementOfSeq
    <2>5. outgoing[1].phrase \in Nat
      BY <2>4 DEF Speech, Phrases
    <2> QED BY <1>1, <2>1, <2>3, <2>5 DEF OrderInv
  <1>3. CASE ~SenderTakes
    <2>1. air' = air
      BY <1>3, QueueSteps, CutMoves, MarksMoves
         DEF QueueTouched, SendPushes, Disconnect, WatchHangup, CloseBridge, lineVars
    <2> QED BY <1>1, <2>1
  <1> QED BY <1>2, <1>3

-----------------------------------------------------------------------------
(* What is unsent when the agent begins to listen.                         *)

(* Until the timer fires a phrase that has seen the drain leaves nothing   *)
(* uncounted; while the echo guard runs the sender works the rest off.     *)
DrainedInv ==
    ~timedOut /\ bridge # "gone" /\ phrase > 0 /\ send[phrase] \in {"woken", "done"}
        => pending = 0
TailInv ==
    ~timedOut /\ phrase > 0 /\ call \in {"guard", "idle", "listen"} /\ send[phrase] = "done"
        => buffer = 0 \/ buffer + GuardFrames <= MaxFrames + guard

(* The count goes up only by a push.                                       *)
LEMMA PendingMoves ==
    ASSUME TypeInv, [Next]_vars, pending = 0
    PROVE  pending' = 0 \/ \E p \in Phrases : SendPushes(p)
  <1>1. Len(outgoing) \in Nat
    BY DEF TypeInv, TypeOK
  <1>2. CASE ~QueueTouched
    BY <1>2, QueueSteps
  <1>3. CASE SayCut
    <2>1. pending' = Minus(pending, Len(outgoing))
      BY <1>3, Zenon DEF SayCut, ClearOutgoing
    <2> QED BY <1>1, <2>1 DEF Minus
  <1>4. CASE SenderMarks
    <2>1. pending' = Minus(pending, 1)
      BY <1>4, Zenon DEF SenderMarks, MarkOutgoingTaken
    <2> QED BY <2>1 DEF Minus
  <1>5. CASE SenderTakes \/ Disconnect \/ WatchHangup
    BY <1>5 DEF SenderTakes, Disconnect, WatchHangup, CloseBridge
  <1> QED BY <1>2, <1>3, <1>4, <1>5 DEF QueueTouched

(* How a task comes to have seen the drain.                                *)
LEMMA DoneMoves ==
    ASSUME TypeInv, TaskInv, [Next]_vars, NEW p \in Phrases,
           send[p] \notin {"woken", "done"}, send'[p] \in {"woken", "done"}, ~SayCut
    PROVE  \/ SendFindsNone(p)
           \/ drained /\ UNCHANGED queueVars
           \/ pending' = 0
  <1> USE DEF TypeInv, TypeOK
  <1>1. CASE send[p] \notin {"none", "polling", "woken", "done"}
    BY <1>1, QuietMoves
  <1>2. CASE send[p] \in {"none", "polling"}
    <2>1. ASSUME NEW q \in Phrases, SendQuiet(q) PROVE SendFindsNone(p)
      <3>1. q = p
        BY <2>1, SendMoves
      <3> QED BY <1>2, <2>1, <3>1
              DEF SendQuiet, SendFindsSession, SendFindsNone, SendDrains, SendWakes, SendFails
    <2>2. ASSUME NEW q \in Phrases, SendPushes(q) PROVE FALSE
      BY <2>2 DEF SendPushes
    <2>3. CASE SenderMarks
      BY <1>2, <2>3, MarksMoves
    <2>4. CASE StartSay
      BY <2>4 DEF StartSay
    <2>5. CASE CallTimeout
      BY <2>5 DEF CallTimeout
    <2>6. CASE BargeStep \/ SaySteps \/ ListenSteps
      BY <2>6 DEF BargeStep, BargeReads, BargeEnds, SaySteps, SayCutReturns, SayNotCut, SayReaps,
                  SayReaped, SayAwaited, SayFails, SayGuarded, ListenSteps, StartListening, Hear,
                  StopListening, FinishDialog, HangUp, taskVars
    <2>7. CASE BridgeSteps \/ SenderTakes \/ Tick \/ SenderCrashes \/ UNCHANGED vars
      BY <2>7 DEF BridgeSteps, Connect, StartSender, Media, Disconnect, WatchHangup, CloseBridge,
                  SenderTakes, Tick, SenderCrashes, vars, taskVars
    <2> QED BY <2>1, <2>2, <2>3, <2>4, <2>5, <2>6, <2>7, NextSteps
  <1> QED BY <1>1, <1>2

(* The count is zero from the drain to the next phrase.                    *)
LEMMA DrainedStep ==
    ASSUME TypeInv, TaskInv, Counted, DrainedInv, [Next]_vars
    PROVE  DrainedInv'
  <1> SUFFICES ASSUME ~timedOut', bridge' # "gone", phrase' > 0, send'[phrase'] \in {"woken", "done"}
               PROVE  pending' = 0
    BY DEF DrainedInv
  <1>1. ~timedOut /\ bridge # "gone" /\ (~StartSay => phrase' = phrase)
    BY OneWay
  <1>2. ~StartSay
    <2>1. StartSay => phrase' \in Phrases /\ send' = [send EXCEPT ![phrase'] = "polling"]
      BY DEF StartSay, Phrases, TypeInv, TypeOK
    <2> QED BY <2>1 DEF TypeInv, TypeOK
  <1>3. phrase' = phrase /\ phrase \in Phrases
    BY <1>1, <1>2 DEF TypeInv, TypeOK, Phrases
  <1>4. ~SayCut
    BY <1>3, CutMoves
  <1>5. ASSUME NEW p \in Phrases, SendPushes(p) PROVE FALSE
    <2>1. p = phrase
      BY <1>1, <1>5 DEF SendPushes, TaskInv, Alone, SendOver
    <2> QED BY <1>3, <1>5, <2>1 DEF SendPushes
  <1>6. CASE send[phrase] \in {"woken", "done"}
    <2>1. pending = 0
      BY <1>1, <1>3, <1>6 DEF DrainedInv, Phrases
    <2> QED BY <1>5, <2>1, PendingMoves
  <1>7. CASE send[phrase] \notin {"woken", "done"}
    <2>1. CASE SendFindsNone(phrase)
      <3>1. bridge = "none" /\ pending' = pending
        BY <1>1, <2>1 DEF SendFindsNone, queueVars, TypeInv, TypeOK
      <3>2. outgoing = <<>> /\ sender # "got"
        BY <3>1 DEF TypeInv, LineInv, SenderAlive
      <3> QED BY <3>1, <3>2 DEF Counted
    <2>2. CASE drained /\ UNCHANGED queueVars
      BY <2>2 DEF Counted, queueVars
    <2> QED BY <1>3, <1>4, <1>7, <2>1, <2>2, DoneMoves
  <1> QED BY <1>6, <1>7

(* The echo guard and the chunk on the air run down together.              *)
LEMMA TailStep ==
    ASSUME TypeInv, TaskInv, Counted, DrainedInv, TailInv, [Next]_vars
    PROVE  TailInv'
  <1> SUFFICES ASSUME ~timedOut', phrase' > 0, call' \in {"guard", "idle", "listen"},
                      send'[phrase'] = "done"
               PROVE  buffer' = 0 \/ buffer' + GuardFrames <= MaxFrames + guard'
    BY DEF TailInv
  <1>0. buffer \in 0..MaxFrames /\ guard \in 0..GuardFrames
    BY DEF TypeInv, TypeOK
  <1>1. ~timedOut /\ (~StartSay => phrase' = phrase)
    BY OneWay
  <1>2. ~StartSay
    <2>1. StartSay => phrase' \in Phrases /\ send' = [send EXCEPT ![phrase'] = "polling"]
      BY DEF StartSay, Phrases, TypeInv, TypeOK
    <2> QED BY <2>1 DEF TypeInv, TypeOK
  <1>3. phrase' = phrase /\ phrase \in Phrases /\ phrase > 0
    BY <1>1, <1>2 DEF TypeInv, TypeOK, Phrases
  <1> DEFINE In(c) == c \in {"guard", "idle", "listen"}
             Q == buffer' = 0 \/ buffer' + GuardFrames <= MaxFrames + guard'
             T == buffer = 0 \/ buffer + GuardFrames <= MaxFrames + guard
  <1>4. In(call) /\ send[phrase] = "done" => T
    BY <1>1, <1>3 DEF TailInv
  <1>5. UNCHANGED <<buffer, guard>> /\ In(call) /\ send[phrase] = "done" => Q
    BY <1>4
  <1>6. ASSUME In(call), send[phrase] = "done", bridge # "gone", pending > 0 PROVE FALSE
    BY <1>1, <1>3, <1>6 DEF DrainedInv
  <1>7. ASSUME In(call), send[phrase] = "done", sender = "got" PROVE FALSE
    <2>1. bridge # "gone" /\ Len(outgoing) \in Nat
      BY <1>7 DEF TypeInv, TypeOK, LineInv, SenderAlive
    <2> QED BY <1>6, <1>7, <2>1 DEF Counted
  <1>8. ASSUME NEW p \in Phrases, SendQuiet(p) \/ SendPushes(p) PROVE FALSE
    <2>1. UNCHANGED callVars
      BY <1>8, SendMoves DEF SendPushes
    <2>2. send[p] \in SendOver \cup {"none"}
      BY <1>1, <2>1 DEF TaskInv, Alone, callVars
    <2>3. send[p] \in {"polling", "pushing", "woken"}
      BY <1>8, SendMoves DEF SendPushes
    <2> QED BY <2>2, <2>3 DEF SendOver
  <1>9. CASE BargeStep
    <2>1. UNCHANGED <<buffer, guard, call, send>>
      BY <1>9, Zenon DEF BargeStep, BargeReads, BargeEnds, lineVars, callVars
    <2> QED BY <1>3, <1>5, <2>1
  <1>10. CASE SaySteps
    <2>1. CASE SayAwaited
      <3>1. guard' = GuardFrames /\ buffer' = buffer
        BY <2>1, Zenon DEF SayAwaited, lineVars
      <3> QED BY <1>0, <3>1
    <2>2. CASE SayGuarded
      <3>1. call = "guard" /\ UNCHANGED <<buffer, guard, send>>
        BY <2>2, Zenon DEF SayGuarded, lineVars, taskVars
      <3> QED BY <1>3, <1>5, <3>1
    <2>3. CASE SayCut \/ SayNotCut \/ SayReaps \/ SayReaped
      BY <2>3, CutMoves DEF SayNotCut, SayReaps, SayReaped
    <2>4. CASE SayCutReturns \/ SayFails
      <3>1. UNCHANGED send /\ (call = "cancelSend" \/ send[phrase] = "failed")
        BY <2>4, Zenon DEF SayCutReturns, SayFails, taskVars
      <3> QED BY <1>3, <3>1 DEF TaskInv, Stages
    <2> QED BY <1>10, <2>1, <2>2, <2>3, <2>4 DEF SaySteps
  <1>11. CASE ListenSteps
    <2>1. UNCHANGED <<buffer, guard, send>>
      BY <1>11, Zenon DEF ListenSteps, StartListening, Hear, StopListening, FinishDialog, HangUp,
                          lineVars, taskVars
    <2>2. In(call)
      BY <1>11 DEF ListenSteps, StartListening, Hear, StopListening, FinishDialog, HangUp
    <2> QED BY <1>3, <1>5, <2>1, <2>2
  <1>12. CASE CallTimeout
    BY <1>12 DEF CallTimeout
  <1>13. CASE BridgeSteps
    <2>1. CASE Disconnect \/ WatchHangup
      BY <2>1 DEF Disconnect, WatchHangup, CloseBridge
    <2>2. CASE Connect \/ StartSender \/ Media
      <3>1. UNCHANGED <<buffer, guard, call, send>>
        BY <2>2, Zenon DEF Connect, StartSender, Media, lineVars, callVars, taskVars
      <3> QED BY <1>3, <1>5, <3>1
    <2> QED BY <1>13, <2>1, <2>2 DEF BridgeSteps
  <1>14. CASE SenderTakes
    <2>1. sender = "get" /\ outgoing # <<>> /\ UNCHANGED <<call, send>>
      BY <1>14, Zenon DEF SenderTakes, callVars, taskVars
    <2>2. bridge # "gone" /\ Len(outgoing) \in Nat /\ Len(outgoing) # 0
      BY <2>1 DEF TypeInv, TypeOK, LineInv, SenderAlive
    <2>3. pending > 0
      BY <2>1, <2>2 DEF Counted
    <2> QED BY <1>3, <1>6, <2>1, <2>2, <2>3
  <1>15. CASE SenderMarks
    <2>1. sender = "got" /\ UNCHANGED call /\ send[phrase] = "done"
      BY <1>3, <1>15, MarksMoves DEF SenderMarks, callVars
    <2> QED BY <1>7, <2>1
  <1>16. CASE Tick
    <2>1. UNCHANGED <<call, send>> /\ guard' = Minus(guard, 1)
      BY <1>16, Zenon DEF Tick, taskVars
    <2>2. CASE sender = "busy"
      <3>1. buffer' = buffer - 1 /\ buffer > 0
        BY <1>16, <2>2 DEF Tick, TypeInv, LineInv
      <3> QED BY <1>0, <1>3, <1>4, <2>1, <3>1 DEF Minus
    <2>3. CASE sender # "busy"
      <3>1. buffer' = buffer
        BY <1>16, <2>3 DEF Tick
      <3>2. sender # "got"
        BY <1>3, <1>7, <2>1
      <3>3. ~(buffer > 0)
        BY <2>3, <3>2 DEF TypeInv, LineInv
      <3> QED BY <1>0, <3>1, <3>3
    <2> QED BY <2>2, <2>3
  <1>17. CASE SenderCrashes
    BY <1>17 DEF SenderCrashes
  <1>18. CASE UNCHANGED vars
    <2>1. UNCHANGED <<buffer, guard, call, send>>
      BY <1>18, Zenon DEF vars, lineVars, callVars, taskVars
    <2> QED BY <1>3, <1>5, <2>1
  <1> QED BY <1>2, <1>8, <1>9, <1>10, <1>11, <1>12, <1>13, <1>14, <1>15, <1>16, <1>17, <1>18, NextSteps

-----------------------------------------------------------------------------
(* The invariant, and what follows from it.                                *)

IInv == /\ TypeInv /\ TaskInv
        /\ Counted /\ Emptied /\ Unheard /\ CutGone
        /\ OrderInv /\ DrainedInv /\ TailInv

(* The invariant holds at the start.                                       *)
LEMMA IInvInit == Init => IInv
  <1> SUFFICES ASSUME Init PROVE IInv
    OBVIOUS
  <1>1. TypeInv /\ TaskInv
    BY TypeInvInit, TaskInvInit
  <1>2. /\ outgoing = <<>> /\ pending = 0 /\ sender = "off" /\ air = 0 /\ phrase = 0
        /\ (drained <=> pending = 0)
    BY Zenon DEF Init
  <1>3. Counted /\ Emptied /\ Unheard /\ CutGone /\ OrderInv /\ DrainedInv /\ TailInv
    BY <1>2 DEF Counted, Emptied, Unheard, CutGone, Queued, OrderInv, DrainedInv, TailInv
  <1> QED BY <1>1, <1>3 DEF IInv

(* The invariant is inductive.                                             *)
LEMMA IInvStep == IInv /\ [Next]_vars => IInv'
  <1> SUFFICES ASSUME IInv, [Next]_vars PROVE IInv'
    OBVIOUS
  <1>1. TypeInv' /\ TaskInv' /\ Counted' /\ Emptied'
    BY TypeInvStep, TaskInvStep, CountedStep, EmptiedStep DEF IInv
  <1>2. Unheard' /\ CutGone' /\ OrderInv' /\ DrainedInv' /\ TailInv'
    BY UnheardStep, CutGoneStep, OrderStep, DrainedStep, TailStep DEF IInv
  <1> QED BY <1>1, <1>2 DEF IInv

(* The invariant holds always.                                             *)
THEOREM Invariant == Spec => []IInv
  BY IInvInit, IInvStep, PTL DEF Spec

(* Pushes, takes, marks and clears of the queue by different tasks, in any *)
(* order, leave the count what it stands for, and the event of             *)
(* wait_drained set exactly when nothing is unsent.                        *)
THEOREM AccountingHolds == Spec => []Accounting
  <1>1. IInv => Accounting
    <2> SUFFICES ASSUME IInv PROVE Accounting
      OBVIOUS
    <2>1. Counted /\ drained \in BOOLEAN
      BY DEF IInv, TypeInv, TypeOK
    <2>2. drained = (pending = 0)
      BY <2>1, Zenon DEF Counted
    <2> QED BY <2>1, <2>2, Zenon DEF Accounting, Counted
  <1> QED BY <1>1, Invariant, PTL

(* Only the sender's taking of a chunk changes what is on the air; frames  *)
(* are otherwise only used up.                                             *)
LEMMA AirMoves ==
    ASSUME TypeInv, [Next]_vars, ~SenderTakes
    PROVE  air' = air /\ buffer' <= buffer
  <1>1. buffer \in Nat
    BY DEF TypeInv, TypeOK
  <1> DEFINE Q == air' = air /\ (buffer' = buffer \/ buffer' = 0 \/ buffer' = buffer - 1)
  <1> SUFFICES Q
    BY <1>1
  <1> USE DEF lineVars
  <1>2. ASSUME NEW p \in Phrases, SendQuiet(p) \/ SendPushes(p) PROVE Q
    BY <1>2, Zenon DEF SendQuiet, SendFindsSession, SendFindsNone, SendDrains, SendWakes, SendFails,
                       SendPushes
  <1>3. CASE BargeStep
    BY <1>3, Zenon DEF BargeStep, BargeReads, BargeEnds
  <1>4. CASE StartSay \/ SaySteps
    BY <1>4, Zenon DEF StartSay, SaySteps, SayCut, SayCutReturns, SayNotCut, SayReaps, SayReaped,
                       SayAwaited, SayFails, SayGuarded
  <1>5. CASE ListenSteps \/ CallTimeout
    BY <1>5, Zenon DEF ListenSteps, StartListening, Hear, StopListening, FinishDialog, HangUp,
                       CallTimeout
  <1>6. CASE BridgeSteps
    BY <1>6, Zenon DEF BridgeSteps, Connect, StartSender, Media, Disconnect, WatchHangup, CloseBridge
  <1>7. CASE SenderMarks \/ Tick \/ SenderCrashes
    BY <1>7, Zenon DEF SenderMarks, Tick, SenderCrashes
  <1>8. CASE UNCHANGED vars
    BY <1>8, Zenon DEF vars
  <1> QED BY <1>2, <1>3, <1>4, <1>5, <1>6, <1>7, <1>8, NextSteps

(* No chunk of a phrase that was said to the end, or cut by the caller, is *)
(* sent after the one the sender held at that moment.                      *)
THEOREM FinishedPhrasesFade == Spec => OverPhraseFades
  <1> DEFINE Fades == \A p \in Phrases : Over(p) /\ air' = p => air = p /\ buffer' <= buffer
  <1>1. IInv /\ [Next]_vars => Fades
    <2> SUFFICES ASSUME IInv, [Next]_vars, NEW p \in Phrases, Over(p), air' = p
                 PROVE  air = p /\ buffer' <= buffer
      OBVIOUS
    <2>1. ~Queued(p)
      BY DEF IInv, Unheard, CutGone, Over
    <2>2. ASSUME SenderTakes PROVE FALSE
      <3>1. outgoing \in Seq(Speech \cup {SpeechEnd}) /\ outgoing # <<>>
        BY <2>2 DEF SenderTakes, IInv, TypeInv, TypeOK
      <3>2. 1 \in 1..Len(outgoing) /\ outgoing[1].phrase = p
        BY <2>2, <3>1 DEF SenderTakes
      <3> QED BY <2>1, <3>2 DEF Queued
    <2> QED BY <2>2, AirMoves DEF IInv
  <1>2. IInv /\ [Next]_vars => [Fades]_vars
    BY <1>1
  <1> QED BY <1>2, Invariant, PTL DEF Spec, OverPhraseFades

(* When the agent listens after a phrase, at most what a chunk is longer   *)
(* than the echo guard is still on the air.                                *)
THEOREM TailIsBounded == Spec => []BoundedTail
  <1>1. IInv => BoundedTail
    <2> SUFFICES ASSUME IInv, call = "listen", phrase > 0, send[phrase] = "done"
                 PROVE  buffer <= Minus(MaxFrames, GuardFrames)
      BY DEF BoundedTail
    <2>1. guard = 0 /\ ~timedOut
      BY DEF IInv, TaskInv, Stages
    <2>2. buffer = 0 \/ buffer + GuardFrames <= MaxFrames
      BY <2>1 DEF IInv, TailInv
    <2>3. buffer \in Nat
      BY DEF IInv, TypeInv, TypeOK
    <2> QED BY <2>2, <2>3 DEF Minus
  <1> QED BY <1>1, Invariant, PTL

(* Phrases reach the line in the order they were begun, as long as the     *)
(* call timer has not fired.                                               *)
THEOREM PhrasesAreOrdered == Spec => PhrasesInOrder
  <1>1. IInv /\ [Next]_vars => [~timedOut => air' >= air]_vars
    BY OrderKept DEF IInv
  <1> QED BY <1>1, Invariant, PTL DEF Spec, PhrasesInOrder
=============================================================================
