---------------------------- MODULE Listening_proofs ----------------------------
(***************************************************************************)
(* Proofs about Listening, for every setting: its types, the bound on the  *)
(* length of an utterance, that an interruption is heard, that an          *)
(* utterance ends in a pause, and that only sustained speech cuts a phrase.*)
(***************************************************************************)
EXTENDS Listening, TLAPS

USE ListeningAssumption DEF ListeningAssumption

-----------------------------------------------------------------------------
(* TypeOK by the sort of the variables.                                    *)

NumbersOK ==
    /\ consecutive \in 0..ConfirmChunks
    /\ elapsed \in Nat
    /\ quiet \in 0..Silence
    /\ callerQuiet \in 0..Silence
    /\ loudRun \in 0..ConfirmChunks
NamesOK ==
    /\ phase \in {"speaking", "guard", "listening", "over"} \cup Processing
    /\ outcome \in {"none", "silence", "limit", "closed"}
QueuesOK == incoming \in Seq(Chunks) /\ collected \in Seq(Chunks)
FlagsOK ==
    /\ filler \in BOOLEAN /\ closed \in BOOLEAN /\ speechStarted \in BOOLEAN
    /\ blocked \in BOOLEAN /\ arrived \in BOOLEAN /\ interrupted \in BOOLEAN

(* Each utterance begins with nothing heard and no clock running.          *)
Rested == phase # "listening" => ~speechStarted /\ ~blocked /\ quiet = 0

TypeInv == NumbersOK /\ NamesOK /\ QueuesOK /\ FlagsOK /\ Rested

(* What an action puts into the queue is there unless the session is gone. *)
LEMMA QueueType == ASSUME NEW q \in Seq(Chunks), Queue(q) PROVE incoming' \in Seq(Chunks)
  BY DEF Queue

(* Every step keeps the queues sequences of chunks.                        *)
LEMMA QueuesStep == QueuesOK /\ [Next]_vars => QueuesOK'
  <1> SUFFICES ASSUME QueuesOK, [Next]_vars PROVE QueuesOK'
    OBVIOUS
  <1> USE DEF QueuesOK
  <1>1. incoming \o collected \in Seq(Chunks) /\ <<>> \in Seq(Chunks)
    OBVIOUS
  <1>2. CASE BargeHears
    BY <1>2, SMTT(30) DEF BargeHears
  <1>3. CASE ListenTakes
    BY <1>3 DEF ListenTakes, bargeVars
  <1>4. CASE SayCut
    <2>1. incoming' \in Seq(Chunks)
      BY <1>1, <1>4, QueueType DEF SayCut
    <2> QED BY <1>1, <1>4, <2>1, Zenon DEF SayCut
  <1>5. CASE SayEnds
    <2>1. incoming' \in Seq(Chunks)
      BY <1>1, <1>5, QueueType DEF SayEnds
    <2> QED BY <1>1, <1>5, <2>1, Zenon DEF SayEnds
  <1>6. CASE GuardOver
    BY <1>6, QueueType DEF GuardOver, bargeVars
  <1>7. CASE Transcribed
    <2>1. incoming' \in Seq(Chunks)
      BY <1>7, QueueType DEF Transcribed
    <2>2. collected' = <<>> \/ collected' = collected
      BY <1>7, Zenon DEF Transcribed, StartSay
    <2> QED BY <1>1, <2>1, <2>2
  <1>8. CASE Answered
    <2>1. incoming' \in Seq(Chunks)
      BY <1>8, QueueType DEF Answered
    <2>2. collected' = <<>> \/ collected' = collected
      BY <1>8, Zenon DEF Answered, StartSay
    <2> QED BY <1>1, <2>1, <2>2
  <1>9. ASSUME NEW why, Finish(why) PROVE QueuesOK'
    <2>1. incoming' \in Seq(Chunks)
      BY <1>9, QueueType DEF Finish
    <2>2. collected' = <<>> \/ collected' = collected
      BY <1>9, Zenon DEF Finish, StartSay
    <2> QED BY <1>1, <2>1, <2>2
  <1>10. ASSUME NEW chunk \in Chunks, Arrive(chunk) PROVE QueuesOK'
    BY <1>10 DEF Arrive, bargeVars
  <1>11. CASE Close \/ Tick \/ ListenBlocks \/ UNCHANGED vars
    BY <1>11 DEF Close, Tick, ListenBlocks, vars, lineVars, bargeVars
  <1> QED BY <1>2, <1>3, <1>4, <1>5, <1>6, <1>7, <1>8, <1>9, <1>10, <1>11
          DEF Next, ListenStep, ListenFinds, ListenTimesOut, ListenClosed

(* Every step keeps the names of the phases.                               *)
LEMMA NamesStep == NamesOK /\ [Next]_vars => NamesOK'
  <1> SUFFICES ASSUME NamesOK, [Next]_vars PROVE NamesOK'
    OBVIOUS
  <1> USE DEF NamesOK, Processing
  <1>1. CASE BargeHears \/ SayCut \/ SayEnds \/ GuardOver
    BY <1>1 DEF BargeHears, SayCut, SayEnds, GuardOver, AfterSay, Enter, vadVars
  <1>2. CASE Transcribed \/ Answered
    BY <1>2 DEF Transcribed, Answered, StartSay, Enter, vadVars
  <1>3. ASSUME NEW why \in {"silence", "limit", "closed"}, Finish(why) PROVE NamesOK'
    BY <1>3 DEF Finish, StartSay, Enter
  <1>4. CASE (\E chunk \in Chunks : Arrive(chunk)) \/ Close \/ Tick \/ ListenBlocks \/ ListenTakes
             \/ UNCHANGED vars
    BY <1>4 DEF Arrive, Close, Tick, ListenBlocks, ListenTakes, vars, vadVars
  <1> QED BY <1>1, <1>2, <1>3, <1>4 DEF Next, ListenStep, ListenFinds, ListenTimesOut, ListenClosed

(* Every step keeps the flags Boolean.                                     *)
LEMMA FlagsStep == FlagsOK /\ [Next]_vars => FlagsOK'
  <1> SUFFICES ASSUME FlagsOK, [Next]_vars PROVE FlagsOK'
    OBVIOUS
  <1> USE DEF FlagsOK
  <1>1. CASE BargeHears \/ SayCut \/ SayEnds \/ GuardOver
    BY <1>1, Zenon DEF BargeHears, SayCut, SayEnds, GuardOver, AfterSay, bargeVars, vadVars
  <1>2. CASE Transcribed \/ Answered
    BY <1>2, Zenon DEF Transcribed, Answered, StartSay, vadVars
  <1>3. CASE \E why : Finish(why)
    BY <1>3, Zenon DEF Finish, StartSay
  <1>4. CASE (\E chunk \in Chunks : Arrive(chunk)) \/ Close \/ Tick
    BY <1>4, Zenon DEF Arrive, Close, Tick, bargeVars, vadVars
  <1>5. CASE ListenBlocks \/ ListenTakes
    BY <1>5, Zenon DEF ListenBlocks, ListenTakes, lineVars, bargeVars
  <1>6. CASE UNCHANGED vars
    BY <1>6, Zenon DEF vars, lineVars, bargeVars, vadVars
  <1> QED BY <1>1, <1>2, <1>3, <1>4, <1>5, <1>6
          DEF Next, ListenStep, ListenFinds, ListenTimesOut, ListenClosed

(* Every utterance is cleaned up after.                                    *)
LEMMA RestedStep == Rested /\ [Next]_vars => Rested'
  <1> SUFFICES ASSUME Rested, [Next]_vars PROVE Rested'
    OBVIOUS
  <1> USE DEF Rested
  <1>1. CASE BargeHears \/ SayCut \/ SayEnds \/ GuardOver
    BY <1>1 DEF BargeHears, BargeReading, SayCut, SayEnds, GuardOver, AfterSay, Enter, vadVars
  <1>2. CASE Transcribed \/ Answered
    BY <1>2 DEF Transcribed, Answered, vadVars, Processing
  <1>3. CASE \E why : Finish(why)
    BY <1>3 DEF Finish
  <1>4. CASE (\E chunk \in Chunks : Arrive(chunk)) \/ Close \/ Tick
    BY <1>4 DEF Arrive, Close, Tick, vadVars
  <1>5. CASE ListenBlocks \/ ListenTakes
    BY <1>5 DEF ListenBlocks, ListenTakes, Getting
  <1>6. CASE UNCHANGED vars
    BY <1>6 DEF vars, vadVars
  <1> QED BY <1>1, <1>2, <1>3, <1>4, <1>5, <1>6
          DEF Next, ListenStep, ListenFinds, ListenTimesOut, ListenClosed

(* No count and no pause goes beyond its setting.                          *)
LEMMA NumbersStep == NumbersOK /\ Rested /\ [Next]_vars => NumbersOK'
  <1> SUFFICES ASSUME NumbersOK, Rested, [Next]_vars PROVE NumbersOK'
    OBVIOUS
  <1> USE DEF NumbersOK
  <1>1. CASE BargeHears
    <2>1. consecutive < ConfirmChunks /\ UNCHANGED <<elapsed, quiet, callerQuiet, loudRun>>
      BY <1>1, Zenon DEF BargeHears, BargeReading, vadVars
    <2>2. consecutive' \in {consecutive, consecutive + 1, 0}
      BY <1>1 DEF BargeHears
    <2> QED BY <2>1, <2>2
  <1>2. CASE SayCut \/ SayEnds \/ GuardOver
    BY <1>2 DEF SayCut, SayEnds, GuardOver, AfterSay, Enter, bargeVars, vadVars
  <1>3. CASE Transcribed \/ Answered
    BY <1>3 DEF Transcribed, Answered, StartSay, Enter, vadVars
  <1>4. CASE \E why : Finish(why)
    BY <1>4 DEF Finish, StartSay, Enter
  <1>5. CASE \E chunk \in Chunks : Arrive(chunk)
    BY <1>5, SMTT(30) DEF Arrive, UpTo, bargeVars, vadVars
  <1>6. CASE Tick
    <2>1. speechStarted => phase = "listening" /\ quiet < Silence
      BY <1>6 DEF Tick, Idle, Due, Rested, Processing
    <2> QED BY <1>6, <2>1 DEF Tick, UpTo, bargeVars
  <1>7. CASE ListenBlocks \/ ListenTakes
    BY <1>7 DEF ListenBlocks, ListenTakes, lineVars, bargeVars
  <1>8. CASE Close \/ UNCHANGED vars
    BY <1>8 DEF Close, vars, lineVars, bargeVars, vadVars
  <1> QED BY <1>1, <1>2, <1>3, <1>4, <1>5, <1>6, <1>7, <1>8
          DEF Next, ListenStep, ListenFinds, ListenTimesOut, ListenClosed

(* The initial states are well typed.                                      *)
LEMMA InitTypes == Init => TypeInv
  <1> SUFFICES ASSUME Init PROVE TypeInv
    OBVIOUS
  <1> USE DEF Init
  <1>1. NumbersOK
    BY DEF NumbersOK
  <1>2. NamesOK
    BY DEF NamesOK
  <1>3. QueuesOK
    BY DEF QueuesOK
  <1>4. FlagsOK
    BY Zenon DEF FlagsOK
  <1>5. Rested
    BY DEF Rested
  <1> QED BY <1>1, <1>2, <1>3, <1>4, <1>5 DEF TypeInv

(* TypeInv is inductive.                                                   *)
LEMMA StepTypes == TypeInv /\ [Next]_vars => TypeInv'
  BY QueuesStep, NamesStep, FlagsStep, RestedStep, NumbersStep DEF TypeInv

(* The types of the audio task's variables hold for every setting: the     *)
(* pause is never measured beyond vad_silence_seconds.                     *)
THEOREM TypeCorrect == Spec => []TypeOK
  <1>1. TypeInv => TypeOK
    BY DEF TypeInv, NumbersOK, NamesOK, QueuesOK, FlagsOK, TypeOK
  <1> QED BY <1>1, InitTypes, StepTypes, PTL DEF Spec

-----------------------------------------------------------------------------
(* The length of an utterance: a read that waits began before the limit,   *)
(* and the clock has moved since by no more than the pause.                *)

WaitingInTime ==
    phase = "listening" =>
        /\ elapsed < MaxUtterance + Silence
        /\ blocked /\ speechStarted => elapsed < MaxUtterance + quiet
        /\ blocked /\ ~speechStarted => elapsed <= InitialSilence

(* A read is begun before the limit only, and waits for the pause at most. *)
LEMMA WaitingInTimeStep ==
  NumbersOK /\ Rested /\ WaitingInTime /\ [Next]_vars => WaitingInTime'
  <1> SUFFICES ASSUME NumbersOK, Rested, WaitingInTime, [Next]_vars PROVE WaitingInTime'
    OBVIOUS
  <1> USE DEF NumbersOK, WaitingInTime
  <1>1. CASE BargeHears \/ SayCut \/ SayEnds \/ GuardOver
    BY <1>1, SMTT(30) DEF BargeHears, BargeReading, SayCut, SayEnds, GuardOver, AfterSay, Enter,
                          Rested, vadVars
  <1>2. CASE Transcribed \/ Answered
    BY <1>2 DEF Transcribed, Answered, StartSay, Enter, Rested, Processing, vadVars
  <1>3. CASE \E why : Finish(why)
    BY <1>3 DEF Finish, StartSay, Enter
  <1>4. CASE (\E chunk \in Chunks : Arrive(chunk)) \/ Close
    BY <1>4 DEF Arrive, Close, vadVars
  <1>5. CASE Tick
    BY <1>5 DEF Tick, Idle, Due, Processing
  <1>6. CASE ListenBlocks
    BY <1>6 DEF ListenBlocks, Getting, OverLimit, Due
  <1>7. CASE ListenTakes
    BY <1>7 DEF ListenTakes
  <1>8. CASE UNCHANGED vars
    BY <1>8 DEF vars, vadVars
  <1> QED BY <1>1, <1>2, <1>3, <1>4, <1>5, <1>6, <1>7, <1>8
          DEF Next, ListenStep, ListenFinds, ListenTimesOut, ListenClosed

(* _collect_utterance ends in less than vad_max_utterance_seconds and      *)
(* vad_silence_seconds together, for every setting of the two.             *)
THEOREM UtterancesAreBounded == Spec => []UtteranceBound
  <1>1. Init => WaitingInTime
    BY DEF Init, WaitingInTime
  <1>2. TypeInv /\ WaitingInTime /\ [Next]_vars => WaitingInTime'
    BY WaitingInTimeStep DEF TypeInv
  <1>3. WaitingInTime => UtteranceBound
    BY DEF WaitingInTime, UtteranceBound
  <1> QED BY <1>1, <1>2, <1>3, InitTypes, StepTypes, PTL DEF Spec

-----------------------------------------------------------------------------
(* Where the loud chunks of an interruption are until somebody listens.    *)

AnyLoud(q) == \E i \in 1..Len(q) : q[i] = "loud"

(* A loud chunk stays in a queue that grows,                               *)
LEMMA LoudAppend ==
  ASSUME NEW q \in Seq(Chunks), NEW chunk \in Chunks, AnyLoud(q) \/ chunk = "loud"
  PROVE AnyLoud(Append(q, chunk))
  BY SMTT(30) DEF AnyLoud

(* in one that is joined with another,                                     *)
LEMMA LoudConcat ==
  ASSUME NEW p \in Seq(Chunks), NEW q \in Seq(Chunks), AnyLoud(p) \/ AnyLoud(q)
  PROVE AnyLoud(p \o q)
  <1>1. CASE AnyLoud(p)
    BY <1>1 DEF AnyLoud
  <1>2. CASE AnyLoud(q)
    <2>1. PICK i \in 1..Len(q) : q[i] = "loud"
      BY <1>2 DEF AnyLoud
    <2>2. Len(p) + i \in 1..Len(p \o q) /\ (p \o q)[Len(p) + i] = q[i]
      OBVIOUS
    <2> QED BY <2>1, <2>2 DEF AnyLoud
  <1> QED BY <1>1, <1>2

(* and in one whose first chunk, a quiet one, is taken.                    *)
LEMMA LoudRest ==
  ASSUME NEW q \in Seq(Chunks), AnyLoud(q), Head(q) # "loud"
  PROVE AnyLoud(Tail(q))
  <1>1. PICK i \in 1..Len(q) : q[i] = "loud"
    BY DEF AnyLoud
  <1>2. i # 1
    BY <1>1
  <1>3. i - 1 \in 1..Len(Tail(q)) /\ Tail(q)[i - 1] = q[i]
    BY <1>1, <1>2
  <1> QED BY <1>1, <1>3 DEF AnyLoud

(* They are in the queue, or with the barge-in of the next phrase, until   *)
(* the call is listening; and listening does not wait before it reads one. *)
Kept ==
    /\ phase # "speaking" => collected = <<>>
    /\ consecutive > 0 => AnyLoud(collected)
    /\ interrupted /\ ~closed /\ phase # "listening" => AnyLoud(incoming) \/ AnyLoud(collected)
    /\ interrupted /\ phase = "listening" /\ ~speechStarted =>
          elapsed = 0 /\ ~blocked /\ (closed \/ AnyLoud(incoming))

(* Kept is inductive: nobody drops a loud chunk before somebody listens.   *)
LEMMA KeptStep == TypeInv /\ Kept /\ [Next]_vars => Kept'
  <1> SUFFICES ASSUME TypeInv, Kept, [Next]_vars PROVE Kept'
    OBVIOUS
  <1> USE DEF Kept
  <1>a. /\ incoming \in Seq(Chunks) /\ collected \in Seq(Chunks)
        /\ consecutive \in 0..ConfirmChunks
        /\ elapsed \in Nat
        /\ phase # "listening" => ~speechStarted /\ ~blocked
    BY DEF TypeInv, QueuesOK, NumbersOK, Rested
  <1>b. ~AnyLoud(<<>>)
    BY DEF AnyLoud
  <1>1. CASE BargeHears
    <2>0. Head(incoming) \in Chunks /\ phase = "speaking" /\ incoming # <<>>
      BY <1>1, <1>a, SMTT(30) DEF BargeHears, BargeReading
    <2>1. consecutive' > 0 => AnyLoud(collected')
      BY <1>1, <1>a, <2>0, LoudAppend, SMTT(30) DEF BargeHears
    <2>2. AnyLoud(incoming) \/ AnyLoud(collected) => AnyLoud(incoming') \/ AnyLoud(collected')
      BY <1>1, <1>a, <2>0, LoudAppend, LoudRest, SMTT(30) DEF BargeHears
    <2> QED BY <1>1, <2>0, <2>1, <2>2, Zenon DEF BargeHears
  <1>2. CASE SayCut
    <2>1. AnyLoud(incoming \o collected)
      BY <1>2, <1>a, LoudConcat DEF SayCut
    <2> QED BY <1>2, <1>a, <2>1 DEF SayCut, Queue, AfterSay, Enter, vadVars
  <1>3. CASE SayEnds
    <2>1. interrupted /\ ~closed => AnyLoud(incoming \o collected)
      BY <1>3, <1>a, LoudConcat DEF SayEnds
    <2> QED BY <1>3, <2>1 DEF SayEnds, Queue, Enter
  <1>4. CASE GuardOver
    BY <1>4, <1>a, <1>b DEF GuardOver, Queue, AfterSay, Enter, bargeVars, vadVars
  <1>5. CASE Transcribed \/ Answered
    BY <1>5, <1>a, <1>b DEF Transcribed, Answered, Queue, StartSay, Enter, Processing, vadVars
  <1>6. ASSUME phase = "listening", NEW why, Finish(why) PROVE Kept'
    BY <1>6, <1>b DEF Finish, StartSay, Enter
  <1>7. ASSUME NEW chunk \in Chunks, Arrive(chunk) PROVE Kept'
    <2>1. AnyLoud(incoming) => AnyLoud(incoming')
      BY <1>7, <1>a, LoudAppend DEF Arrive
    <2> QED BY <1>7, <2>1 DEF Arrive, bargeVars, vadVars
  <1>8. CASE Close \/ UNCHANGED vars
    BY <1>8 DEF Close, vars, lineVars, bargeVars, vadVars
  <1>9. CASE Tick
    BY <1>9, <1>b DEF Tick, Idle, Processing, bargeVars
  <1>10. CASE ListenBlocks
    BY <1>10, <1>b DEF ListenBlocks, Getting, lineVars, bargeVars
  <1>11. CASE ListenTakes
    <2>1. Head(incoming) = "quiet" /\ AnyLoud(incoming) => AnyLoud(incoming')
      BY <1>11, <1>a, LoudRest DEF ListenTakes
    <2> QED BY <1>11, <2>1 DEF ListenTakes, Getting, bargeVars
  <1> QED BY <1>1, <1>2, <1>3, <1>4, <1>5, <1>6, <1>7, <1>8, <1>9, <1>10, <1>11
          DEF Next, ListenStep, ListenFinds, ListenTimesOut, ListenClosed, Getting

(* A caller who has cut the agent short is heard by the next utterance,    *)
(* for every setting: _collect_utterance cannot give up before it has read *)
(* the chunks that _say has put back.                                      *)
THEOREM InterruptionsAreHeard == Spec => InterruptionIsHeard
  <1>1. Init => Kept
    BY DEF Init, Kept
  <1>2. TypeInv /\ Kept /\ [Next]_vars =>
          [FinishesListening /\ interrupted /\ outcome' # "closed" => speechStarted]_vars
    <2> SUFFICES ASSUME TypeInv, Kept, [Next]_vars, ~UNCHANGED vars, FinishesListening,
                        interrupted, ~speechStarted
                 PROVE outcome' = "closed"
      OBVIOUS
    <2>1. phase = "listening" /\ phase' # "listening" /\ elapsed = 0 /\ ~blocked
      BY DEF FinishesListening, Kept
    <2>2. ListenClosed \/ ListenFinds
      BY <2>1 DEF Next, BargeHears, BargeReading, SayCut, SayEnds, GuardOver, Transcribed, Answered,
           Processing, Arrive, Close, Tick, ListenStep, ListenTimesOut, ListenBlocks, ListenTakes
    <2>3. ~ListenFinds
      BY <2>1 DEF ListenFinds, OverLimit, Due
    <2> QED BY <2>2, <2>3 DEF ListenClosed, Finish
  <1> QED BY <1>1, <1>2, KeptStep, InitTypes, StepTypes, PTL DEF Spec, InterruptionIsHeard

-----------------------------------------------------------------------------
(* A pause is measured from when a chunk is read.  What the reading lags   *)
(* behind is then still in the queue: unless a loud chunk waits there, the *)
(* caller has been quiet for as long as the pause measured.                *)
PauseIsReal == quiet = 0 \/ AnyLoud(incoming) \/ quiet <= callerQuiet

(* A loud chunk that comes in is in the queue.                             *)
LEMMA LoudLast ==
  ASSUME NEW q \in Seq(Chunks)
  PROVE  AnyLoud(Append(q, "loud"))
  BY LoudAppend DEF Chunks

(* The pause is measured only while the task listens, with an empty queue  *)
(* whenever the clock moves.                                               *)
LEMMA PauseStep == TypeInv /\ PauseIsReal /\ [Next]_vars => PauseIsReal'
  <1> SUFFICES ASSUME TypeInv, PauseIsReal, [Next]_vars PROVE PauseIsReal'
    OBVIOUS
  <1> USE DEF PauseIsReal
  <1>a. /\ incoming \in Seq(Chunks)
        /\ quiet \in 0..Silence /\ callerQuiet \in 0..Silence
        /\ phase # "listening" => ~speechStarted /\ quiet = 0
    BY DEF TypeInv, QueuesOK, NumbersOK, Rested
  <1>1. CASE BargeHears \/ SayCut \/ SayEnds \/ GuardOver
    BY <1>1, <1>a DEF BargeHears, BargeReading, SayCut, SayEnds, GuardOver, AfterSay, vadVars
  <1>2. CASE Transcribed \/ Answered
    BY <1>2, <1>a DEF Transcribed, Answered, Processing, vadVars
  <1>3. CASE \E why : Finish(why)
    BY <1>3 DEF Finish
  <1>4. ASSUME NEW chunk \in Chunks, Arrive(chunk) PROVE PauseIsReal'
    <2>1. incoming' = Append(incoming, chunk) /\ quiet' = quiet
      BY <1>4, Zenon DEF Arrive, vadVars
    <2>2. CASE chunk = "loud"
      BY <1>a, <2>1, <2>2, LoudLast
    <2>3. CASE chunk # "loud"
      <3>1. callerQuiet' = callerQuiet
        BY <1>4, <2>3 DEF Arrive
      <3>2. AnyLoud(incoming) => AnyLoud(incoming')
        BY <1>a, <2>1, LoudAppend
      <3> QED BY <2>1, <3>1, <3>2
    <2> QED BY <2>2, <2>3
  <1>5. CASE Close \/ ListenBlocks \/ UNCHANGED vars
    BY <1>5 DEF Close, ListenBlocks, vars, lineVars, vadVars
  <1>6. CASE Tick
    <2>1. CASE speechStarted
      <3>1. incoming = <<>> /\ quiet < Silence
        BY <1>6, <2>1, <1>a DEF Tick, Idle, Due, Processing
      <3>2. ~AnyLoud(incoming)
        BY <3>1 DEF AnyLoud
      <3> QED BY <1>6, <1>a, <2>1, <3>1, <3>2 DEF Tick, UpTo
    <2>2. CASE ~speechStarted
      BY <1>6, <1>a, <2>2 DEF Tick, UpTo
    <2> QED BY <2>1, <2>2
  <1>7. CASE ListenTakes
    <2>1. CASE Head(incoming) = "loud"
      BY <1>7, <2>1 DEF ListenTakes
    <2>2. CASE Head(incoming) # "loud"
      <3>1. incoming' = Tail(incoming) /\ quiet' = quiet /\ callerQuiet' = callerQuiet
        BY <1>7, <2>2 DEF ListenTakes
      <3>2. AnyLoud(incoming) => AnyLoud(incoming')
        BY <1>a, <2>2, <3>1, LoudRest
      <3> QED BY <3>1, <3>2
    <2> QED BY <2>1, <2>2
  <1> QED BY <1>1, <1>2, <1>3, <1>4, <1>5, <1>6, <1>7
          DEF Next, ListenStep, ListenFinds, ListenTimesOut, ListenClosed

(* _collect_utterance ends an utterance for a pause only where the caller  *)
(* has paused, for every vad_silence_seconds and however late the chunks   *)
(* were read: last_speech_time is never earlier than the last loud chunk.  *)
THEOREM UtterancesEndInPauses == Spec => CutOnlyInPause
  <1>1. Init => PauseIsReal
    BY DEF Init, PauseIsReal
  <1>2. TypeInv /\ PauseIsReal /\ [Next]_vars =>
          [FinishesListening /\ speechStarted /\ outcome' = "silence" /\ incoming = <<>> =>
              callerQuiet >= Silence]_vars
    <2> SUFFICES ASSUME TypeInv, PauseIsReal, [Next]_vars, ~UNCHANGED vars, FinishesListening,
                        speechStarted, outcome' = "silence", incoming = <<>>
                 PROVE callerQuiet >= Silence
      OBVIOUS
    <2>1. phase = "listening" /\ phase' # "listening"
      BY DEF FinishesListening
    <2>2. ListenFinds \/ ListenTimesOut \/ ListenClosed
      BY <2>1 DEF Next, BargeHears, BargeReading, SayCut, SayEnds, GuardOver, Transcribed, Answered,
           Processing, Arrive, Close, Tick, ListenStep, ListenBlocks, ListenTakes
    <2>3. Due
      BY <2>2 DEF ListenFinds, ListenTimesOut, ListenClosed, Finish
    <2>4. ~AnyLoud(incoming)
      BY DEF AnyLoud
    <2> QED BY <2>3, <2>4 DEF Due, PauseIsReal, TypeInv, NumbersOK
  <1> QED BY <1>1, <1>2, PauseStep, InitTypes, StepTypes, PTL DEF Spec, CutOnlyInPause

-----------------------------------------------------------------------------
(* What _wait_for_barge_in has counted is what the caller has said since   *)
(* the grace period, but for the chunk of this tick that it has not read;  *)
(* the last chunk it needs is one of this tick.                            *)
CountIsReal ==
    phase = "speaking" =>
        /\ elapsed < Grace => consecutive = 0 /\ loudRun = 0
        /\ elapsed >= Grace =>
              \/ incoming = <<>> /\ loudRun = consecutive
              \/ incoming = <<"loud">> /\ consecutive < ConfirmChunks /\ loudRun = consecutive + 1
              \/ incoming = <<"quiet">> /\ consecutive < ConfirmChunks /\ loudRun = 0
        /\ consecutive = ConfirmChunks => arrived
        /\ elapsed >= Grace /\ incoming # <<>> => arrived

(* A phrase starts in its grace period, and the queue is empty when that   *)
(* is over.                                                                *)
LEMMA CountStep == Grace # 0 /\ TypeInv /\ CountIsReal /\ [Next]_vars => CountIsReal'
  <1> SUFFICES ASSUME Grace # 0, TypeInv, CountIsReal, [Next]_vars PROVE CountIsReal'
    OBVIOUS
  <1>a. /\ incoming \in Seq(Chunks)
        /\ consecutive \in 0..ConfirmChunks /\ loudRun \in 0..ConfirmChunks /\ elapsed \in Nat
    BY DEF TypeInv, QueuesOK, NumbersOK
  <1>b. ASSUME NEW isFiller, StartSay(isFiller) PROVE CountIsReal'
    BY <1>b DEF StartSay, Enter, CountIsReal
  <1>1. CASE BargeHears
    <2>1. /\ phase = "speaking" /\ consecutive < ConfirmChunks /\ incoming # <<>>
          /\ incoming' = Tail(incoming)
          /\ UNCHANGED <<phase, elapsed, arrived, loudRun>>
      BY <1>1, Zenon DEF BargeHears, BargeReading
    <2>2. CASE elapsed < Grace
      <3>1. consecutive' = consecutive
        BY <1>1, <1>a, <2>2, SMTT(30) DEF BargeHears
      <3>2. consecutive' = 0 /\ loudRun' = 0
        BY <2>1, <2>2, <3>1 DEF CountIsReal
      <3>3. elapsed' < Grace /\ ~(elapsed' >= Grace) /\ consecutive' # ConfirmChunks
        BY <1>a, <2>1, <2>2, <3>2
      <3> QED BY <3>2, <3>3, Zenon DEF CountIsReal
    <2>3. CASE elapsed >= Grace
      <3>1. consecutive' = IF Head(incoming) = "loud" THEN consecutive + 1 ELSE 0
        BY <1>1, <1>a, <2>3, SMTT(30) DEF BargeHears
      <3>2. arrived /\ (\/ incoming = <<"loud">> /\ loudRun = consecutive + 1
                        \/ incoming = <<"quiet">> /\ loudRun = 0)
        BY <2>1, <2>3 DEF CountIsReal
      <3>3. incoming' = <<>> /\ loudRun = consecutive'
        BY <2>1, <3>1, <3>2
      <3> QED BY <1>a, <2>1, <2>3, <3>2, <3>3 DEF CountIsReal
    <2> QED BY <1>a, <2>2, <2>3
  <1>2. CASE SayCut \/ SayEnds \/ GuardOver
    BY <1>2 DEF SayCut, SayEnds, GuardOver, AfterSay, Enter, CountIsReal
  <1>3. CASE Transcribed \/ Answered
    <2>1. phase' # "speaking" \/ \E isFiller : StartSay(isFiller)
      BY <1>3 DEF Transcribed, Answered, Enter
    <2> QED BY <1>b, <2>1 DEF CountIsReal
  <1>4. CASE \E why : Finish(why)
    <2>1. phase' # "speaking" \/ \E isFiller : StartSay(isFiller)
      BY <1>4 DEF Finish, Enter
    <2> QED BY <1>b, <2>1 DEF CountIsReal
  <1>5. ASSUME NEW chunk \in Chunks, Arrive(chunk) PROVE CountIsReal'
    <2> SUFFICES ASSUME phase' = "speaking" PROVE CountIsReal'
      BY DEF CountIsReal
    <2>1. /\ ~arrived /\ arrived' /\ incoming' = Append(incoming, chunk)
          /\ UNCHANGED <<phase, elapsed, consecutive>>
      BY <1>5, Zenon DEF Arrive, bargeVars
    <2>2. CASE elapsed < Grace
      <3>1. loudRun' = loudRun
        BY <1>5, <1>a, <2>2, SMTT(30) DEF Arrive
      <3>2. consecutive' = 0 /\ loudRun' = 0
        BY <2>1, <2>2, <3>1 DEF CountIsReal
      <3>3. elapsed' < Grace /\ ~(elapsed' >= Grace) /\ consecutive' # ConfirmChunks
        BY <1>a, <2>1, <2>2, <3>2
      <3> QED BY <3>2, <3>3, Zenon DEF CountIsReal
    <2>3. CASE elapsed >= Grace
      <3>1. incoming = <<>> /\ loudRun = consecutive /\ consecutive < ConfirmChunks
        BY <1>a, <2>1, <2>3 DEF CountIsReal
      <3>2. loudRun' = IF chunk = "loud" THEN UpTo(loudRun + 1, ConfirmChunks) ELSE 0
        BY <1>5, <1>a, <2>1, <2>3, SMTT(30) DEF Arrive
      <3>3. CASE chunk = "loud"
        <4>1. incoming' = <<"loud">> /\ loudRun' = consecutive + 1
          BY <1>a, <2>1, <3>1, <3>2, <3>3 DEF UpTo
        <4> QED BY <1>a, <2>1, <2>3, <3>1, <4>1 DEF CountIsReal
      <3>4. CASE chunk = "quiet"
        <4>1. incoming' = <<"quiet">> /\ loudRun' = 0
          BY <2>1, <3>1, <3>2, <3>4
        <4> QED BY <1>a, <2>1, <2>3, <3>1, <4>1 DEF CountIsReal
      <3> QED BY <3>3, <3>4 DEF Chunks
    <2> QED BY <1>a, <2>2, <2>3
  <1>6. CASE Close \/ UNCHANGED vars
    BY <1>6 DEF Close, vars, lineVars, bargeVars, CountIsReal
  <1>7. CASE Tick
    <2> SUFFICES ASSUME phase' = "speaking" PROVE CountIsReal'
      BY DEF CountIsReal
    <2>1. /\ phase = "speaking" /\ incoming = <<>> /\ consecutive < ConfirmChunks
          /\ elapsed' = elapsed + 1
          /\ UNCHANGED <<phase, incoming, consecutive, loudRun>>
      BY <1>7 DEF Tick, Idle, Processing, bargeVars
    <2> QED BY <1>a, <2>1 DEF CountIsReal
  <1>8. CASE ListenBlocks \/ ListenTakes
    BY <1>8 DEF ListenBlocks, ListenTakes, Getting, CountIsReal
  <1> QED BY <1>1, <1>2, <1>3, <1>4, <1>5, <1>6, <1>7, <1>8
          DEF Next, ListenStep, ListenFinds, ListenTimesOut, ListenClosed

(* A barge-in is what it is taken for: _say cuts a phrase only when        *)
(* barge_in_confirm_chunks loud chunks in a row have come in since the     *)
(* grace period.  Without a grace period this would fail: what the caller  *)
(* said while the agent was thinking is read at the start of the phrase,   *)
(* and would count.                                                        *)
THEOREM CutsAreSustained == Grace # 0 => (Spec => SustainedBargeIn)
  <1> SUFFICES ASSUME Grace # 0 PROVE Spec => SustainedBargeIn
    OBVIOUS
  <1>1. Init => CountIsReal
    BY DEF Init, CountIsReal
  <1>2. CountIsReal /\ TypeInv /\ [Next]_vars => CountIsReal'
    BY CountStep
  <1>3. TypeInv /\ CountIsReal /\ [Next]_vars =>
          [phase = "speaking" /\ phase' \notin {"speaking", "guard"} =>
              loudRun = ConfirmChunks]_vars
    <2> SUFFICES ASSUME TypeInv, CountIsReal, [Next]_vars, ~UNCHANGED vars, phase = "speaking",
                        phase' \notin {"speaking", "guard"}
                 PROVE loudRun = ConfirmChunks
      OBVIOUS
    <2>1. SayCut
      BY DEF Next, BargeHears, SayEnds, Enter, GuardOver, Transcribed, Answered, Processing, Arrive,
             Close, Tick, ListenStep, ListenFinds, ListenTimesOut, ListenBlocks, ListenTakes,
             ListenClosed, Getting
    <2>2. consecutive = ConfirmChunks
      BY <2>1 DEF SayCut
    <2> QED BY <2>2 DEF CountIsReal, TypeInv, NumbersOK
  <1> QED BY <1>1, <1>2, <1>3, InitTypes, StepTypes, PTL DEF Spec, SustainedBargeIn
=============================================================================
