------------------------ MODULE CallLifecycle_proofs ------------------------
(***************************************************************************)
(* Proofs about CallLifecycle, for every number of tool rounds, retries,   *)
(* turns and bookings, and for both behaviours of asyncio.wait_for.        *)
(*                                                                         *)
(* TypeOK is inductive by itself and is proved part by part; IInv (see     *)
(* CallLifecycle) is inductive on top of it and implies the invariants and *)
(* the step properties.                                                    *)
(***************************************************************************)
EXTENDS CallLifecycle, TLAPS

USE AgentAssumption, CallAssumption DEF AgentAssumption, CallAssumption

(* TypeOK, by the sort of the variables. *)
NumbersOK ==
    /\ slot \in 0..MaxBookings
    /\ bookings \in 0..MaxBookings
    /\ round \in 0..MaxToolRounds
    /\ left \in 0..MaxToolsPerRound
    /\ retry \in 0..MaxRetries
    /\ turns \in 0..MaxTurns

NamesOK ==
    /\ step \in Steps
    /\ llm \in LlmPhases
    /\ tool \in Tools \cup {"none"}
    /\ pc \in Labels
    /\ kind \in {"dialog", "announcement"}
    /\ audio \in {"none", "waiting"} \cup Playing \cup {"stuck", "hearing", "deaf"}
    /\ bridge \in {"none", "up", "mute", "gone"}
    /\ timer \in {"off", "armed", "expired", "eaten"}

RecordsOK ==
    /\ stored \in [step : Steps, slot : 0..MaxBookings, retry : 0..MaxRetries]
    /\ reply \in Replies

FlagsOK ==
    /\ lost \in BOOLEAN
    /\ accepted \in BOOLEAN
    /\ orphaned \in BOOLEAN
    /\ failed \in BOOLEAN
    /\ hung \in BOOLEAN

(* TypeOK is its four parts. *)
LEMMA TypeParts == TypeOK <=> NumbersOK /\ NamesOK /\ RecordsOK /\ FlagsOK
  BY DEF TypeOK, AgentTypeOK, NumbersOK, NamesOK, RecordsOK, FlagsOK

(* The initial states are well typed. *)
LEMMA InitType == Init => TypeOK
  <1> SUFFICES ASSUME Init PROVE TypeOK
    OBVIOUS
  <1>1. NumbersOK
    BY DEF Init, AgentInit, NumbersOK
  <1>2. NamesOK
    BY DEF Init, AgentInit, NamesOK, Steps, LlmPhases, Tools, Labels
  <1>3. RecordsOK
    <2>1. stored \in [step : Steps, slot : 0..MaxBookings, retry : 0..MaxRetries]
      BY <1>1, <1>2 DEF Init, NumbersOK, NamesOK, Snapshot
    <2>2. reply \in Replies
      BY DEF Init, AgentInit, Replies
    <2> QED
      BY <2>1, <2>2 DEF RecordsOK
  <1>4. FlagsOK
    BY DEF Init, AgentInit, FlagsOK
  <1> QED
    BY <1>1, <1>2, <1>3, <1>4, TypeParts

(* Counters stay within their bounds. *)
LEMMA NumbersStep ==
  ASSUME NumbersOK, [Next]_vars
  PROVE  NumbersOK'
  <1> USE DEF agentVars, callVars, turnVars, Say, Listen, Goto, LeaveDialog, LoopHead, Raise, NumbersOK
  <1>1. CASE Begin \/ BeginFails
    BY <1>1 DEF Begin, BeginFails
  <1>2. CASE SayStep \/ SayStrands \/ SayCutIn
    BY <1>2 DEF SayStep, SayStrands, SayCutIn, SayAttaches, SayReturns, SayRaises, AfterSay, SayLabels
  <1>3. CASE ListenStep
    BY <1>3 DEF ListenStep, ListenEmpty, ListenText, ListenRaises, StartTurn
  <1>4. CASE TurnStep
    BY <1>4 DEF TurnStep, SoftTimeout, TurnEnds, TurnFails
  <1>5. CASE SaveStep
    BY <1>5 DEF SaveStep, SaveTurn, SaveTurnRaises, SaveFinal, SaveFinalRaises
  <1>6. CASE HangUp
    BY <1>6 DEF HangUp
  <1>7. CASE CallTimeout \/ CallTimeoutEaten
    BY <1>7 DEF CallTimeout, CallTimeoutEaten, CancelAwaited, CancelTurn
  <1>8. CASE BridgeConnects \/ SenderCrashes \/ BridgeDrops
    BY <1>8 DEF BridgeConnects, SenderCrashes, BridgeDrops
  <1>9. CASE AgentStep
    BY <1>9 DEF AgentStep, AgentNext, LlmAnswers, LlmFails, LlmCallsTools, ToolLooksUp,
           ToolEscalates, SalonAccepts, ToolBooks, ToolBookingFails, ToolDone,
           NextToolCall, NextRound, Answer
  <1>10. CASE UNCHANGED vars
    BY <1>10 DEF vars
  <1> QED
    BY <1>1, <1>2, <1>3, <1>4, <1>5, <1>6, <1>7, <1>8, <1>9, <1>10 DEF Next

(* Labels and phases stay within their sets. *)
LEMMA NamesStep ==
  ASSUME NamesOK, [Next]_vars
  PROVE  NamesOK'
  <1> USE DEF agentVars, callVars, turnVars, Say, Listen, Goto, LeaveDialog, LoopHead, Raise,
           NamesOK, Steps, LlmPhases, Tools, Labels, DialogLabels, SayLabels,
           Playing
  <1>1. CASE Begin \/ BeginFails
    BY <1>1 DEF Begin, BeginFails
  <1>2. CASE SayStep \/ SayStrands \/ SayCutIn
    BY <1>2 DEF SayStep, SayStrands, SayCutIn, SayAttaches, SayReturns, SayRaises, AfterSay, SayLabels
  <1>3. CASE ListenStep
    BY <1>3 DEF ListenStep, ListenEmpty, ListenText, ListenRaises, StartTurn
  <1>4. CASE TurnStep
    BY <1>4 DEF TurnStep, SoftTimeout, TurnEnds, TurnFails
  <1>5. CASE SaveStep
    BY <1>5 DEF SaveStep, SaveTurn, SaveTurnRaises, SaveFinal, SaveFinalRaises
  <1>6. CASE HangUp
    BY <1>6 DEF HangUp
  <1>7. CASE CallTimeout \/ CallTimeoutEaten
    BY <1>7 DEF CallTimeout, CallTimeoutEaten, CancelAwaited, CancelTurn
  <1>8. CASE BridgeConnects \/ SenderCrashes \/ BridgeDrops
    BY <1>8 DEF BridgeConnects, SenderCrashes, BridgeDrops
  <1>9. CASE AgentStep
    BY <1>9 DEF AgentStep, AgentNext, LlmAnswers, LlmFails, LlmCallsTools, ToolLooksUp,
           ToolEscalates, SalonAccepts, ToolBooks, ToolBookingFails, ToolDone,
           NextToolCall, NextRound, Answer
  <1>10. CASE UNCHANGED vars
    BY <1>10 DEF vars
  <1> QED
    BY <1>1, <1>2, <1>3, <1>4, <1>5, <1>6, <1>7, <1>8, <1>9, <1>10 DEF Next

(* The stored snapshot and the agent's answer stay records. *)
LEMMA RecordsStep ==
  ASSUME NumbersOK, NamesOK, RecordsOK, [Next]_vars
  PROVE  RecordsOK'
  <1> USE DEF agentVars, callVars, turnVars, Say, Listen, Goto, LeaveDialog, LoopHead, Raise,
           RecordsOK, NumbersOK, NamesOK, Snapshot
  <1>1. CASE Begin \/ BeginFails
    BY <1>1 DEF Begin, BeginFails
  <1>2. CASE SayStep \/ SayStrands \/ SayCutIn
    BY <1>2 DEF SayStep, SayStrands, SayCutIn, SayAttaches, SayReturns, SayRaises, AfterSay, SayLabels
  <1>3. CASE ListenStep
    BY <1>3 DEF ListenStep, ListenEmpty, ListenText, ListenRaises, StartTurn
  <1>4. CASE TurnStep
    BY <1>4 DEF TurnStep, SoftTimeout, TurnEnds, TurnFails
  <1>5. CASE SaveStep
    BY <1>5 DEF SaveStep, SaveTurn, SaveTurnRaises, SaveFinal, SaveFinalRaises
  <1>6. CASE HangUp
    BY <1>6 DEF HangUp
  <1>7. CASE CallTimeout \/ CallTimeoutEaten
    BY <1>7 DEF CallTimeout, CallTimeoutEaten, CancelAwaited, CancelTurn
  <1>8. CASE BridgeConnects \/ SenderCrashes \/ BridgeDrops
    BY <1>8 DEF BridgeConnects, SenderCrashes, BridgeDrops
  <1>9. CASE AgentStep
    BY <1>9 DEF AgentStep, AgentNext, LlmAnswers, LlmFails, LlmCallsTools, ToolLooksUp,
           ToolEscalates, SalonAccepts, ToolBooks, ToolBookingFails, ToolDone,
           NextToolCall, NextRound, Answer
  <1>10. CASE UNCHANGED vars
    BY <1>10 DEF vars
  <1> QED
    BY <1>1, <1>2, <1>3, <1>4, <1>5, <1>6, <1>7, <1>8, <1>9, <1>10 DEF Next

(* Flags stay Boolean. *)
LEMMA FlagsStep ==
  ASSUME FlagsOK, [Next]_vars
  PROVE  FlagsOK'
  <1> USE DEF agentVars, callVars, turnVars, Say, Listen, Goto, LeaveDialog, LoopHead, Raise, FlagsOK, LlmAlive
  <1>1. CASE Begin \/ BeginFails
    BY <1>1 DEF Begin, BeginFails
  <1>2. CASE SayStep \/ SayStrands \/ SayCutIn
    BY <1>2 DEF SayStep, SayStrands, SayCutIn, SayAttaches, SayReturns, SayRaises, AfterSay, SayLabels
  <1>3. CASE ListenStep
    BY <1>3 DEF ListenStep, ListenEmpty, ListenText, ListenRaises, StartTurn
  <1>4. CASE TurnStep
    BY <1>4 DEF TurnStep, SoftTimeout, TurnEnds, TurnFails
  <1>5. CASE SaveStep
    BY <1>5 DEF SaveStep, SaveTurn, SaveTurnRaises, SaveFinal, SaveFinalRaises
  <1>6. CASE HangUp
    BY <1>6 DEF HangUp
  <1>7. CASE CallTimeout \/ CallTimeoutEaten
    <2>1. LlmAlive \in BOOLEAN
      OBVIOUS
    <2>2. lost' \in BOOLEAN /\ accepted' \in BOOLEAN /\ failed' \in BOOLEAN /\ hung' \in BOOLEAN
      BY <1>7 DEF CallTimeout, CallTimeoutEaten, CancelAwaited, CancelTurn
    <2>3. orphaned' = orphaned \/ orphaned' = LlmAlive
      BY <1>7 DEF CallTimeout, CallTimeoutEaten, CancelAwaited
    <2> QED
      BY <2>1, <2>2, <2>3
  <1>8. CASE BridgeConnects \/ SenderCrashes \/ BridgeDrops
    BY <1>8 DEF BridgeConnects, SenderCrashes, BridgeDrops
  <1>9. CASE AgentStep
    BY <1>9 DEF AgentStep, AgentNext, LlmAnswers, LlmFails, LlmCallsTools, ToolLooksUp,
           ToolEscalates, SalonAccepts, ToolBooks, ToolBookingFails, ToolDone,
           NextToolCall, NextRound, Answer
  <1>10. CASE UNCHANGED vars
    BY <1>10 DEF vars
  <1> QED
    BY <1>1, <1>2, <1>3, <1>4, <1>5, <1>6, <1>7, <1>8, <1>9, <1>10 DEF Next

(* TypeOK is inductive. *)
LEMMA TypeStep == TypeOK /\ [Next]_vars => TypeOK'
  <1> SUFFICES ASSUME TypeOK, [Next]_vars PROVE TypeOK'
    OBVIOUS
  <1>1. NumbersOK /\ NamesOK /\ RecordsOK /\ FlagsOK
    BY TypeParts
  <1>2. NumbersOK' /\ NamesOK' /\ RecordsOK' /\ FlagsOK'
    BY <1>1, NumbersStep, NamesStep, RecordsStep, FlagsStep
  <1> QED
    BY <1>2 DEF TypeOK, AgentTypeOK, NumbersOK, NamesOK, RecordsOK, FlagsOK

(* Every variable keeps its type, for all values of the constants. *)
THEOREM TypeCorrect == Spec => []TypeOK
  BY InitType, TypeStep, PTL DEF Spec

-----------------------------------------------------------------------------
(* The inductive invariant without the types. *)
DialogInv == TurnIsAwaited /\ QuietInv /\ RepliedInv /\ OrphanInv /\ TurnInv /\ ClosingInv

(* The initial states satisfy the inductive invariant. *)
LEMMA InitIInv == Init => IInv
  <1> SUFFICES ASSUME Init PROVE IInv
    OBVIOUS
  <1>1. TurnIsAwaited /\ OrphanInv /\ TurnInv /\ ClosingInv /\ BookingInv
    BY DEF Init, AgentInit, TurnIsAwaited, OrphanInv, TurnInv, ClosingInv,
           BookingInv, LlmAlive, TurnLabels
  <1>2. QuietInv /\ RepliedInv
    BY DEF Init, AgentInit, QuietInv, RepliedInv, AfterLastReply, Snapshot, TERMINAL_STEPS
  <1> QED
    BY <1>1, <1>2, InitType DEF IInv

(* Where the dialog, the turn and the end of the call stand to one another. *)
LEMMA DialogStep ==
  ASSUME TypeOK, DialogInv, [Next]_vars
  PROVE  DialogInv'
  <1> USE DEF agentVars, callVars, turnVars, Say, Listen, Goto, LeaveDialog,
           LoopHead, Raise, DialogInv, TurnIsAwaited, QuietInv, RepliedInv, OrphanInv,
           TurnInv, ClosingInv, Snapshot, AfterLastReply, LlmAlive, TERMINAL_STEPS, TurnLabels,
           QuietLabels, ClosingLabels, DialogLabels, SayLabels, SafeSays, Executing
  <1>1. CASE Begin \/ BeginFails
    BY <1>1 DEF Begin, BeginFails
  <1>2. CASE SayStep \/ SayStrands \/ SayCutIn
    BY <1>2 DEF SayStep, SayStrands, SayCutIn, SayAttaches, SayReturns, SayRaises, AfterSay, SayLabels
  <1>3. CASE ListenStep
    BY <1>3 DEF ListenStep, ListenEmpty, ListenText, ListenRaises, StartTurn
  <1>4. CASE TurnStep
    BY <1>4 DEF TurnStep, SoftTimeout, TurnEnds, TurnFails
  <1>5. CASE SaveStep
    BY <1>5 DEF SaveStep, SaveTurn, SaveTurnRaises, SaveFinal, SaveFinalRaises
  <1>6. CASE HangUp
    BY <1>6 DEF HangUp
  <1>7. CASE CallTimeout \/ CallTimeoutEaten
    <2>1. CASE CallTimeoutEaten
      BY <2>1 DEF CallTimeoutEaten
    <2>2. CASE CallTimeout
      <3>1. pc' = "timeoutBye" /\ step' = "END"
        BY <2>2 DEF CallTimeout
      <3>2. LlmAlive' => orphaned'
        <4>1. CASE pc = "hardWait" /\ LlmAlive
          BY <2>2, <4>1 DEF CallTimeout, CancelAwaited, CancelTurn
        <4>2. CASE ~(pc = "hardWait" /\ LlmAlive)
          <5>1. orphaned' = LlmAlive /\ llm' = llm
            BY <2>2, <4>2 DEF CallTimeout, CancelAwaited
          <5> QED
            BY <5>1
        <4> QED
          BY <4>1, <4>2
      <3> QED
        BY <3>1, <3>2
    <2> QED
      BY <1>7, <2>1, <2>2
  <1>8. CASE BridgeConnects \/ SenderCrashes \/ BridgeDrops
    BY <1>8 DEF BridgeConnects, SenderCrashes, BridgeDrops
  <1>9. CASE AgentStep
    BY <1>9 DEF AgentStep, AgentNext, LlmAnswers, LlmFails, LlmCallsTools, ToolLooksUp,
           ToolEscalates, SalonAccepts, ToolBooks, ToolBookingFails, ToolDone,
           NextToolCall, NextRound, Answer
  <1>10. CASE UNCHANGED vars
    BY <1>10 DEF vars
  <1> QED
    BY <1>1, <1>2, <1>3, <1>4, <1>5, <1>6, <1>7, <1>8, <1>9, <1>10 DEF Next

(* What the state knows of the salon's bookings: only the agent's task, the *)
(* start of a turn and its cancellation touch it.                          *)
LEMMA BookingStep ==
  ASSUME TypeOK, DialogInv, BookingInv, [Next]_vars
  PROVE  BookingInv'
  <1> USE DEF agentVars, callVars, turnVars, BookingInv, Executing
  <1>1. lost \in BOOLEAN /\ accepted \in BOOLEAN
    BY DEF TypeOK, AgentTypeOK
  <1>2. CASE UNCHANGED turnVars
    BY <1>2
  <1>3. CASE ListenText
    <2>1. ~accepted
      BY <1>3 DEF ListenText, DialogInv, TurnIsAwaited, OrphanInv, LlmAlive,
             TurnLabels, ClosingLabels
    <2> QED
      BY <1>3, <2>1 DEF ListenText, StartTurn
  <1>4. CASE CallTimeout
    <2>1. CASE CancelTurn
      BY <1>1, <2>1 DEF CancelTurn
    <2> QED
      BY <1>2, <1>4, <2>1 DEF CallTimeout, CancelAwaited
  <1>5. CASE AgentStep
    <2>1. CASE ToolBookingFails
      <3>1. ~accepted'
        BY <2>1 DEF ToolBookingFails
      <3>2. lost' = lost \/ lost' = TRUE
        BY <1>1, <2>1 DEF ToolBookingFails
      <3>3. accepted => lost'
        BY <1>1, <2>1 DEF ToolBookingFails
      <3>4. lost => lost'
        BY <1>1, <2>1 DEF ToolBookingFails
      <3> QED
        BY <2>1, <3>1, <3>3, <3>4 DEF ToolBookingFails
    <2>2. CASE ToolLooksUp \/ ToolEscalates
      <3>1. ~accepted
        BY <2>2 DEF ToolLooksUp, ToolEscalates
      <3> QED
        BY <2>2, <3>1 DEF ToolLooksUp, ToolEscalates
    <2>3. CASE ToolBooks
      BY <2>3 DEF ToolBooks
    <2>4. CASE LlmAnswers \/ LlmFails \/ LlmCallsTools \/ SalonAccepts
      BY <2>4 DEF LlmAnswers, LlmFails, LlmCallsTools, SalonAccepts, Answer
    <2> QED
      BY <1>5, <2>1, <2>2, <2>3, <2>4 DEF AgentStep, AgentNext
  <1> QED
    BY <1>2, <1>3, <1>4, <1>5 DEF Next, Begin, BeginFails, SayStep, SayStrands, SayCutIn, SayAttaches,
       SayReturns, SayRaises, ListenStep, ListenEmpty, ListenRaises, TurnStep,
       SoftTimeout, TurnEnds, TurnFails, SaveStep, SaveTurn, SaveTurnRaises,
       SaveFinal, SaveFinalRaises, HangUp, CallTimeoutEaten, BridgeConnects,
       SenderCrashes, BridgeDrops, vars

(* IInv is inductive. *)
LEMMA IInvStep == IInv /\ [Next]_vars => IInv'
  <1> SUFFICES ASSUME IInv, [Next]_vars PROVE IInv'
    OBVIOUS
  <1>1. TypeOK /\ DialogInv /\ BookingInv
    BY DEF IInv, DialogInv
  <1>2. TypeOK' /\ DialogInv' /\ BookingInv'
    BY <1>1, TypeStep, DialogStep, BookingStep
  <1> QED
    BY <1>2 DEF IInv, DialogInv

(* IInv holds in every reachable state, for all values of the constants. *)
LEMMA IInvAlways == Spec => []IInv
  BY InitIInv, IInvStep, PTL DEF Spec

-----------------------------------------------------------------------------
(* The invariants.                                                         *)

(* Only a call that ran into its time limit can leave a turn running       *)
(* behind the dialog's back, for any number of rounds, retries and turns.  *)
THEOREM TurnAwaited == Spec => []TurnIsAwaited
  <1>1. IInv => TurnIsAwaited
    BY DEF IInv
  <1> QED
    BY <1>1, IInvAlways, PTL

(* While the call waits for the caller, the store holds the dialog as the  *)
(* last reply left it, and lags only in the count of unanswered prompts.   *)
THEOREM SavedWhileListening == Spec => []ListensOnSavedState
  <1>1. IInv => ListensOnSavedState
    BY DEF IInv, QuietInv, QuietLabels, ListensOnSavedState
  <1> QED
    BY <1>1, IInvAlways, PTL

(* A completed call has stored a finished dialog. *)
THEOREM CompletedTerminal == Spec => []CompletedIsTerminal
  <1>1. IInv => CompletedIsTerminal
    <2> SUFFICES ASSUME IInv, pc = "done", ~failed, ~orphaned
                 PROVE  stored = Snapshot /\ stored.step \in TERMINAL_STEPS
      BY DEF CompletedIsTerminal
    <2>1. stored = Snapshot /\ step \in TERMINAL_STEPS
      BY DEF IInv, ClosingInv
    <2> QED
      BY <2>1 DEF Snapshot
  <1> QED
    BY <1>1, IInvAlways, PTL

(* The record of a finished call names the salon's last booking, unless    *)
(* the reply was lost or the turn orphaned.                                *)
THEOREM RecordComplete == Spec => []RecordKnowsBooking
  <1>1. IInv => RecordKnowsBooking
    <2> SUFFICES ASSUME IInv, pc = "done", ~lost, ~orphaned
                 PROVE  stored.slot = bookings
      BY DEF RecordKnowsBooking
    <2>1. ~LlmAlive
      BY DEF IInv, TurnIsAwaited, TurnLabels
    <2>2. slot = bookings
      BY <2>1 DEF IInv, BookingInv, LlmAlive, Executing
    <2>3. stored = Snapshot
      BY DEF IInv, ClosingInv
    <2> QED
      BY <2>2, <2>3 DEF Snapshot
  <1> QED
    BY <1>1, IInvAlways, PTL

-----------------------------------------------------------------------------
(* The step properties.                                                    *)

(* No turn is alive once the dialog is in END, unless it was orphaned.     *)
LEMMA AgentRunsBeforeEnd ==
  ASSUME IInv, step = "END", ~orphaned
  PROVE  ~LlmAlive
  BY DEF IInv, TurnIsAwaited, TurnInv

(* END is never left, unless a turn was orphaned. *)
THEOREM EndIsFinal == Spec => EndSticks
  <1>1. IInv /\ [Next]_vars => [step = "END" /\ ~orphaned => step' = "END"]_vars
    <2> SUFFICES ASSUME IInv, Next, step = "END", ~orphaned
                 PROVE  step' = "END"
      OBVIOUS
    <2> USE DEF agentVars, LeaveDialog, LoopHead, Listen, Raise
    <2>1. ~LlmAlive
      BY AgentRunsBeforeEnd
    <2>2. ~AgentStep
      BY <2>1 DEF AgentStep, AgentNext, LlmAlive, Executing, LlmAnswers, LlmFails,
             LlmCallsTools, ToolLooksUp, ToolEscalates, SalonAccepts, ToolBooks,
             ToolBookingFails
    <2>3. CASE SayStep \/ SayStrands \/ SayCutIn
      BY <2>3 DEF SayStep, SayStrands, SayCutIn, SayAttaches, SayReturns, SayRaises, AfterSay
    <2>4. CASE ListenStep
      BY <2>4 DEF ListenStep, ListenEmpty, ListenText, ListenRaises
    <2>5. CASE TurnStep
      BY <2>5 DEF TurnStep, SoftTimeout, TurnEnds, TurnFails
    <2>6. CASE SaveStep
      BY <2>6 DEF SaveStep, SaveTurn, SaveTurnRaises, SaveFinal, SaveFinalRaises
    <2>7. CASE \/ Begin \/ BeginFails \/ HangUp \/ CallTimeout \/ CallTimeoutEaten
               \/ BridgeConnects \/ SenderCrashes \/ BridgeDrops
      BY <2>7 DEF Begin, BeginFails, HangUp, CallTimeout, CallTimeoutEaten,
             BridgeConnects, SenderCrashes, BridgeDrops
    <2> QED
      BY <2>2, <2>3, <2>4, <2>5, <2>6, <2>7 DEF Next
  <1> QED
    BY <1>1, IInvAlways, PTL DEF Spec, EndSticks

(* ESCALATE, once the turn is over, gives way only to a timeout. *)
THEOREM EscalationIsKept == Spec => EscalationSticks
  <1> DEFINE Kept == step = "ESCALATE" /\ ~LlmAlive /\ llm # "failed" /\ pc' # "timeoutBye"
                        => step' = "ESCALATE"
  <1>1. IInv /\ [Next]_vars => [Kept]_vars
    <2> SUFFICES ASSUME IInv, Next, step = "ESCALATE", ~LlmAlive, llm # "failed",
                        pc' # "timeoutBye"
                 PROVE  step' = "ESCALATE"
      OBVIOUS
    <2> USE DEF agentVars, LeaveDialog, LoopHead, Listen, Raise
    <2>1. ~AgentStep
      BY DEF AgentStep, AgentNext, LlmAlive, Executing, LlmAnswers, LlmFails,
             LlmCallsTools, ToolLooksUp, ToolEscalates, SalonAccepts, ToolBooks,
             ToolBookingFails
    <2>2. pc \notin QuietLabels
      BY DEF IInv, QuietInv, TERMINAL_STEPS
    <2>3. CASE SayStep \/ SayStrands \/ SayCutIn
      BY <2>2, <2>3 DEF SayStep, SayStrands, SayCutIn, SayAttaches, SayReturns, SayRaises, AfterSay, QuietLabels
    <2>4. CASE ListenStep
      BY <2>4 DEF ListenStep, ListenEmpty, ListenText, ListenRaises
    <2>5. CASE TurnStep
      BY <2>5 DEF TurnStep, SoftTimeout, TurnEnds, TurnFails
    <2>6. CASE SaveStep
      BY <2>6 DEF SaveStep, SaveTurn, SaveTurnRaises, SaveFinal, SaveFinalRaises
    <2>7. CASE \/ Begin \/ BeginFails \/ HangUp \/ CallTimeout \/ CallTimeoutEaten
               \/ BridgeConnects \/ SenderCrashes \/ BridgeDrops
      BY <2>7 DEF Begin, BeginFails, HangUp, CallTimeout, CallTimeoutEaten,
             BridgeConnects, SenderCrashes, BridgeDrops
    <2> QED
      BY <2>1, <2>3, <2>4, <2>5, <2>6, <2>7 DEF Next
  <1> QED
    BY <1>1, IInvAlways, PTL DEF Spec, EscalationSticks
=============================================================================
