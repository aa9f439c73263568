------------------------------ MODULE AgentTurn ------------------------------
(***************************************************************************)
(* One turn of the LLM agent as an asyncio task of its own: the rounds of  *)
(* core/agent.py (AnthropicLLMAgent.run_turn, OpenAILLMAgent.run_turn) and *)
(* the tool calls of Orchestrator._execute_tool, which change the          *)
(* ConversationState shared with the task of the call.                     *)
(*                                                                         *)
(* Every action is what happens between two await points of the task.  The *)
(* salon's booking system is external: it may accept a booking and have    *)
(* its reply lost (a timeout, a broken body, the cancellation of the task).*)
(***************************************************************************)
EXTENDS Naturals

CONSTANTS
    MaxToolRounds,      \* MAX_TOOL_ROUNDS of agent.py
    MaxToolsPerRound,   \* bound: tool calls in one answer of the model
    MaxBookings         \* bound: bookings the salon accepts during one call

ASSUME AgentAssumption ==
    /\ MaxToolRounds \in Nat \ {0}
    /\ MaxToolsPerRound \in Nat \ {0}
    /\ MaxBookings \in Nat

VARIABLES
    step,       \* ConversationState.step
    slot,       \* ConversationState.slot: 0 is None, n the n-th booking
    bookings,   \* how many bookings the salon holds for this call
    lost,       \* history: the salon accepted one whose reply was never read
    llm,        \* phase of llm_task
    round,      \* round of the loop over MAX_TOOL_ROUNDS
    tool,       \* the tool call being executed
    left,       \* tool calls of the same answer still to execute
    accepted,   \* the salon has accepted the booking now in flight
    reply       \* AgentResponse: is the text non-empty, is it final

turnVars == <<slot, bookings, lost, llm, round, tool, left, accepted, reply>>
agentVars == <<step, turnVars>>

(* "GREETING" stands for every step before a booking: no code of the      *)
(* orchestrator tells GREETING from ASK_SERVICE and the like.             *)
Steps == {"GREETING", "CONFIRMATION", "ESCALATE", "END"}

TERMINAL_STEPS == {"ESCALATE", "END"}

(* "lookup" is any call that leaves the state alone: list_services,       *)
(* list_masters, list_slots, an unknown name, bad arguments.              *)
Tools == {"lookup", "create_booking", "escalate_to_human"}

Replies == [text : BOOLEAN, final : BOOLEAN]

LlmPhases == {"idle", "thinking", "tools", "answered", "failed", "cancelled"}

LlmAlive == llm \in {"thinking", "tools"}

AgentTypeOK ==
    /\ step \in Steps
    /\ slot \in 0..MaxBookings
    /\ bookings \in 0..MaxBookings
    /\ lost \in BOOLEAN
    /\ llm \in LlmPhases
    /\ round \in 0..MaxToolRounds
    /\ tool \in Tools \cup {"none"}
    /\ left \in 0..MaxToolsPerRound
    /\ accepted \in BOOLEAN
    /\ reply \in Replies

AgentInit ==
    /\ step = "GREETING"
    /\ slot = 0
    /\ bookings = 0
    /\ lost = FALSE
    /\ llm = "idle"
    /\ round = 0
    /\ tool = "none"
    /\ left = 0
    /\ accepted = FALSE
    /\ reply = [text |-> FALSE, final |-> FALSE]

-----------------------------------------------------------------------------
(* What the call's task does to the turn.                                  *)

StartTurn ==
    /\ llm' = "thinking"
    /\ round' = 1
    /\ tool' = "none"
    /\ left' = 0
    /\ accepted' = FALSE
    /\ UNCHANGED <<slot, bookings, lost, reply>>

(* Cancelling llm_task: _execute_tool catches Exception, not               *)
(* CancelledError, so a tool in flight is abandoned where it is.  A        *)
(* create_booking request already sent may still be accepted by the salon. *)
CancelTurn ==
    /\ llm' = "cancelled"
    /\ tool' = "none"
    /\ left' = 0
    /\ accepted' = FALSE
    /\ \/ lost' = (lost \/ accepted) /\ UNCHANGED bookings
       \/ /\ tool = "create_booking" /\ ~accepted
          /\ bookings < MaxBookings
          /\ bookings' = bookings + 1
          /\ lost' = TRUE
    /\ UNCHANGED <<slot, round, reply>>

-----------------------------------------------------------------------------
(* The task itself.                                                        *)

(* The model answers without a tool call: is_final is stop_reason ==       *)
(* "end_turn" (Anthropic) or always TRUE (OpenAI).                         *)
Answer ==
    /\ llm' = "answered"
    /\ reply' \in Replies

LlmAnswers ==
    /\ llm = "thinking"
    /\ Answer
    /\ UNCHANGED <<step, slot, bookings, lost, round, tool, left, accepted>>

LlmFails ==
    /\ llm = "thinking"
    /\ llm' = "failed"
    /\ UNCHANGED <<step, slot, bookings, lost, round, tool, left, accepted, reply>>

LlmCallsTools ==
    /\ llm = "thinking"
    /\ llm' = "tools"
    /\ tool' \in Tools
    /\ left' \in 0..(MaxToolsPerRound - 1)
    /\ UNCHANGED <<step, slot, bookings, lost, round, accepted, reply>>

(* After a tool call: the next call of the same answer (whose arguments    *)
(* may fail to parse, which ends the turn with an exception), or the next  *)
(* round, or the answer that the loop's limit cuts short.                  *)
NextToolCall ==
    /\ left > 0
    /\ left' = left - 1
    /\ \/ llm' = "tools" /\ tool' \in Tools
       \/ llm' = "failed" /\ tool' = "none"
    /\ UNCHANGED <<round, reply>>

(* Faulty variant: no limit on the rounds. *)
NextRoundUnlimited ==
    /\ left = 0
    /\ tool' = "none"
    /\ llm' = "thinking"
    /\ UNCHANGED <<round, reply, left>>

NextRound ==
    /\ left = 0
    /\ tool' = "none"
    /\ IF round < MaxToolRounds
       THEN round' = round + 1 /\ llm' = "thinking" /\ UNCHANGED reply
       ELSE Answer /\ UNCHANGED round
    /\ UNCHANGED left

ToolDone == NextToolCall \/ NextRound

Executing(t) == llm = "tools" /\ tool = t

ToolLooksUp ==
    /\ Executing("lookup")
    /\ ToolDone
    /\ UNCHANGED <<step, slot, bookings, lost, accepted>>

ToolEscalates ==
    /\ Executing("escalate_to_human")
    /\ step' = "ESCALATE"
    /\ ToolDone
    /\ UNCHANGED <<slot, bookings, lost, accepted>>

(* External: the salon's API commits the booking.                          *)
SalonAccepts ==
    /\ Executing("create_booking") /\ ~accepted
    /\ bookings < MaxBookings
    /\ bookings' = bookings + 1
    /\ accepted' = TRUE
    /\ UNCHANGED <<step, slot, lost, llm, round, tool, left, reply>>

ToolBooks ==
    /\ Executing("create_booking") /\ accepted
    /\ slot' = bookings
    /\ step' = "CONFIRMATION"
    /\ accepted' = FALSE
    /\ ToolDone
    /\ UNCHANGED <<bookings, lost>>

(* create_booking raises: the model is told {"error": ...} whether or not  *)
(* the salon had accepted the request.                                     *)
ToolBookingFails ==
    /\ Executing("create_booking")
    /\ lost' = (lost \/ accepted)
    /\ accepted' = FALSE
    /\ ToolDone
    /\ UNCHANGED <<step, slot, bookings>>

AgentNext ==
    \/ LlmAnswers \/ LlmFails \/ LlmCallsTools
    \/ ToolLooksUp \/ ToolEscalates
    \/ SalonAccepts \/ ToolBooks \/ ToolBookingFails
=============================================================================
