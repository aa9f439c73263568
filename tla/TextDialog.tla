------------------------------ MODULE TextDialog ------------------------------
(***************************************************************************)
(* One dialog of POST /call/text: Orchestrator.handle_text_message and the *)
(* turns it runs, for requests that may overlap, over a state store that   *)
(* hands out copies (Redis) or the very object it holds (memory), with the *)
(* agent's tools behind BookingApi.                                        *)
(*                                                                         *)
(* A request of the client is an element of Calls, and so is the one call  *)
(* of a connector its turn may make (the rounds of a turn are the subject  *)
(* of AgentTurn).  What happens between two awaits is one action.          *)
(***************************************************************************)
EXTENDS BookingApi, SequencesExt

CONSTANTS
    MaxHistory,     \* Settings.max_history_messages
    NoCall          \* not a request

ASSUME DialogAssumption == MaxHistory \in Nat \ {0} /\ NoCall \notin Calls

VARIABLES
    store,      \* "redis" or "memory"
    agent,      \* "llm" (Anthropic, OpenAI) or "mock"
    object,     \* the ConversationState in the store
    present,    \* the store has it (it is saved, and not expired)
    view,       \* the copy a request works on (redis), dropped when it is over
    pc,         \* where a request is
    status,     \* the step a request was answered with
    overlapped  \* history: requests that were in progress together

dialogVars == <<store, agent, object, present, view, pc, status, overlapped>>
vars == <<apiVars, dialogVars>>

Steps == {"GREETING", "ASK_SERVICE", "CONFIRMATION", "ESCALATE", "END"}
TERMINAL_STEPS == {"ESCALATE", "END"}

Messages == [role : {"user", "assistant"}, of : Calls]
States == [step : Steps, slot : Calls \cup {NoCall}, messages : Seq(Messages)]

Fresh == [step |-> "GREETING", slot |-> NoCall, messages |-> <<>>]

InProgress == {"appended", "thinking", "tool", "saving"}
Busy == {r \in Calls : pc[r] \in InProgress}

TypeOK ==
    /\ ApiTypeOK
    /\ store \in {"redis", "memory"}
    /\ agent \in {"llm", "mock"}
    /\ object \in States
    /\ present \in BOOLEAN
    /\ view \in [Calls -> States]
    /\ pc \in [Calls -> InProgress \cup {"idle", "answered", "dismissed", "failed"}]
    /\ status \in [Calls -> Steps \cup {"none"}]
    /\ overlapped \subseteq Calls

(* One deployment: the store, the agent and the connector it is set up     *)
(* with.                                                                   *)
Init ==
    /\ ApiInit
    /\ store \in {"redis", "memory"}
    /\ agent \in {"llm", "mock"}
    /\ agent = "mock" => connector = "mock"
    /\ object = Fresh
    /\ present = FALSE
    /\ view = [r \in Calls |-> Fresh]
    /\ pc = [r \in Calls |-> "idle"]
    /\ status = [r \in Calls |-> "none"]
    /\ overlapped = {}

-----------------------------------------------------------------------------
(* The state a request has in its hands, and what it does to it.           *)

Own(r) == IF store = "memory" THEN object ELSE view[r]

Put(r, s) ==
    IF store = "memory"
    THEN object' = s /\ UNCHANGED view
    ELSE view' = [view EXCEPT ![r] = s] /\ UNCHANGED object

Say(s, role, r) ==
    [s EXCEPT !.messages = Append(@, [role |-> role, of |-> r])]

Goto(r, label) == pc' = [pc EXCEPT ![r] = label]

Overlap(them) ==
    overlapped' = IF Busy = {} THEN overlapped ELSE overlapped \cup them

(* Faulty variant: the last entries of the history but for one. *)
PromptTrimmed(s, r) ==
    LET n == Len(s.messages)
        keep == IF n < MaxHistory THEN n ELSE MaxHistory - 1
    IN Append(SubSeq(s.messages, n - keep + 1, n), [role |-> "user", of |-> r])

(* What the model is sent: _text_history, then the user's message, which   *)
(* _run_turn has already put at the end of the history.                    *)
Prompt(s, r) ==
    LET n == Len(s.messages)
        keep == IF n < MaxHistory THEN n ELSE MaxHistory
    IN Append(SubSeq(s.messages, n - keep + 1, n), [role |-> "user", of |-> r])

-----------------------------------------------------------------------------
(* handle_text_message.                                                    *)

(* Without a call_id a dialog is begun; it gets known to the client, and   *)
(* to the store, with the answer.                                          *)
Create(r) ==
    /\ pc[r] = "idle" /\ Busy = {} /\ \A q \in Calls : pc[q] # "answered"
    /\ Put(r, Say(Fresh, "user", r))
    /\ Goto(r, "appended")
    /\ UNCHANGED <<apiVars, store, agent, present, status, overlapped>>

Known == \E q \in Calls : pc[q] = "answered"

(* Faulty variant: a dialog that is over takes messages again. *)
ReceiveAlways(r) ==
    /\ pc[r] = "idle" /\ Known
    /\ \/ /\ ~present
          /\ Goto(r, "failed")
          /\ UNCHANGED <<object, view, status, overlapped>>
       \/ /\ present
          /\ Put(r, Say(object, "user", r))
          /\ Overlap(Busy \cup {r})
          /\ Goto(r, "appended")
          /\ UNCHANGED status
    /\ UNCHANGED <<apiVars, store, agent, present>>

(* state_store.get: an unknown or expired call_id is a 404, a dialog that  *)
(* is over is answered at once.  Otherwise _run_turn begins.               *)
Receive(r) ==
    /\ pc[r] = "idle" /\ Known
    /\ \/ /\ ~present
          /\ Goto(r, "failed")
          /\ UNCHANGED <<object, view, status, overlapped>>
       \/ /\ present /\ object.step \in TERMINAL_STEPS
          /\ Goto(r, "dismissed")
          /\ status' = [status EXCEPT ![r] = object.step]
          /\ Overlap({r})
          /\ UNCHANGED <<object, view>>
       \/ /\ present /\ object.step \notin TERMINAL_STEPS
          /\ Put(r, Say(object, "user", r))
          /\ Overlap(Busy \cup {r})
          /\ Goto(r, "appended")
          /\ UNCHANGED status
    /\ UNCHANGED <<apiVars, store, agent, present>>

(* MockLLMAgent.run_turn: it awaits nothing, a keyword machine that can    *)
(* escalate and leaves GREETING; no step it sets leads to ask_date.        *)
MockTurn(r) ==
    /\ pc[r] = "appended" /\ agent = "mock"
    /\ \E asksForHuman \in BOOLEAN :
          LET s == Own(r)
              next == CASE asksForHuman -> "ESCALATE"
                        [] ~asksForHuman /\ s.step = "GREETING" -> "ASK_SERVICE"
                        [] OTHER -> s.step
          IN Put(r, Say([s EXCEPT !.step = next], "assistant", r))
    /\ Goto(r, "saving")
    /\ UNCHANGED <<apiVars, store, agent, present, status, overlapped>>

(* llm_task starts: run_turn reads the history and calls the model.        *)
LlmStarts(r) ==
    /\ pc[r] = "appended" /\ agent = "llm"
    /\ Goto(r, "thinking")
    /\ UNCHANGED <<apiVars, store, agent, object, present, view, status, overlapped>>

LlmEscalates(r) ==
    /\ pc[r] = "thinking" /\ Own(r).step # "ESCALATE"
    /\ Put(r, [Own(r) EXCEPT !.step = "ESCALATE"])
    /\ UNCHANGED <<apiVars, store, agent, present, pc, status, overlapped>>

LlmCallsConnector(r) ==
    /\ pc[r] = "thinking"
    /\ \E e \in Endpoints : Begin(r, e)
    /\ Goto(r, "tool")
    /\ UNCHANGED <<store, agent, object, present, view, status, overlapped>>

(* _execute_tool: any Booking that was returned is a booking.              *)
ToolReturns(r) ==
    /\ pc[r] = "tool" /\ http[r] = "over"
    /\ IF told[r] \in {"confirmed", "unconfirmed"}
       THEN Put(r, [Own(r) EXCEPT !.slot = r, !.step = "CONFIRMATION"])
       ELSE UNCHANGED <<object, view>>
    /\ Goto(r, "thinking")
    /\ UNCHANGED <<apiVars, store, agent, present, status, overlapped>>

(* The end of _run_turn with an AgentResponse.                             *)
LlmAnswers(r) ==
    /\ pc[r] = "thinking"
    /\ \E text, final \in BOOLEAN :
          LET s == IF text THEN Say(Own(r), "assistant", r) ELSE Own(r)
          IN Put(r, IF final /\ s.step = "CONFIRMATION"
                    THEN [s EXCEPT !.step = "END"] ELSE s)
    /\ Goto(r, "saving")
    /\ UNCHANGED <<apiVars, store, agent, present, status, overlapped>>

(* Faulty variant: a failed turn is answered without a save. *)
LlmFailsUnsaved(r) ==
    /\ pc[r] = "thinking"
    /\ Put(r, [Own(r) EXCEPT !.step = "END"])
    /\ Goto(r, "answered")
    /\ status' = [status EXCEPT ![r] = "END"]
    /\ UNCHANGED <<apiVars, store, agent, present, overlapped>>

LlmFails(r) ==
    /\ pc[r] = "thinking"
    /\ Put(r, [Own(r) EXCEPT !.step = "END"])
    /\ Goto(r, "saving")
    /\ UNCHANGED <<apiVars, store, agent, present, status, overlapped>>

Save(r) ==
    /\ pc[r] = "saving"
    /\ object' = Own(r)
    /\ present' = TRUE
    /\ status' = [status EXCEPT ![r] = Own(r).step]
    /\ view' = [view EXCEPT ![r] = Fresh]
    /\ Goto(r, "answered")
    /\ UNCHANGED <<apiVars, store, agent, overlapped>>

(* The write raises, and may have reached Redis all the same: a 500.       *)
SaveFails(r) ==
    /\ pc[r] = "saving" /\ store = "redis"
    /\ \/ UNCHANGED <<object, present>>
       \/ object' = view[r] /\ present' = TRUE
    /\ view' = [view EXCEPT ![r] = Fresh]
    /\ Goto(r, "failed")
    /\ UNCHANGED <<apiVars, store, agent, status, overlapped>>

(* state_ttl_seconds have passed since the last save.                      *)
Expire ==
    /\ present
    /\ present' = FALSE
    /\ UNCHANGED <<apiVars, store, agent, object, view, pc, status, overlapped>>

-----------------------------------------------------------------------------
ApiStep(r) ==
    /\ ConnectStep(r) \/ AnswerStep(r) \/ SalonReceives(r)
    /\ UNCHANGED dialogVars

Turn(r) ==
    \/ MockTurn(r) \/ LlmStarts(r) \/ LlmCallsConnector(r) \/ ToolReturns(r)
    \/ LlmAnswers(r) \/ LlmFails(r)

Next ==
    \/ Expire
    \/ \E r \in Calls :
          \/ Create(r) \/ Receive(r) \/ Turn(r) \/ LlmEscalates(r)
          \/ Save(r) \/ SaveFails(r) \/ ApiStep(r)

(* The event loop runs the tasks that can run; the clients of the model    *)
(* and of the salon have timeouts.  Nobody has to send a request, a model  *)
(* need not call a tool, a state need not expire, the salon need not       *)
(* answer.                                                                 *)
Fairness == \A r \in Calls :
    /\ WF_vars(Turn(r))
    /\ WF_vars(Save(r))
    /\ WF_vars((ConnectStep(r) \/ AnswerStep(r)) /\ UNCHANGED dialogVars)

Spec == Init /\ [][Next]_vars /\ Fairness

-----------------------------------------------------------------------------
(* Requests whose work cannot have been overwritten: with copies, those    *)
(* that overlapped with no other; with one shared object, all of them.     *)
Apart == IF store = "memory" THEN Calls ELSE Calls \ overlapped

(* A message that was answered, and the booking it led to, is still part   *)
(* of the dialog, whatever requests, failures of the store and expiries    *)
(* come later (handle_text_message reads, works and writes back).          *)
AnsweredIsKept == \A r \in Apart :
    pc[r] = "answered" /\ present =>
        /\ \E i \in DOMAIN object.messages : object.messages[i] = [role |-> "user", of |-> r]
        /\ told[r] = "confirmed" => object.slot # NoCall

(* "step: escalate, the dialog is over" (README of the repository): once   *)
(* a client was told that the dialog is over, no later request reopens it. *)
(* Requests that overlap can, with either store.                           *)
OverStaysOver == \A r \in Calls \ overlapped :
    status[r] \in TERMINAL_STEPS /\ present =>
        object.step \in TERMINAL_STEPS

(* The model sees the user's message last and, before it, as much of the   *)
(* dialog as max_history_messages leaves room for: one entry less than it  *)
(* says, because the message is in the history already.                    *)
PromptHasContext == \A r \in Apart :
    pc[r] = "appended" /\ agent = "llm" =>
        LET dialog == Front(Own(r).messages)
            seen == Prompt(Own(r), r)
            room == IF Len(dialog) < MaxHistory THEN Len(dialog) ELSE MaxHistory - 1
        IN /\ Last(seen) = [role |-> "user", of |-> r]
           /\ IsSuffix(SubSeq(dialog, Len(dialog) - room + 1, Len(dialog)),
                       Front(Front(seen)))

(* Every request that is accepted is answered, or fails: no wait on the    *)
(* salon, no retry and no tool of the turn keeps it for ever.              *)
RequestsEnd == \A r \in Calls :
    pc[r] = "appended" ~> pc[r] \in {"answered", "failed"}
=============================================================================
