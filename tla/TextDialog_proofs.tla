--------------------------- MODULE TextDialog_proofs ---------------------------
(***************************************************************************)
(* Proofs about TextDialog, for any number of requests and any length of   *)
(* the history: the dialog uses the connectors as BookingApi lets them be  *)
(* used, so that what is proved of them holds in a dialog; its types; and  *)
(* what a client may rely on, whatever requests and failures come later.   *)
(***************************************************************************)
EXTENDS TextDialog, BookingApi_proofs, SequenceTheorems

USE DialogAssumption DEF DialogAssumption

(* A turn calls a connector once, its task then waits for it.              *)
LEMMA DialogStepIsApiStep == [Next]_vars => [ApiNext]_apiVars
  <1> SUFFICES ASSUME [Next]_vars PROVE [ApiNext]_apiVars
    OBVIOUS
  <1>1. CASE UNCHANGED vars
    BY <1>1 DEF vars
  <1>2. CASE Expire
    BY <1>2 DEF Expire
  <1>3. ASSUME NEW r \in Calls, LlmCallsConnector(r) PROVE ApiNext
    BY <1>3 DEF LlmCallsConnector, ApiNext
  <1>4. ASSUME NEW r \in Calls, ApiStep(r) PROVE ApiNext
    BY <1>4 DEF ApiStep, ApiNext
  <1>5. ASSUME NEW r \in Calls,
               \/ Create(r) \/ Receive(r) \/ MockTurn(r) \/ LlmStarts(r) \/ ToolReturns(r)
               \/ LlmAnswers(r) \/ LlmFails(r) \/ LlmEscalates(r) \/ Save(r) \/ SaveFails(r)
        PROVE  UNCHANGED apiVars
    BY <1>5 DEF Create, Receive, MockTurn, LlmStarts, ToolReturns, LlmAnswers, LlmFails,
                LlmEscalates, Save, SaveFails
  <1> QED BY <1>1, <1>2, <1>3, <1>4, <1>5 DEF Next, Turn

(* However the requests of a dialog interleave, fail and are repeated, the *)
(* salon books at most once for one create_booking of the model, and the   *)
(* model is told of no booking the salon does not hold.                    *)
THEOREM DialogKeepsContract == Spec => KeepsContract
  <1>1. Init => ApiInit
    BY DEF Init
  <1>2. Spec => ApiSpec
    BY <1>1, DialogStepIsApiStep, PTL DEF Spec, ApiSpec
  <1> QED BY <1>2, ApiKeepsContract, PTL

-----------------------------------------------------------------------------
(* What the helpers do.                                                    *)

(* The message of request r is part of the dialog s; so is its booking.    *)
Has(r, s) == \E i \in DOMAIN s.messages : s.messages[i] = [role |-> "user", of |-> r]
Kept(r, s) == Has(r, s) /\ (told[r] = "confirmed" => s.slot # NoCall)

(* From s to t no message and no booking is lost.                          *)
Grows(s, t) == /\ \A r \in Calls : Has(r, s) => Has(r, t)
               /\ s.slot # NoCall => t.slot # NoCall

(* The parts of TypeOK that are about this module.                         *)
StateOK == object \in States /\ view \in [Calls -> States]
LabelOK ==
    /\ store \in {"redis", "memory"}
    /\ agent \in {"llm", "mock"}
    /\ pc \in [Calls -> InProgress \cup {"idle", "answered", "dismissed", "failed"}]
    /\ status \in [Calls -> Steps \cup {"none"}]
    /\ overlapped \subseteq Calls

(* TypeOK is the types of BookingApi and those of this module.             *)
LEMMA TypeParts == TypeOK <=> ApiTypeOK /\ StateOK /\ LabelOK /\ present \in BOOLEAN
  BY Zenon DEF TypeOK, StateOK, LabelOK

(* A request works on a state of the dialog, and hands one on.             *)
LEMMA OwnState ==
    ASSUME StateOK, NEW r \in Calls
    PROVE  Own(r) \in States
  BY DEF StateOK, Own

(* A request writes its own copy, or the object that all of them share.    *)
LEMMA PutState ==
    ASSUME StateOK, NEW r \in Calls, NEW s \in States, Put(r, s), UNCHANGED store
    PROVE  /\ StateOK'
           /\ Own(r)' = s
           /\ \A q \in Calls : q # r => Own(q)' = IF store = "memory" THEN s ELSE Own(q)
           /\ object' = IF store = "memory" THEN s ELSE object
  BY DEF StateOK, Own, Put

(* A message is added at the end, and nothing else changes.                *)
LEMMA SaidState ==
    ASSUME NEW s \in States, NEW role \in {"user", "assistant"}, NEW r \in Calls
    PROVE  /\ Say(s, role, r) \in States
           /\ Say(s, role, r).step = s.step /\ Say(s, role, r).slot = s.slot
           /\ Grows(s, Say(s, role, r))
           /\ role = "user" => Has(r, Say(s, role, r))
  <1> DEFINE m == [role |-> role, of |-> r]
             t == Say(s, role, r)
  <1>1. s.messages \in Seq(Messages) /\ m \in Messages
    BY DEF States, Messages
  <1> DEFINE longer == Append(s.messages, m)
  <1>2. longer \in Seq(Messages)
    BY <1>1
  <1>3. t = [s EXCEPT !.messages = longer]
    BY DEF Say
  <1> HIDE DEF longer
  <1>4. t \in States /\ t.messages = longer
    BY <1>2, <1>3 DEF States
  <1> USE DEF longer
  <1>5. /\ \A i \in DOMAIN s.messages : i \in DOMAIN t.messages /\ t.messages[i] = s.messages[i]
        /\ Len(t.messages) \in DOMAIN t.messages /\ t.messages[Len(t.messages)] = m
    BY <1>1, <1>4
  <1>6. t.slot = s.slot /\ t.step = s.step
    BY <1>3 DEF States
  <1> HIDE DEF t
  <1> QED BY <1>4, <1>5, <1>6 DEF Grows, Has, t

(* A step set, a slot set: the messages stay.                              *)
LEMMA MarkedState ==
    ASSUME NEW s \in States, NEW next \in Steps, NEW r \in Calls
    PROVE  /\ [s EXCEPT !.step = next] \in States /\ Grows(s, [s EXCEPT !.step = next])
           /\ [s EXCEPT !.step = next].step = next
           /\ [s EXCEPT !.slot = r, !.step = next] \in States
           /\ Grows(s, [s EXCEPT !.slot = r, !.step = next])
           /\ [s EXCEPT !.slot = r, !.step = next].slot # NoCall
  BY DEF States, Grows, Has

(* What grows keeps what it has, and growing twice is growing.             *)
LEMMA GrowsKeeps ==
    ASSUME NEW s, NEW t, Grows(s, t)
    PROVE  /\ \A r \in Calls : Kept(r, s) => Kept(r, t)
           /\ \A u : Grows(t, u) => Grows(s, u)
           /\ Grows(s, s)
  BY DEF Grows, Kept

-----------------------------------------------------------------------------
(* The types.                                                              *)

(* What a request that is working does to the dialog before its answer is  *)
(* saved: it leaves a state in which nothing is lost.                      *)
Work(r) == MockTurn(r) \/ LlmStarts(r) \/ LlmEscalates(r) \/ ToolReturns(r) \/ LlmAnswers(r) \/ LlmFails(r)

(* A turn adds to the dialog it works on, and books where its tool call    *)
(* was confirmed.                                                          *)
LEMMA WorkState ==
    ASSUME StateOK, LabelOK, NEW r \in Calls, Work(r)
    PROVE  /\ pc[r] \in {"appended", "thinking", "tool"}
           /\ pc[r] = "tool" => http[r] = "over"
           /\ pc' = [pc EXCEPT ![r] = pc'[r]] /\ pc'[r] \in {"thinking", "saving"}
           /\ UNCHANGED <<apiVars, store, agent, present, status, overlapped>>
           /\ \E s \in States : /\ Put(r, s) /\ Grows(Own(r), s)
                                /\ pc[r] = "tool" /\ told[r] = "confirmed" => s.slot # NoCall
  <1> DEFINE Ends(s) == /\ Put(r, s) /\ Grows(Own(r), s)
                        /\ pc[r] = "tool" /\ told[r] = "confirmed" => s.slot # NoCall
             Q == /\ pc[r] \in {"appended", "thinking", "tool"}
                  /\ pc[r] = "tool" => http[r] = "over"
                  /\ pc' = [pc EXCEPT ![r] = pc'[r]] /\ pc'[r] \in {"thinking", "saving"}
                  /\ UNCHANGED <<apiVars, store, agent, present, status, overlapped>>
                  /\ \E s \in States : Ends(s)
  <1>1. Own(r) \in States /\ Grows(Own(r), Own(r))
    BY OwnState DEF Grows
  <1>2. UNCHANGED <<object, view>> => Put(r, Own(r))
    BY DEF StateOK, Put, Own
  <1>3. pc \in [Calls -> InProgress \cup {"idle", "answered", "dismissed", "failed"}]
    BY DEF LabelOK
  <1>4. CASE MockTurn(r)
    <2>1. PICK asksForHuman \in BOOLEAN :
              Put(r, Say([Own(r) EXCEPT !.step =
                              CASE asksForHuman -> "ESCALATE"
                                [] ~asksForHuman /\ Own(r).step = "GREETING" -> "ASK_SERVICE"
                                [] OTHER -> Own(r).step], "assistant", r))
      BY <1>4, Zenon DEF MockTurn
    <2> DEFINE next == CASE asksForHuman -> "ESCALATE"
                         [] ~asksForHuman /\ Own(r).step = "GREETING" -> "ASK_SERVICE"
                         [] OTHER -> Own(r).step
               t == [Own(r) EXCEPT !.step = next]
    <2>2. next \in Steps
      BY <1>1 DEF States, Steps
    <2>3. t \in States /\ Grows(Own(r), t)
      BY <1>1, <2>2, MarkedState
    <2>4. Say(t, "assistant", r) \in States /\ Grows(t, Say(t, "assistant", r))
      BY <2>3, SaidState
    <2>5. Put(r, Say(t, "assistant", r))
      BY <2>1
    <2>6. Grows(Own(r), Say(t, "assistant", r))
      BY <2>3, <2>4, GrowsKeeps
    <2>7. pc[r] = "appended" /\ pc' = [pc EXCEPT ![r] = "saving"]
          /\ UNCHANGED <<apiVars, store, agent, present, status, overlapped>>
      BY <1>4, Zenon DEF MockTurn, Goto
    <2>8. Ends(Say(t, "assistant", r))
      BY <2>5, <2>6, <2>7
    <2> QED BY <1>3, <2>4, <2>7, <2>8
  <1>5. CASE LlmStarts(r)
    <2>1. pc[r] = "appended" /\ pc' = [pc EXCEPT ![r] = "thinking"] /\ UNCHANGED <<object, view>>
          /\ UNCHANGED <<apiVars, store, agent, present, status, overlapped>>
      BY <1>5, Zenon DEF LlmStarts, Goto
    <2> QED BY <1>1, <1>2, <1>3, <2>1
  <1>6. CASE LlmEscalates(r)
    <2>1. pc[r] = "thinking" /\ pc' = pc /\ Put(r, [Own(r) EXCEPT !.step = "ESCALATE"])
          /\ UNCHANGED <<apiVars, store, agent, present, status, overlapped>>
      BY <1>6, Zenon DEF LlmEscalates
    <2>2. "ESCALATE" \in Steps
      BY DEF Steps
    <2> QED BY <1>1, <1>3, <2>1, <2>2, MarkedState
  <1>7. CASE ToolReturns(r)
    <2>1. /\ pc[r] = "tool" /\ http[r] = "over" /\ pc' = [pc EXCEPT ![r] = "thinking"]
          /\ IF told[r] \in {"confirmed", "unconfirmed"}
             THEN Put(r, [Own(r) EXCEPT !.slot = r, !.step = "CONFIRMATION"])
             ELSE UNCHANGED <<object, view>>
          /\ UNCHANGED <<apiVars, store, agent, present, status, overlapped>>
      BY <1>7, Zenon DEF ToolReturns, Goto
    <2>2. "CONFIRMATION" \in Steps
      BY DEF Steps
    <2>3. \E s \in States : Ends(s)
      <3>1. CASE told[r] \in {"confirmed", "unconfirmed"}
        <4> DEFINE s == [Own(r) EXCEPT !.slot = r, !.step = "CONFIRMATION"]
        <4>1. s \in States /\ Grows(Own(r), s) /\ s.slot # NoCall
          BY <1>1, <2>2, MarkedState, ZenonT(40)
        <4>2. Put(r, s)
          BY <2>1, <3>1
        <4> HIDE DEF s
        <4> QED BY <4>1, <4>2
      <3>2. CASE told[r] \notin {"confirmed", "unconfirmed"}
        BY <1>1, <1>2, <2>1, <3>2
      <3> QED BY <3>1, <3>2
    <2> QED BY <1>3, <2>1, <2>3
  <1>8. CASE LlmAnswers(r)
    <2>1. PICK text \in BOOLEAN, final \in BOOLEAN :
              LET s == IF text THEN Say(Own(r), "assistant", r) ELSE Own(r)
              IN  Put(r, IF final /\ s.step = "CONFIRMATION" THEN [s EXCEPT !.step = "END"] ELSE s)
      BY <1>8, Zenon DEF LlmAnswers
    <2> DEFINE s == IF text THEN Say(Own(r), "assistant", r) ELSE Own(r)
               t == IF final /\ s.step = "CONFIRMATION" THEN [s EXCEPT !.step = "END"] ELSE s
    <2>2. s \in States /\ Grows(Own(r), s)
      BY <1>1, SaidState
    <2>3. "END" \in Steps
      BY DEF Steps
    <2>4. [s EXCEPT !.step = "END"] \in States /\ Grows(s, [s EXCEPT !.step = "END"])
      BY <2>2, <2>3, MarkedState
    <2>5. t \in States /\ Grows(Own(r), t)
      BY <2>2, <2>4, GrowsKeeps
    <2>6. Put(r, t)
      BY <2>1
    <2>7. pc[r] = "thinking" /\ pc' = [pc EXCEPT ![r] = "saving"]
          /\ UNCHANGED <<apiVars, store, agent, present, status, overlapped>>
      BY <1>8, Zenon DEF LlmAnswers, Goto
    <2>8. Ends(t)
      BY <2>5, <2>6, <2>7
    <2> QED BY <1>3, <2>5, <2>7, <2>8
  <1>9. CASE LlmFails(r)
    <2>1. pc[r] = "thinking" /\ pc' = [pc EXCEPT ![r] = "saving"]
          /\ Put(r, [Own(r) EXCEPT !.step = "END"])
          /\ UNCHANGED <<apiVars, store, agent, present, status, overlapped>>
      BY <1>9, Zenon DEF LlmFails, Goto
    <2>2. "END" \in Steps
      BY DEF Steps
    <2> QED BY <1>1, <1>3, <2>1, <2>2, MarkedState
  <1> QED BY <1>4, <1>5, <1>6, <1>7, <1>8, <1>9 DEF Work

(* A request comes, its state is saved, or the save fails.                 *)
Comes(r) == Create(r) \/ Receive(r)
Saves(r) == Save(r) \/ SaveFails(r)

(* A turn that waits for a connector, and the connector at work: the       *)
(* dialog stays as it is.                                                  *)
Calling(r) == LlmCallsConnector(r) \/ ApiStep(r)

(* What the proofs split Next into.                                        *)
LEMMA NextSteps == Next <=> Expire \/ \E r \in Calls : Comes(r) \/ Work(r) \/ Calling(r) \/ Saves(r)
  BY Zenon DEF Next, Turn, Work, Comes, Saves, Calling

(* What a request begins with: an empty dialog, or the one in the store.   *)
LEMMA ComesState ==
    ASSUME StateOK, LabelOK, NEW r \in Calls, Comes(r)
    PROVE  /\ pc[r] = "idle" /\ UNCHANGED <<apiVars, store, agent, present>>
           /\ \/ /\ pc' = [pc EXCEPT ![r] = "appended"] /\ UNCHANGED status
                 /\ \E s \in States : /\ Put(r, s) /\ Has(r, s)
                                      /\ ~Known \/ Grows(object, s)
                 /\ \/ Busy = {} /\ (~Known \/ object.step \notin TERMINAL_STEPS) /\ overlapped' = overlapped
                    \/ Known /\ object.step \notin TERMINAL_STEPS /\ overlapped' = overlapped \cup Busy \cup {r}
              \/ /\ UNCHANGED <<object, view, status, overlapped>> /\ pc' = [pc EXCEPT ![r] = "failed"]
              \/ /\ UNCHANGED <<object, view>> /\ pc' = [pc EXCEPT ![r] = "dismissed"]
                 /\ Known /\ object.step \in TERMINAL_STEPS /\ status' = [status EXCEPT ![r] = object.step]
                 /\ overlapped' = IF Busy = {} THEN overlapped ELSE overlapped \cup {r}
  <1>1. CASE Create(r)
    <2>1. /\ pc[r] = "idle" /\ Busy = {} /\ ~Known /\ Put(r, Say(Fresh, "user", r))
          /\ pc' = [pc EXCEPT ![r] = "appended"]
          /\ UNCHANGED <<apiVars, store, agent, present, status, overlapped>>
      BY <1>1, Zenon DEF Create, Goto, Known
    <2>2. Fresh \in States
      <3>1. <<>> \in Seq(Messages)
        OBVIOUS
      <3> QED BY <3>1 DEF Fresh, States, Steps
    <2>3. Say(Fresh, "user", r) \in States /\ Has(r, Say(Fresh, "user", r))
      BY <2>2, SaidState
    <2> QED BY <2>1, <2>3
  <1>2. CASE Receive(r)
    <2>1. object \in States
      BY DEF StateOK
    <2>2. /\ Say(object, "user", r) \in States /\ Has(r, Say(object, "user", r))
          /\ Grows(object, Say(object, "user", r))
      BY <2>1, SaidState
    <2>3. pc[r] = "idle" /\ Known /\ UNCHANGED <<apiVars, store, agent, present>>
      BY <1>2, Zenon DEF Receive
    <2>4. \/ /\ UNCHANGED <<object, view, status, overlapped>> /\ pc' = [pc EXCEPT ![r] = "failed"]
          \/ /\ UNCHANGED <<object, view>> /\ pc' = [pc EXCEPT ![r] = "dismissed"]
             /\ object.step \in TERMINAL_STEPS /\ status' = [status EXCEPT ![r] = object.step]
             /\ overlapped' = IF Busy = {} THEN overlapped ELSE overlapped \cup {r}
          \/ /\ object.step \notin TERMINAL_STEPS /\ Put(r, Say(object, "user", r))
             /\ overlapped' = IF Busy = {} THEN overlapped ELSE overlapped \cup (Busy \cup {r})
             /\ pc' = [pc EXCEPT ![r] = "appended"] /\ UNCHANGED status
      BY <1>2, Zenon DEF Receive, Goto, Overlap
    <2> QED BY <2>2, <2>3, <2>4
  <1> QED BY <1>1, <1>2 DEF Comes

(* What is written back is what the request has worked on.                 *)
LEMMA SavesState ==
    ASSUME StateOK, LabelOK, NEW r \in Calls, Saves(r)
    PROVE  /\ StateOK' /\ pc[r] = "saving" /\ UNCHANGED <<apiVars, store, agent, overlapped>>
           /\ object' = object \/ object' = Own(r)
           /\ \A q \in Calls : q # r /\ store = "redis" => Own(q)' = Own(q)
           /\ \A q \in Calls : store = "memory" => Own(q)' = Own(q)
           /\ \/ /\ pc' = [pc EXCEPT ![r] = "answered"] /\ object' = Own(r)
                 /\ status' = [status EXCEPT ![r] = Own(r).step]
              \/ pc' = [pc EXCEPT ![r] = "failed"] /\ UNCHANGED status
  <1>1. Own(r) \in States /\ Fresh \in States
    <2>1. <<>> \in Seq(Messages)
      OBVIOUS
    <2>2. Fresh \in States
      BY <2>1 DEF Fresh, States, Steps
    <2> QED BY <2>2, OwnState
  <1>2. CASE Save(r)
    <2>1. /\ pc[r] = "saving" /\ object' = Own(r) /\ view' = [view EXCEPT ![r] = Fresh]
          /\ status' = [status EXCEPT ![r] = Own(r).step] /\ pc' = [pc EXCEPT ![r] = "answered"]
          /\ UNCHANGED <<apiVars, store, agent, overlapped>>
      BY <1>2, Zenon DEF Save, Goto
    <2> HIDE DEF Fresh
    <2> QED BY <1>1, <2>1 DEF StateOK, Own
  <1>3. CASE SaveFails(r)
    <2>1. /\ pc[r] = "saving" /\ store = "redis" /\ (object' = object \/ object' = view[r])
          /\ view' = [view EXCEPT ![r] = Fresh] /\ pc' = [pc EXCEPT ![r] = "failed"]
          /\ UNCHANGED <<apiVars, store, agent, status, overlapped>>
      BY <1>3, Zenon DEF SaveFails, Goto
    <2> QED BY <1>1, <2>1 DEF StateOK, Own
  <1> QED BY <1>2, <1>3 DEF Saves

(* While a connector is called nothing of the dialog changes but the label *)
(* of the request, which waits for the answer.                             *)
LEMMA CallingState ==
    ASSUME LabelOK, IInv, NEW r \in Calls, Calling(r)
    PROVE  /\ UNCHANGED <<store, agent, object, present, view, status, overlapped>>
           /\ \A q \in Calls : q # r => http'[q] = http[q] /\ told'[q] = told[q]
           /\ \/ http[r] = "idle" /\ pc[r] = "thinking" /\ pc' = [pc EXCEPT ![r] = "tool"]
              \/ http[r] \notin {"idle", "over"} /\ pc' = pc
              \/ UNCHANGED <<http, told, pc>>
  <1>1. CASE LlmCallsConnector(r)
    <2>1. PICK e \in Endpoints : Begin(r, e)
      BY <1>1, Zenon DEF LlmCallsConnector
    <2>2. UNCHANGED <<store, agent, object, present, view, status, overlapped>> /\ pc[r] = "thinking"
          /\ pc' = [pc EXCEPT ![r] = "tool"]
      BY <1>1, Zenon DEF LlmCallsConnector, Goto
    <2>3. http[r] = "idle" /\ \A q \in Calls : q # r => http'[q] = http[q] /\ told'[q] = told[q]
      BY <2>1 DEF Begin, MockCall, Call, Return, IInv, ApiTypeOK
    <2> QED BY <2>2, <2>3
  <1>2. CASE ApiStep(r)
    <2>1. UNCHANGED dialogVars /\ (ConnectStep(r) \/ AnswerStep(r) \/ SalonReceives(r))
      BY <1>2, Zenon DEF ApiStep
    <2>2. CASE ConnectStep(r) \/ AnswerStep(r)
      <3>1. http[r] \notin {"idle", "over"}
        BY <2>2 DEF ConnectStep, AnswerStep, ConnectRefused, Retry, FailsUnsent, Send, TimesOut, Respond
      <3>2. \A q \in Calls : q # r => http'[q] = http[q] /\ told'[q] = told[q]
        BY <2>2 DEF ConnectStep, AnswerStep, ConnectRefused, Retry, FailsUnsent, Send, TimesOut, Respond,
                    Return, IInv, ApiTypeOK
      <3> QED BY <2>1, <3>1, <3>2 DEF dialogVars
    <2>3. CASE SalonReceives(r)
      <3>1. UNCHANGED <<http, told>>
        BY <2>3, Zenon DEF SalonReceives
      <3> QED BY <2>1, <3>1 DEF dialogVars
    <2> QED BY <2>1, <2>2, <2>3
  <1> QED BY <1>1, <1>2 DEF Calling

(* Every step keeps the types.                                             *)
LEMMA TypeStep ==
    ASSUME TypeOK, IInv, [Next]_vars
    PROVE  TypeOK'
  <1> USE DEF TERMINAL_STEPS
  <1>0. StateOK /\ LabelOK /\ present \in BOOLEAN
    BY TypeParts
  <1>1. ApiTypeOK'
    BY DialogStepIsApiStep, ApiStepInv DEF IInv
  <1>2. present' \in BOOLEAN
    <2>1. CASE UNCHANGED vars
      BY <1>0, <2>1, Zenon DEF vars, dialogVars
    <2>2. ASSUME NEW r \in Calls, Comes(r) \/ Work(r) \/ Calling(r) \/ Saves(r) PROVE present' \in BOOLEAN
      BY <1>0, <2>2, Zenon DEF Comes, Create, Receive, Work, MockTurn, LlmStarts, LlmEscalates, ToolReturns,
         LlmAnswers, LlmFails, Calling, LlmCallsConnector, ApiStep, dialogVars, Saves, Save, SaveFails
    <2>3. CASE Expire
      BY <2>3, Zenon DEF Expire
    <2> QED BY <2>1, <2>2, <2>3, NextSteps
  <1> DEFINE Q == StateOK' /\ LabelOK'
  <1>3. ASSUME NEW r \in Calls, Comes(r) PROVE Q
    <2>1. StateOK'
      BY <1>0, <1>3, ComesState, PutState DEF StateOK
    <2>2. object.step \in Steps
      BY <1>0 DEF StateOK, States
    <2>3. LabelOK'
      BY <1>0, <1>3, <2>2, ComesState DEF LabelOK, InProgress, Busy
    <2> QED BY <2>1, <2>3
  <1>4. ASSUME NEW r \in Calls, Work(r) PROVE Q
    <2>1. StateOK'
      BY <1>0, <1>4, WorkState, PutState
    <2>2. LabelOK'
      BY <1>0, <1>4, WorkState DEF LabelOK, InProgress
    <2> QED BY <2>1, <2>2
  <1>5. ASSUME NEW r \in Calls, Calling(r) PROVE Q
    BY <1>0, <1>5, CallingState DEF StateOK, LabelOK, InProgress
  <1>6. ASSUME NEW r \in Calls, Saves(r) PROVE Q
    <2>1. Own(r).step \in Steps
      BY <1>0, OwnState DEF States
    <2>2. LabelOK'
      BY <1>0, <1>6, <2>1, SavesState DEF LabelOK, InProgress
    <2> QED BY <1>0, <1>6, <2>2, SavesState
  <1>7. ASSUME Expire \/ UNCHANGED vars PROVE Q
    <2>1. UNCHANGED <<object, view, store, agent, pc, status, overlapped>>
      BY <1>7, Zenon DEF Expire, vars, dialogVars
    <2> QED BY <1>0, <2>1 DEF StateOK, LabelOK
  <1>8. Q
    BY <1>3, <1>4, <1>5, <1>6, <1>7, NextSteps
  <1> QED BY <1>1, <1>2, <1>8, Zenon DEF TypeOK, StateOK, LabelOK

(* Every variable keeps its type, however the requests interleave.         *)
THEOREM DialogTypesAreRight == Spec => []TypeOK
  <1>1. Init => TypeOK /\ IInv
    <2> SUFFICES ASSUME Init PROVE TypeOK /\ IInv
      OBVIOUS
    <2>1. ApiInit
      BY Zenon DEF Init
    <2>2. IInv
      BY <2>1, ApiInitInv
    <2>3. Fresh \in States
      <3>1. <<>> \in Seq(Messages)
        OBVIOUS
      <3> QED BY <3>1 DEF Fresh, States, Steps
    <2>4. StateOK /\ LabelOK
      <3> HIDE DEF Fresh
      <3> QED BY <2>3 DEF Init, StateOK, LabelOK, Steps
    <2>5. present \in BOOLEAN
      BY Zenon DEF Init
    <2> QED BY <2>2, <2>4, <2>5, TypeParts DEF IInv
  <1>2. TypeOK /\ IInv /\ [Next]_vars => TypeOK' /\ IInv'
    BY TypeStep, DialogStepIsApiStep, ApiStepInv
  <1> QED BY <1>1, <1>2, PTL DEF Spec

-----------------------------------------------------------------------------
(* What a client may rely on.                                              *)

(* A connector is at work only for a turn that waits for it.               *)
Waits == \A r \in Calls :
    /\ http[r] \notin {"idle", "over"} => pc[r] = "tool"
    /\ pc[r] \in {"idle", "appended"} => http[r] = "idle"

(* A request works on a dialog its message is part of, and its booking     *)
(* from the moment its connector has answered.                             *)
Working == \A r \in Calls :
    /\ pc[r] \in InProgress => Has(r, Own(r))
    /\ pc[r] \in {"thinking", "saving"} => Kept(r, Own(r))

(* An answered message that nothing can have overwritten is in the store,  *)
(* and in whatever will be written there.                                  *)
Handed == \A r \in Apart : pc[r] = "answered" =>
    /\ Kept(r, object)
    /\ \A q \in Busy : Kept(r, Own(q))

(* A request that overlaps with no other is alone.                         *)
Lonely == \A r \in Busy \ overlapped : \A q \in Busy : q = r

(* A client that was told that the dialog is over leaves nobody at work.   *)
OverInv ==
    /\ \A r \in Calls : status[r] # "none" => Known
    /\ \A r \in Calls \ overlapped : status[r] \in TERMINAL_STEPS =>
           object.step \in TERMINAL_STEPS /\ Busy = {}

DialogInv == Waits /\ Working /\ Handed /\ Lonely /\ OverInv

(* Before the first request there is nothing to keep.                      *)
LEMMA DialogInvInit == Init => DialogInv
  <1> SUFFICES ASSUME Init PROVE DialogInv
    OBVIOUS
  <1>1. /\ \A r \in Calls : pc[r] = "idle" /\ status[r] = "none" /\ http[r] = "idle"
    BY DEF Init, ApiInit
  <1>2. Busy = {}
    BY <1>1 DEF Busy, InProgress
  <1> QED BY <1>1, <1>2 DEF DialogInv, Waits, Working, Handed, Lonely, OverInv, Apart, InProgress,
             TERMINAL_STEPS

(* A state changed by a turn loses nothing.                                *)
LEMMA WorkKeeps ==
    ASSUME TypeOK, IInv, DialogInv, NEW r \in Calls, Work(r)
    PROVE  DialogInv'
  <1>0. StateOK /\ LabelOK
    BY TypeParts
  <1>1. /\ pc[r] \in {"appended", "thinking", "tool"}
        /\ pc[r] = "tool" => http[r] = "over"
        /\ pc' = [pc EXCEPT ![r] = pc'[r]] /\ pc'[r] \in {"thinking", "saving"}
        /\ UNCHANGED <<apiVars, store, agent, present, status, overlapped>>
    BY <1>0, WorkState
  <1>2. PICK s \in States : /\ Put(r, s) /\ Grows(Own(r), s)
                            /\ pc[r] = "tool" /\ told[r] = "confirmed" => s.slot # NoCall
    BY <1>0, WorkState
  <1>3. /\ Own(r)' = s
        /\ \A q \in Calls : q # r => Own(q)' = IF store = "memory" THEN s ELSE Own(q)
        /\ object' = IF store = "memory" THEN s ELSE object
    BY <1>0, <1>1, <1>2, PutState
  <1>4. UNCHANGED <<http, told, status, overlapped, store>>
    BY <1>1 DEF apiVars
  <1>5. /\ \A q \in Calls : q # r => pc'[q] = pc[q]
        /\ Busy' = Busy /\ r \in Busy /\ Apart' = Apart
    BY <1>0, <1>1, <1>4 DEF LabelOK, Busy, InProgress, Apart
  <1>6. /\ \A q \in Calls : Grows(Own(q), Own(q)')
        /\ Grows(object, object')
    <2>1. \A t : Grows(t, t)
      BY DEF Grows
    <2>2. CASE store = "memory"
      <3>1. Own(r) = object /\ \A q \in Calls : Own(q) = object /\ Own(q)' = s
        BY <1>3, <2>2 DEF Own
      <3> QED BY <1>2, <1>3, <2>2, <3>1
    <2>3. CASE store # "memory"
      <3>1. \A q \in Calls : q # r => Own(q)' = Own(q)
        BY <1>3, <2>3
      <3> QED BY <1>2, <1>3, <2>1, <2>3, <3>1
    <2> QED BY <2>2, <2>3
  <1>7. /\ \A p, q \in Calls : Kept(p, Own(q)) => Kept(p, Own(q)')
        /\ \A p \in Calls : Kept(p, object) => Kept(p, object')
        /\ \A q \in Calls : Has(q, Own(q)) => Has(q, Own(q)')
    <2>1. ASSUME NEW p \in Calls, NEW q \in Calls
          PROVE  /\ Kept(p, Own(q)) => Kept(p, Own(q)')
                 /\ Has(p, Own(q)) => Has(p, Own(q)')
      <3>1. Grows(Own(q), Own(q)')
        BY <1>6
      <3> QED BY <3>1 DEF Grows, Kept
    <2>2. \A p \in Calls : Kept(p, object) => Kept(p, object')
      BY <1>6 DEF Grows, Kept
    <2> QED BY <2>1, <2>2
  <1>8. Waits'
    BY <1>1, <1>4, <1>5 DEF DialogInv, Waits
  <1>9. Working'
    <2> SUFFICES ASSUME NEW q \in Calls
                 PROVE  /\ pc'[q] \in InProgress => Has(q, Own(q)')
                        /\ pc'[q] \in {"thinking", "saving"} => Kept(q, Own(q)')
      BY <1>4 DEF Working, Kept
    <2>1. CASE q = r
      <3>1. Has(r, Own(r)) /\ Has(r, Own(r)')
        BY <1>1, <1>7 DEF DialogInv, Working, InProgress
      <3>2. CASE pc[r] = "appended"
        BY <1>1, <2>1, <3>1, <3>2 DEF DialogInv, Waits, IInv, CallInv, ToldIsOver, Kept
      <3>3. CASE pc[r] = "tool"
        BY <1>2, <1>3, <2>1, <3>1, <3>3 DEF Kept
      <3>4. CASE pc[r] = "thinking"
        BY <1>7, <2>1, <3>1, <3>4 DEF DialogInv, Working
      <3> QED BY <1>1, <3>2, <3>3, <3>4, <3>1, <2>1
    <2>2. CASE q # r
      BY <1>5, <1>7, <2>2 DEF DialogInv, Working
    <2> QED BY <2>1, <2>2
  <1>10. Handed'
    <2> SUFFICES ASSUME NEW p \in Apart, pc'[p] = "answered"
                 PROVE  Kept(p, object') /\ \A q \in Busy : Kept(p, Own(q)')
      BY <1>4, <1>5 DEF Handed, Kept
    <2>1. p \in Calls /\ pc[p] = "answered"
      BY <1>1, <1>5 DEF Apart
    <2>2. Kept(p, object) /\ \A q \in Busy : Kept(p, Own(q))
      BY <2>1 DEF DialogInv, Handed
    <2> QED BY <1>7, <2>1, <2>2 DEF Busy
  <1>11. Lonely'
    BY <1>4, <1>5 DEF DialogInv, Lonely
  <1>12. OverInv'
    <2>1. \A q \in Calls : pc[q] = "answered" => pc'[q] = "answered"
      BY <1>1, <1>5
    <2> QED BY <1>4, <1>5, <2>1 DEF DialogInv, OverInv, Known
  <1> QED BY <1>8, <1>9, <1>10, <1>11, <1>12 DEF DialogInv

(* A connector at work changes nothing of the dialog.                      *)
LEMMA CallingKeeps ==
    ASSUME TypeOK, IInv, DialogInv, NEW r \in Calls, Calling(r)
    PROVE  DialogInv'
  <1>0. LabelOK
    BY TypeParts
  <1>1. /\ UNCHANGED <<store, agent, object, present, view, status, overlapped>>
        /\ \A q \in Calls : q # r => http'[q] = http[q] /\ told'[q] = told[q]
        /\ \/ http[r] = "idle" /\ pc[r] = "thinking" /\ pc' = [pc EXCEPT ![r] = "tool"]
           \/ http[r] \notin {"idle", "over"} /\ pc' = pc
           \/ UNCHANGED <<http, told, pc>>
    BY <1>0, CallingState
  <1>2. CASE UNCHANGED <<http, told, pc>>
    BY <1>1, <1>2 DEF DialogInv, Waits, Working, Handed, Lonely, OverInv, Apart, Known, Busy, Own, Kept
  <1>3. CASE ~UNCHANGED <<http, told, pc>>
    <2>1. /\ pc[r] \in {"thinking", "tool"} /\ pc'[r] = "tool"
          /\ \A q \in Calls : q # r => pc'[q] = pc[q]
      BY <1>0, <1>1, <1>3 DEF DialogInv, Waits, LabelOK
    <2>2. Busy' = Busy /\ r \in Busy /\ Apart' = Apart /\ \A q \in Calls : Own(q)' = Own(q)
      BY <1>1, <2>1 DEF Busy, InProgress, Apart, Own
    <2>3. \A p, q \in Calls : p # r => (Kept(p, Own(q)) => Kept(p, Own(q))')
                                       /\ (Kept(p, object) => Kept(p, object)')
      BY <1>1, <2>2 DEF Kept
    <2>4. Waits'
      BY <1>1, <2>1 DEF DialogInv, Waits
    <2>5. Working'
      <3>1. Has(r, Own(r))'
        BY <2>1, <2>2 DEF DialogInv, Working, InProgress
      <3> QED BY <2>1, <2>2, <2>3, <3>1 DEF DialogInv, Working
    <2>6. Handed'
      <3> SUFFICES ASSUME NEW p \in Apart, pc'[p] = "answered"
                   PROVE  Kept(p, object)' /\ \A q \in Busy : Kept(p, Own(q))'
        BY <2>2 DEF Handed
      <3>1. p \in Calls /\ p # r /\ pc[p] = "answered"
        BY <1>0, <2>1 DEF Apart, LabelOK
      <3>2. Kept(p, object) /\ \A q \in Busy : Kept(p, Own(q))
        BY <3>1 DEF DialogInv, Handed
      <3> QED BY <2>3, <3>1, <3>2 DEF Busy
    <2>7. Lonely'
      BY <1>1, <2>2 DEF DialogInv, Lonely
    <2>8. OverInv'
      BY <1>1, <2>1, <2>2 DEF DialogInv, OverInv, Known
    <2> QED BY <2>4, <2>5, <2>6, <2>7, <2>8 DEF DialogInv
  <1> QED BY <1>2, <1>3

(* A new request begins with all that was answered apart from it.          *)
LEMMA ComesKeeps ==
    ASSUME TypeOK, IInv, DialogInv, NEW r \in Calls, Comes(r)
    PROVE  DialogInv'
  <1>0. StateOK /\ LabelOK
    BY TypeParts
  <1>1. pc[r] = "idle" /\ UNCHANGED <<store, http, told>> /\ http[r] = "idle"
    BY <1>0, ComesState DEF apiVars, DialogInv, Waits
  <1>2. ASSUME UNCHANGED <<object, view, overlapped>>, pc' = [pc EXCEPT ![r] = "failed"], UNCHANGED status
        PROVE  DialogInv'
    <2>1. Busy' = Busy /\ Apart' = Apart /\ (\A q \in Calls : Own(q)' = Own(q))
      BY <1>0, <1>1, <1>2 DEF LabelOK, Busy, InProgress, Apart, Own
    <2>2. \A q \in Calls : pc'[q] = IF q = r THEN "failed" ELSE pc[q]
      BY <1>0, <1>2 DEF LabelOK
    <2>3. Waits'
      BY <1>1, <2>2 DEF DialogInv, Waits
    <2>4. Working'
      BY <1>1, <2>1, <2>2 DEF DialogInv, Working, Kept, InProgress
    <2>5. Handed'
      <3> SUFFICES ASSUME NEW p \in Apart, pc'[p] = "answered"
                   PROVE  Kept(p, object) /\ \A q \in Busy : Kept(p, Own(q))
        BY <1>1, <1>2, <2>1 DEF Handed, Kept, Busy
      <3>1. p \in Calls /\ pc[p] = "answered"
        BY <2>2 DEF Apart
      <3> QED BY <3>1 DEF DialogInv, Handed
    <2>6. Lonely' /\ OverInv'
      BY <1>1, <1>2, <2>1, <2>2 DEF DialogInv, Lonely, OverInv, Known
    <2> QED BY <2>3, <2>4, <2>5, <2>6 DEF DialogInv
  <1>3. ASSUME UNCHANGED <<object, view>>, pc' = [pc EXCEPT ![r] = "dismissed"], Known,
               object.step \in TERMINAL_STEPS, status' = [status EXCEPT ![r] = object.step],
               overlapped' = IF Busy = {} THEN overlapped ELSE overlapped \cup {r}
        PROVE  DialogInv'
    <2>1. Busy' = Busy /\ (\A q \in Calls : Own(q)' = Own(q)) /\ Apart' \subseteq Apart
      BY <1>0, <1>1, <1>3 DEF LabelOK, Busy, InProgress, Apart, Own
    <2>2. \A q \in Calls : pc'[q] = IF q = r THEN "dismissed" ELSE pc[q]
      BY <1>0, <1>3 DEF LabelOK
    <2>3. Waits'
      BY <1>1, <2>2 DEF DialogInv, Waits
    <2>4. Working'
      BY <1>1, <2>1, <2>2 DEF DialogInv, Working, Kept, InProgress
    <2>5. Handed'
      <3> SUFFICES ASSUME NEW p \in Apart, pc'[p] = "answered"
                   PROVE  Kept(p, object) /\ \A q \in Busy : Kept(p, Own(q))
        BY <1>1, <1>3, <2>1 DEF Handed, Kept, Busy
      <3>1. p \in Calls /\ pc[p] = "answered"
        BY <2>2 DEF Apart
      <3> QED BY <3>1 DEF DialogInv, Handed
    <2>6. Lonely'
      BY <1>3, <2>1 DEF DialogInv, Lonely
    <2>7. Known'
      BY <1>1, <1>3, <2>2 DEF Known
    <2>8. \A q \in Calls : status'[q] = IF q = r THEN object.step ELSE status[q]
      BY <1>0, <1>3 DEF LabelOK
    <2>9. OverInv'
      <3> SUFFICES ASSUME NEW q \in Calls, q \notin overlapped', status'[q] \in TERMINAL_STEPS
                   PROVE  Busy = {}
        BY <1>3, <2>1, <2>7 DEF OverInv
      <3> QED BY <1>3, <2>8 DEF DialogInv, OverInv
    <2> QED BY <2>3, <2>4, <2>5, <2>6, <2>9 DEF DialogInv
  <1>4. ASSUME pc' = [pc EXCEPT ![r] = "appended"], UNCHANGED status,
               NEW s \in States, Put(r, s), Has(r, s), ~Known \/ Grows(object, s),
               \/ Busy = {} /\ (~Known \/ object.step \notin TERMINAL_STEPS) /\ overlapped' = overlapped
               \/ Known /\ object.step \notin TERMINAL_STEPS /\ overlapped' = overlapped \cup Busy \cup {r}
        PROVE  DialogInv'
    <2>1. /\ Own(r)' = s
          /\ \A q \in Calls : q # r => Own(q)' = IF store = "memory" THEN s ELSE Own(q)
          /\ object' = IF store = "memory" THEN s ELSE object
      BY <1>0, <1>1, <1>4, PutState
    <2>2. /\ \A q \in Calls : pc'[q] = IF q = r THEN "appended" ELSE pc[q]
          /\ Busy' = Busy \cup {r} /\ Apart' \subseteq Apart /\ Known' = Known
      BY <1>0, <1>1, <1>4 DEF LabelOK, Busy, InProgress, Apart, Known
    <2>3. Waits'
      BY <1>1, <2>2 DEF DialogInv, Waits
    <2>4. ~Known => Busy = {}
      BY <1>4
    <2>5. ASSUME NEW q \in Busy, store = "memory" PROVE Grows(Own(q), s)
      BY <1>4, <2>4, <2>5 DEF Own
    <2>6. Working'
      <3> SUFFICES ASSUME NEW q \in Calls
                   PROVE  /\ pc'[q] \in InProgress => Has(q, Own(q)')
                          /\ pc'[q] \in {"thinking", "saving"} => Kept(q, Own(q)')
        BY <1>1 DEF Working, Kept
      <3>1. CASE q = r
        BY <1>4, <2>1, <2>2, <3>1
      <3>2. CASE q # r /\ store # "memory"
        BY <2>1, <2>2, <3>2 DEF DialogInv, Working
      <3>3. CASE q # r /\ store = "memory" /\ pc[q] \in InProgress
        <4>1. Grows(Own(q), s) /\ Own(q)' = s
          BY <2>1, <2>5, <3>3 DEF Busy
        <4> QED BY <2>2, <3>3, <4>1 DEF DialogInv, Working, Grows, Kept
      <3> QED BY <2>2, <3>1, <3>2, <3>3 DEF InProgress
    <2>7. Handed'
      <3> SUFFICES ASSUME NEW p \in Apart, pc'[p] = "answered", NEW q \in Busy \cup {r}
                   PROVE  Kept(p, object') /\ Kept(p, Own(q)')
        BY <1>1, <2>2 DEF Handed, Kept
      <3>1. p \in Calls /\ pc[p] = "answered" /\ Known
        BY <2>2 DEF Apart, Known
      <3>2. Kept(p, object) /\ \A u \in Busy : Kept(p, Own(u))
        BY <3>1 DEF DialogInv, Handed
      <3>3. Kept(p, s)
        BY <1>4, <3>1, <3>2 DEF Grows, Kept
      <3> QED BY <2>1, <3>2, <3>3 DEF Busy
    <2>8. Lonely'
      BY <1>4, <2>2 DEF DialogInv, Lonely
    <2>9. OverInv'
      <3>1. ASSUME NEW q \in Calls, q \notin overlapped', status[q] \in TERMINAL_STEPS PROVE FALSE
        <4>1. q \notin overlapped /\ status[q] # "none"
          BY <1>4, <3>1 DEF TERMINAL_STEPS
        <4> QED BY <1>4, <3>1, <4>1 DEF DialogInv, OverInv
      <3> QED BY <1>4, <2>2, <3>1 DEF DialogInv, OverInv
    <2> QED BY <2>3, <2>6, <2>7, <2>8, <2>9 DEF DialogInv
  <1> QED BY <1>0, <1>2, <1>3, <1>4, ComesState

(* What is written back holds all that was answered apart from it.         *)
LEMMA SavesKeeps ==
    ASSUME TypeOK, IInv, DialogInv, NEW r \in Calls, Saves(r)
    PROVE  DialogInv'
  <1>0. StateOK /\ LabelOK
    BY TypeParts
  <1>1. /\ pc[r] = "saving" /\ UNCHANGED <<store, http, told, overlapped>>
        /\ object' = object \/ object' = Own(r)
        /\ \A q \in Calls : q # r => Own(q)' = Own(q)
    BY <1>0, SavesState DEF apiVars, LabelOK
  <1>2. /\ \A q \in Calls : q # r => pc'[q] = pc[q]
        /\ \/ pc'[r] = "answered" /\ object' = Own(r) /\ status' = [status EXCEPT ![r] = Own(r).step]
           \/ pc'[r] = "failed" /\ UNCHANGED status
    BY <1>0, SavesState DEF LabelOK
  <1>3. Busy' = Busy \ {r} /\ r \in Busy /\ Apart' = Apart
    BY <1>1, <1>2 DEF Busy, InProgress, Apart
  <1>4. Kept(r, Own(r))
    BY <1>1 DEF DialogInv, Working
  <1>5. Waits'
    BY <1>1, <1>2 DEF DialogInv, Waits
  <1>6. Working'
    BY <1>1, <1>2 DEF DialogInv, Working, Kept, InProgress
  <1>7. Handed'
    <2> SUFFICES ASSUME NEW p \in Apart, pc'[p] = "answered"
                 PROVE  Kept(p, object') /\ \A q \in Busy \ {r} : Kept(p, Own(q))
      BY <1>1, <1>3 DEF Handed, Kept, Busy
    <2>1. CASE p # r
      <3>1. Kept(p, object) /\ \A q \in Busy : Kept(p, Own(q))
        BY <1>2, <2>1 DEF DialogInv, Handed, Apart
      <3> QED BY <1>1, <1>3, <3>1
    <2>2. CASE p = r
      <3>1. object' = Own(r)
        BY <1>2, <2>2
      <3>2. CASE store = "memory"
        BY <1>4, <2>2, <3>1, <3>2 DEF Own
      <3>3. CASE store # "memory"
        <4>1. r \in Busy \ overlapped
          BY <1>3, <2>2, <3>3 DEF Apart
        <4> QED BY <1>4, <2>2, <3>1, <4>1 DEF DialogInv, Lonely
      <3> QED BY <3>2, <3>3
    <2> QED BY <2>1, <2>2
  <1>8. Lonely'
    BY <1>1, <1>3 DEF DialogInv, Lonely
  <1>9. OverInv'
    <2>1. \A q \in Calls : q # r => status'[q] = status[q]
      BY <1>0, <1>2 DEF LabelOK
    <2>2. ASSUME NEW q \in Calls, status'[q] # "none" PROVE Known'
      <3>1. CASE status[q] # "none"
        BY <1>1, <1>2, <3>1 DEF DialogInv, OverInv, Known
      <3>2. CASE status[q] = "none"
        BY <1>2, <2>1, <2>2, <3>2 DEF Known
      <3> QED BY <3>1, <3>2
    <2>3. ASSUME NEW q \in Calls \ overlapped, status'[q] \in TERMINAL_STEPS
          PROVE  object'.step \in TERMINAL_STEPS /\ Busy' = {}
      <3>1. status[q] \notin TERMINAL_STEPS
        BY <1>3 DEF DialogInv, OverInv
      <3>2. q = r /\ object' = Own(r) /\ status'[r] = Own(r).step
        BY <1>0, <1>2, <2>1, <2>3, <3>1 DEF LabelOK
      <3>3. Busy = {r}
        BY <1>3, <3>2 DEF DialogInv, Lonely
      <3> QED BY <1>3, <2>3, <3>2, <3>3
    <2> QED BY <1>1, <2>2, <2>3 DEF OverInv
  <1> QED BY <1>5, <1>6, <1>7, <1>8, <1>9 DEF DialogInv

(* DialogInv is inductive, given the types and the connectors' invariant.  *)
LEMMA DialogInvStep == TypeOK /\ IInv /\ DialogInv /\ [Next]_vars => DialogInv'
  <1> SUFFICES ASSUME TypeOK, IInv, DialogInv, [Next]_vars PROVE DialogInv'
    OBVIOUS
  <1>1. CASE Expire \/ UNCHANGED vars
    <2>1. UNCHANGED <<http, told, store, object, view, pc, status, overlapped>>
      BY <1>1, Zenon DEF Expire, vars, apiVars, dialogVars
    <2> QED BY <2>1 DEF DialogInv, Waits, Working, Handed, Lonely, OverInv, Apart, Known, Busy, Own, Kept
  <1> QED BY <1>1, NextSteps, WorkKeeps, CallingKeeps, ComesKeeps, SavesKeeps

(* The invariant holds always.                                             *)
THEOREM DialogInvariant == Spec => [](TypeOK /\ IInv /\ DialogInv)
  <1>1. Init => IInv
    BY ApiInitInv DEF Init
  <1>2. IInv /\ [Next]_vars => IInv'
    BY DialogStepIsApiStep, ApiStepInv
  <1> QED BY <1>1, <1>2, DialogInvInit, DialogInvStep, DialogTypesAreRight, PTL DEF Spec

(* A message that was answered, and the booking it led to, is still part   *)
(* of the dialog, whatever requests, failures of the store and expiries    *)
(* come later, unless it overlapped with another one on copies.            *)
THEOREM AnswersAreKept == Spec => []AnsweredIsKept
  <1>1. DialogInv => AnsweredIsKept
    BY DEF DialogInv, Handed, Kept, Has, AnsweredIsKept
  <1> QED BY <1>1, DialogInvariant, PTL

(* Once a client was told that the dialog is over, no later request        *)
(* reopens it, unless the one that was told overlapped with another.       *)
THEOREM OverIsFinal == Spec => []OverStaysOver
  <1>1. DialogInv => OverStaysOver
    BY DEF DialogInv, OverInv, OverStaysOver
  <1> QED BY <1>1, DialogInvariant, PTL

(* What the model is sent, for every length of the history: the message,   *)
(* and before it the dialog, as far as max_history_messages goes, less the *)
(* entry that the message itself takes up in the history.                  *)
LEMMA PromptOfHistory ==
    ASSUME NEW s \in States, NEW r \in Calls, s.messages # <<>>
    PROVE  LET dialog == Front(s.messages)
               seen == Prompt(s, r)
               room == IF Len(dialog) < MaxHistory THEN Len(dialog) ELSE MaxHistory - 1
           IN  /\ Last(seen) = [role |-> "user", of |-> r]
               /\ SubSeq(dialog, Len(dialog) - room + 1, Len(dialog)) = Front(Front(seen))
               /\ Front(Front(seen)) \in Seq(Messages)
  <1> DEFINE h == s.messages
             n == Len(h)
             keep == IF n < MaxHistory THEN n ELSE MaxHistory
             kept == SubSeq(h, n - keep + 1, n)
             m == [role |-> "user", of |-> r]
             dialog == Front(h)
             room == IF Len(dialog) < MaxHistory THEN Len(dialog) ELSE MaxHistory - 1
             tail == SubSeq(dialog, Len(dialog) - room + 1, Len(dialog))
  <1>1. h \in Seq(Messages) /\ n \in Nat \ {0} /\ m \in Messages
    BY DEF States, Messages
  <1> HIDE DEF h, m
  <1>2. /\ keep \in 1..n /\ MaxHistory \in Nat \ {0}
        /\ kept \in Seq(Messages) /\ Len(kept) = keep
        /\ \A i \in 1..keep : kept[i] = h[n - keep + i]
    BY <1>1
  <1>3. /\ dialog \in Seq(Messages) /\ Len(dialog) = n - 1
        /\ \A i \in 1..(n - 1) : dialog[i] = h[i]
    <2>1. dialog = SubSeq(h, 1, n - 1)
      BY DEF Front
    <2>2. n - 1 \in Nat /\ n - 1 <= n
      BY <1>1
    <2>3. \A i \in 1..n : h[i] \in Messages
      BY <1>1, ElementOfSeq
    <2> HIDE DEF n, dialog
    <2>4. \A i \in 1..(n - 1) : h[i] \in Messages
      BY <1>1, <2>3
    <2>5. /\ SubSeq(h, 1, n - 1) \in Seq(Messages)
          /\ Len(SubSeq(h, 1, n - 1)) = IF 1 <= n - 1 THEN (n - 1) - 1 + 1 ELSE 0
          /\ \A i \in 1..((n - 1) - 1 + 1) : SubSeq(h, 1, n - 1)[i] = h[1 + i - 1]
      BY <1>1, <2>2, <2>4, SubSeqProperties
    <2> QED BY <1>1, <2>1, <2>2, <2>5
  <1> HIDE DEF n, dialog
  <1>4. /\ room = keep - 1
    BY <1>1, <1>2, <1>3
  <1>5. /\ tail \in Seq(Messages) /\ Len(tail) = keep - 1
        /\ \A i \in 1..(keep - 1) : tail[i] = h[n - keep + i]
    BY <1>1, <1>2, <1>3, <1>4
  <1> HIDE DEF tail, keep, kept, room
  <1>6. /\ Front(kept) \in Seq(Messages) /\ Len(Front(kept)) = keep - 1
        /\ \A i \in 1..(keep - 1) : Front(kept)[i] = h[n - keep + i]
    BY <1>1, <1>2 DEF Front
  <1>7. tail = Front(kept)
    BY <1>2, <1>5, <1>6, SeqEqual
  <1>8. Last(Append(kept, m)) = m /\ Front(Append(kept, m)) = kept
    BY <1>1, <1>2 DEF Front, Last
  <1>9. Prompt(s, r) = Append(kept, m)
    BY DEF Prompt, kept, keep, n, h, m
  <1> QED BY <1>6, <1>7, <1>8, <1>9 DEF tail, dialog, room, m, h

(* The model sees the user's message last and, before it, as much of the   *)
(* dialog as max_history_messages leaves room for.                         *)
THEOREM PromptIsRight == Spec => []PromptHasContext
  <1>1. TypeOK /\ DialogInv => PromptHasContext
    <2> SUFFICES ASSUME TypeOK, DialogInv, NEW r \in Apart, pc[r] = "appended"
                 PROVE  LET dialog == Front(Own(r).messages)
                            seen == Prompt(Own(r), r)
                            room == IF Len(dialog) < MaxHistory THEN Len(dialog) ELSE MaxHistory - 1
                        IN  /\ Last(seen) = [role |-> "user", of |-> r]
                            /\ IsSuffix(SubSeq(dialog, Len(dialog) - room + 1, Len(dialog)),
                                        Front(Front(seen)))
      BY DEF PromptHasContext
    <2>1. r \in Calls
      BY DEF Apart
    <2>2. Own(r) \in States
      BY <2>1, TypeParts, OwnState
    <2>3. Own(r).messages # <<>>
      <3>1. Has(r, Own(r))
        BY <2>1 DEF DialogInv, Working, InProgress
      <3> QED BY <3>1 DEF Has
    <2>4. ASSUME NEW s \in Seq(Messages) PROVE IsSuffix(s, s)
      <3>1. Len(Reverse(s)) \in Nat
        BY DEF Reverse
      <3> QED BY <3>1 DEF IsSuffix, IsPrefix
    <2> QED BY <2>1, <2>2, <2>3, <2>4, PromptOfHistory
  <1> QED BY <1>1, DialogInvariant, PTL
=============================================================================
