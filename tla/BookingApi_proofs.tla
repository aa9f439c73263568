--------------------------- MODULE BookingApi_proofs ---------------------------
(***************************************************************************)
(* Proofs about BookingApi: its types, and that the connectors implement   *)
(* BookingContract, for any number of tool calls and of attempts.          *)
(***************************************************************************)
EXTENDS BookingApi, TLAPS

USE ApiAssumption DEF ApiAssumption

-----------------------------------------------------------------------------
(* What is true of one tool call.  A request leaves once, because a call   *)
(* that goes back to connecting has sent nothing: so what the salon has    *)
(* booked and what is still on its way are one at most.                    *)

UnsentIsUnknown(c) == http[c] \in {"idle", "connecting", "backoff"} =>
    wire[c] = 0 /\ made[c] = 0 /\ answer[c] = "none"
OneRequest(c) == made[c] + wire[c] <= 1
NamedIsMade(c) ==
    /\ answer[c] = "id" => made[c] = 1
    /\ told[c] = "confirmed" => made[c] = 1
ToldIsOver(c) == http[c] # "over" => told[c] = "nothing"
Tried(c) == http[c] = "backoff" => tries[c] < MaxAttempts

CallInv(c) ==
    UnsentIsUnknown(c) /\ OneRequest(c) /\ NamedIsMade(c) /\ ToldIsOver(c) /\ Tried(c)

IInv == ApiTypeOK /\ \A c \in Calls : CallInv(c)

-----------------------------------------------------------------------------
(* The connector's own steps touch one tool call and neither the wire nor  *)
(* the salon, but for Send and the connector in memory.                    *)

(* Before the first tool call nothing is on the wire or at the salon.      *)
LEMMA ApiInitInv == ApiInit => IInv
  BY DEF ApiInit, IInv, CallInv, ApiTypeOK, UnsentIsUnknown, OneRequest, NamedIsMade,
         ToldIsOver, Tried, Phases, Endpoints, SalonAnswers

(* A tool call begins with nothing sent.                                   *)
LEMMA BeginInv ==
    ASSUME NEW c \in Calls, NEW e \in Endpoints, IInv, Begin(c, e)
    PROVE  IInv'
  <1>1. CASE Call(c, e)
    <2>1. ApiTypeOK'
      BY <1>1 DEF IInv, ApiTypeOK, Call, Phases, Endpoints
    <2>2. ASSUME NEW d \in Calls PROVE CallInv(d)'
      BY <1>1 DEF IInv, ApiTypeOK, CallInv, Call, UnsentIsUnknown, OneRequest, NamedIsMade,
                  ToldIsOver, Tried
    <2> QED BY <2>1, <2>2 DEF IInv
  <1>2. CASE MockCall(c, e)
    <2>1. ApiTypeOK'
      BY <1>2 DEF IInv, ApiTypeOK, MockCall, Return, Phases, Endpoints
    <2>2. ASSUME NEW d \in Calls PROVE CallInv(d)'
      BY <1>2 DEF IInv, ApiTypeOK, CallInv, MockCall, Return, UnsentIsUnknown, OneRequest,
                  NamedIsMade, ToldIsOver, Tried
    <2> QED BY <2>1, <2>2 DEF IInv
  <1> QED BY <1>1, <1>2 DEF Begin

(* A connection is retried only while nothing has left; Send is for once.  *)
LEMMA ConnectInv ==
    ASSUME NEW c \in Calls, IInv, ConnectStep(c)
    PROVE  IInv'
  <1>1. CASE ConnectRefused(c) \/ FailsUnsent(c)
    <2>1. ApiTypeOK'
      BY <1>1 DEF IInv, ApiTypeOK, ConnectRefused, FailsUnsent, Return, Phases
    <2>2. ASSUME NEW d \in Calls PROVE CallInv(d)'
      BY <1>1 DEF IInv, ApiTypeOK, CallInv, ConnectRefused, FailsUnsent, Return,
                  UnsentIsUnknown, OneRequest, NamedIsMade, ToldIsOver, Tried
    <2> QED BY <2>1, <2>2 DEF IInv
  <1>2. CASE Retry(c)
    <2>1. ApiTypeOK'
      BY <1>2 DEF IInv, CallInv, Tried, ApiTypeOK, Retry, Phases
    <2>2. ASSUME NEW d \in Calls PROVE CallInv(d)'
      BY <1>2 DEF IInv, ApiTypeOK, CallInv, Retry, UnsentIsUnknown, OneRequest, NamedIsMade,
                  ToldIsOver, Tried
    <2> QED BY <2>1, <2>2 DEF IInv
  <1>3. CASE Send(c)
    <2>1. ApiTypeOK'
      BY <1>3 DEF IInv, CallInv, UnsentIsUnknown, ApiTypeOK, Send, Phases
    <2>2. ASSUME NEW d \in Calls PROVE CallInv(d)'
      BY <1>3 DEF IInv, ApiTypeOK, CallInv, Send, UnsentIsUnknown, OneRequest, NamedIsMade,
                  ToldIsOver, Tried
    <2> QED BY <2>1, <2>2 DEF IInv
  <1> QED BY <1>1, <1>2, <1>3 DEF ConnectStep

(* An answer, or giving up on it, ends the tool call.                      *)
LEMMA AnswerInv ==
    ASSUME NEW c \in Calls, IInv, AnswerStep(c)
    PROVE  IInv'
  <1>1. ApiTypeOK'
    BY DEF IInv, ApiTypeOK, AnswerStep, TimesOut, Respond, Return, Phases
  <1>2. ASSUME NEW d \in Calls PROVE CallInv(d)'
    BY DEF IInv, ApiTypeOK, CallInv, AnswerStep, TimesOut, Respond, Return, UnsentIsUnknown,
           OneRequest, NamedIsMade, ToldIsOver, Tried
  <1> QED BY <1>1, <1>2 DEF IInv

(* The salon takes the one request there is and names what it has made.    *)
LEMMA SalonInv ==
    ASSUME NEW c \in Calls, IInv, SalonReceives(c)
    PROVE  IInv'
  <1>1. ApiTypeOK'
    BY DEF IInv, ApiTypeOK, SalonReceives, SalonAnswers
  <1>2. ASSUME NEW d \in Calls PROVE CallInv(d)'
    BY DEF IInv, ApiTypeOK, CallInv, SalonReceives, SalonAnswers, UnsentIsUnknown,
           OneRequest, NamedIsMade, ToldIsOver, Tried, Phases
  <1> QED BY <1>1, <1>2 DEF IInv

(* The invariant is inductive.                                             *)
LEMMA ApiStepInv == IInv /\ [ApiNext]_apiVars => IInv'
  <1> SUFFICES ASSUME IInv, [ApiNext]_apiVars PROVE IInv'
    OBVIOUS
  <1>1. CASE UNCHANGED apiVars
    BY <1>1 DEF apiVars, IInv, ApiTypeOK, CallInv, UnsentIsUnknown, OneRequest, NamedIsMade,
                ToldIsOver, Tried
  <1>2. CASE ApiNext
    BY <1>2, BeginInv, ConnectInv, AnswerInv, SalonInv DEF ApiNext
  <1> QED BY <1>1, <1>2

(* The types of the connectors hold in every reachable state: in           *)
(* particular no request is attempted more often than stop_after_attempt.  *)
THEOREM ApiTypesAreRight == ApiSpec => []ApiTypeOK
  <1>1. IInv => ApiTypeOK
    BY DEF IInv
  <1> QED BY <1>1, ApiInitInv, ApiStepInv, PTL DEF ApiSpec

-----------------------------------------------------------------------------
(* The refinement: which step of the contract a step of the connector is.  *)

(* The connector in memory books and answers in one step; the other begins *)
(* by a stutter.                                                           *)
LEMMA BeginKeeps ==
    ASSUME NEW c \in Calls, NEW e \in Endpoints, IInv, Begin(c, e)
    PROVE  [Contract!Next]_(Contract!contractVars)
  <1>1. made[c] = 0 /\ told[c] = "nothing"
    BY DEF IInv, CallInv, UnsentIsUnknown, ToldIsOver, Begin, Call, MockCall
  <1>2. made \in [Calls -> Nat] /\ told = [told EXCEPT ![c] = told[c]]
    BY DEF IInv, ApiTypeOK
  <1>3. CASE Call(c, e)
    BY <1>3 DEF Call, Contract!contractVars
  <1>4. CASE MockCall(c, e)
    <2>1. CASE UNCHANGED made
      <3>1. PICK reply \in {"list", "error"} : told' = [told EXCEPT ![c] = reply]
        BY <1>1, <1>2, <1>4, <2>1 DEF MockCall, Return
      <3>2. reply \in Contract!Answers /\ Contract!Tell(c, reply)
        BY <1>1, <3>1 DEF Contract!Tell, Contract!Answers
      <3> QED BY <2>1, <3>2 DEF Contract!Next
    <2>2. CASE made' = [made EXCEPT ![c] = @ + 1] /\ told' = [told EXCEPT ![c] = "confirmed"]
      <3>1. Contract!Book(c) /\ Contract!Tell(c, "confirmed")
        BY <1>1, <1>2, <2>2 DEF Contract!Book, Contract!Tell
      <3> QED BY <3>1 DEF Contract!Next
    <2> QED BY <1>4, <2>1, <2>2 DEF MockCall, Return
  <1> QED BY <1>3, <1>4 DEF Begin

(* The connector's own steps answer the tool call, or are stutters.        *)
LEMMA ConnectorTells ==
    ASSUME NEW c \in Calls, IInv, ConnectStep(c) \/ AnswerStep(c)
    PROVE  [Contract!Next]_(Contract!contractVars)
  <1>1. http[c] # "over" /\ UNCHANGED made
    BY DEF ConnectStep, AnswerStep, ConnectRefused, Retry, FailsUnsent, Send, TimesOut, Respond
  <1>2. told[c] = "nothing" /\ (answer[c] = "id" => made[c] = 1)
    BY <1>1 DEF IInv, CallInv, ToldIsOver, NamedIsMade
  <1>3. CASE UNCHANGED told
    BY <1>1, <1>3 DEF Contract!contractVars
  <1>4. CASE \E what \in {"list", "confirmed", "unconfirmed", "error"} :
                 /\ told' = [told EXCEPT ![c] = what]
                 /\ what = "confirmed" => answer[c] = "id"
    <2>1. PICK reply \in Contract!Answers :
              told' = [told EXCEPT ![c] = reply] /\ (reply = "confirmed" => answer[c] = "id")
      BY <1>4 DEF Contract!Answers
    <2>2. Contract!Tell(c, reply)
      BY <1>1, <1>2, <2>1 DEF Contract!Tell
    <2> QED BY <1>1, <2>1, <2>2 DEF Contract!Next
  <1> QED BY <1>3, <1>4 DEF ConnectStep, AnswerStep, ConnectRefused, Retry, FailsUnsent, Send,
                            TimesOut, Respond, Return

(* The salon's step books what was not booked, or is a stutter.            *)
LEMMA SalonBooks ==
    ASSUME NEW c \in Calls, IInv, SalonReceives(c)
    PROVE  [Contract!Next]_(Contract!contractVars)
  <1>1. made \in [Calls -> Nat] /\ made[c] = 0
    BY DEF IInv, ApiTypeOK, CallInv, OneRequest, SalonReceives
  <1>2. CASE UNCHANGED made
    BY <1>2 DEF SalonReceives, Contract!contractVars
  <1>3. CASE made' = [made EXCEPT ![c] = @ + 1]
    <2>1. Contract!Book(c) /\ UNCHANGED told
      BY <1>1, <1>3 DEF SalonReceives, Contract!Book
    <2> QED BY <2>1 DEF Contract!Next
  <1> QED BY <1>2, <1>3 DEF SalonReceives

(* Whatever is refused, delayed or lost, the salon books at most once for  *)
(* one create_booking, the tool call is answered once, and a booking named *)
(* to the agent is one the salon holds: _call retries only a connection    *)
(* that was never made.                                                    *)
THEOREM ApiKeepsContract == ApiSpec => KeepsContract
  <1>1. ApiInit => Contract!Init
    BY DEF ApiInit, Contract!Init
  <1>2. IInv /\ [ApiNext]_apiVars => [Contract!Next]_(Contract!contractVars)
    <2> SUFFICES ASSUME IInv, [ApiNext]_apiVars
                 PROVE  [Contract!Next]_(Contract!contractVars)
      OBVIOUS
    <2>1. CASE UNCHANGED apiVars
      BY <2>1 DEF apiVars, Contract!contractVars
    <2>2. CASE ApiNext
      BY <2>2, BeginKeeps, ConnectorTells, SalonBooks DEF ApiNext
    <2> QED BY <2>1, <2>2
  <1> QED BY <1>1, <1>2, ApiInitInv, ApiStepInv, PTL DEF ApiSpec, KeepsContract, Contract!Spec
=============================================================================
