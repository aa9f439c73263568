------------------------------ MODULE BookingApi ------------------------------
(***************************************************************************)
(* The booking connectors, as the tool calls of the agent see them:        *)
(* GenericAPIBookingConnector._call with its retries and the salon's API   *)
(* behind it, and MockBookingConnector.                                    *)
(*                                                                         *)
(* The wire and the salon are external.  A request that has left may be    *)
(* delivered late, after the connector has given up on it; a connection    *)
(* that was refused has carried nothing.                                   *)
(***************************************************************************)
EXTENDS Naturals

CONSTANTS
    Calls,          \* tool calls that reach a connector
    MaxAttempts     \* stop_after_attempt

ASSUME ApiAssumption == MaxAttempts \in Nat \ {0}

VARIABLES
    connector,  \* "generic_api" or "mock"
    endpoint,   \* what the tool call asks for
    http,       \* phase of its request
    tries,      \* connections attempted
    wire,       \* copies of the request that have left and not arrived
    answer,     \* the salon's answer on its way back
    made,       \* bookings the salon has made for the tool call
    told        \* what the connector returned, or "error" if it raised

apiVars == <<connector, endpoint, http, tries, wire, answer, made, told>>

Endpoints == {"lookup", "create_booking"}   \* "lookup": any of list_*
Phases == {"idle", "connecting", "backoff", "sent", "over"}

(* "id": a body _extract finds an id in.  "noId": a 2xx whose body has     *)
(* none, an error reported inside a 200 for one.  "error": 4xx, 5xx, a     *)
(* body that is no JSON or that _parse_* chokes on.                        *)
SalonAnswers == {"id", "noId", "error"}

ApiTypeOK ==
    /\ connector \in {"generic_api", "mock"}
    /\ endpoint \in [Calls -> Endpoints \cup {"none"}]
    /\ http \in [Calls -> Phases]
    /\ tries \in [Calls -> 0..MaxAttempts]
    /\ wire \in [Calls -> 0..MaxAttempts]
    /\ answer \in [Calls -> SalonAnswers \cup {"none"}]
    /\ made \in [Calls -> Nat]
    /\ told \in [Calls -> {"nothing", "list", "confirmed", "unconfirmed", "error"}]

ApiInit ==
    /\ connector \in {"generic_api", "mock"}
    /\ endpoint = [c \in Calls |-> "none"]
    /\ http = [c \in Calls |-> "idle"]
    /\ tries = [c \in Calls |-> 0]
    /\ wire = [c \in Calls |-> 0]
    /\ answer = [c \in Calls |-> "none"]
    /\ made = [c \in Calls |-> 0]
    /\ told = [c \in Calls |-> "nothing"]

-----------------------------------------------------------------------------
(* The connector.                                                          *)

Return(c, what) ==
    /\ http' = [http EXCEPT ![c] = "over"]
    /\ told' = [told EXCEPT ![c] = what]

(* MockBookingConnector works in memory: it knows every service and master *)
(* or raises ValueError, and it books whatever slot it is asked for.       *)
MockCall(c, e) ==
    /\ connector = "mock" /\ http[c] = "idle"
    /\ endpoint' = [endpoint EXCEPT ![c] = e]
    /\ \/ e = "lookup" /\ Return(c, "list") /\ UNCHANGED made
       \/ /\ e = "create_booking"
          /\ made' = [made EXCEPT ![c] = @ + 1]
          /\ Return(c, "confirmed")
       \/ e = "create_booking" /\ Return(c, "error") /\ UNCHANGED made
    /\ UNCHANGED <<connector, tries, wire, answer>>

Call(c, e) ==
    /\ connector = "generic_api" /\ http[c] = "idle"
    /\ endpoint' = [endpoint EXCEPT ![c] = e]
    /\ http' = [http EXCEPT ![c] = "connecting"]
    /\ tries' = [tries EXCEPT ![c] = 1]
    /\ UNCHANGED <<connector, wire, answer, made, told>>

(* Faulty variant: one attempt too many. *)
ConnectRefusedOnceMore(c) ==
    /\ http[c] = "connecting"
    /\ \/ /\ tries[c] <= MaxAttempts
          /\ http' = [http EXCEPT ![c] = "backoff"]
          /\ UNCHANGED told
       \/ tries[c] > MaxAttempts /\ Return(c, "error")
    /\ UNCHANGED <<connector, endpoint, tries, wire, answer, made>>

(* httpx.ConnectError, the one exception that is retried; the last one is  *)
(* raised (reraise=True).                                                  *)
ConnectRefused(c) ==
    /\ http[c] = "connecting"
    /\ \/ /\ tries[c] < MaxAttempts
          /\ http' = [http EXCEPT ![c] = "backoff"]
          /\ UNCHANGED told
       \/ tries[c] >= MaxAttempts /\ Return(c, "error")
    /\ UNCHANGED <<connector, endpoint, tries, wire, answer, made>>

(* Faulty variant: the attempts are not counted. *)
RetryUncounted(c) ==
    /\ http[c] = "backoff"
    /\ http' = [http EXCEPT ![c] = "connecting"]
    /\ UNCHANGED <<connector, endpoint, tries, wire, answer, made, told>>

(* wait_exponential is over.                                               *)
Retry(c) ==
    /\ http[c] = "backoff"
    /\ http' = [http EXCEPT ![c] = "connecting"]
    /\ tries' = [tries EXCEPT ![c] = @ + 1]
    /\ UNCHANGED <<connector, endpoint, wire, answer, made, told>>

(* Any other exception before the request has left: ConnectTimeout is no   *)
(* ConnectError, a template without its parameter, a client not connected. *)
FailsUnsent(c) ==
    /\ http[c] = "connecting"
    /\ Return(c, "error")
    /\ UNCHANGED <<connector, endpoint, tries, wire, answer, made>>

Send(c) ==
    /\ http[c] = "connecting"
    /\ http' = [http EXCEPT ![c] = "sent"]
    /\ wire' = [wire EXCEPT ![c] = @ + 1]
    /\ UNCHANGED <<connector, endpoint, tries, answer, made, told>>

(* Faulty variant: a timeout is retried like a refused connection. *)
TimesOutAndRetries(c) ==
    /\ http[c] = "sent"
    /\ \/ /\ tries[c] < MaxAttempts
          /\ http' = [http EXCEPT ![c] = "backoff"]
          /\ UNCHANGED told
       \/ tries[c] >= MaxAttempts /\ Return(c, "error")
    /\ UNCHANGED <<connector, endpoint, tries, wire, answer, made>>

(* ReadTimeout, or the connection breaks: the outcome is unknown and the   *)
(* request is not sent again.                                              *)
TimesOut(c) ==
    /\ http[c] = "sent"
    /\ Return(c, "error")
    /\ UNCHANGED <<connector, endpoint, tries, wire, answer, made>>

(* raise_for_status, _extract and the parsers.  create_booking returns a   *)
(* Booking even when the answer has no id: its id is then "".              *)
Respond(c) ==
    /\ http[c] = "sent" /\ answer[c] # "none"
    /\ \/ answer[c] = "error" /\ Return(c, "error")
       \/ /\ answer[c] # "error" /\ endpoint[c] = "lookup"
          /\ Return(c, "list")
       \/ /\ endpoint[c] = "create_booking"
          /\ \/ answer[c] = "id" /\ Return(c, "confirmed")
             \/ answer[c] = "noId" /\ Return(c, "unconfirmed")
    /\ UNCHANGED <<connector, endpoint, tries, wire, answer, made>>

-----------------------------------------------------------------------------
(* External: the salon's API.  It names a booking only if it has made it;  *)
(* it may make one and fail to say so.  An answer reaches a connector that *)
(* still waits for it.                                                     *)

SalonReceives(c) ==
    /\ wire[c] > 0
    /\ wire' = [wire EXCEPT ![c] = @ - 1]
    /\ \E a \in SalonAnswers :
          /\ \/ UNCHANGED made /\ a # "id"
             \/ /\ endpoint[c] = "create_booking"
                /\ made' = [made EXCEPT ![c] = @ + 1]
          /\ answer' = [answer EXCEPT ![c] = IF http[c] = "sent" THEN a ELSE @]
    /\ UNCHANGED <<connector, endpoint, http, tries, told>>

-----------------------------------------------------------------------------
Begin(c, e) == MockCall(c, e) \/ Call(c, e)
ConnectStep(c) == ConnectRefused(c) \/ Retry(c) \/ FailsUnsent(c) \/ Send(c)
AnswerStep(c) == TimesOut(c) \/ Respond(c)

(* Any number of tool calls at any time, from any number of conversations. *)
ApiNext == \E c \in Calls :
    \/ \E e \in Endpoints : Begin(c, e)
    \/ ConnectStep(c) \/ AnswerStep(c) \/ SalonReceives(c)

ApiSpec == ApiInit /\ [][ApiNext]_apiVars

(* The mapping: the tool calls are the same, and so is what the contract   *)
(* speaks of; the request, its retries and the wire are hidden.            *)
Contract == INSTANCE BookingContract
    WITH Calls <- Calls, made <- made, told <- told

(* The connectors keep the contract of create_booking, whatever is refused,*)
(* delayed or lost on the way: no retry makes the salon book twice for one *)
(* tool call, none is answered twice, and a booking named to the agent is  *)
(* one the salon holds.                                                    *)
KeepsContract == Contract!Spec
=============================================================================
