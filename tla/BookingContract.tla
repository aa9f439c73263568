--------------------------- MODULE BookingContract ---------------------------
(***************************************************************************)
(* What the conversation relies on when it calls create_booking of a       *)
(* BaseBookingConnector: the salon books at most once for one tool call,   *)
(* the call is answered at most once, and an answer that names a booking   *)
(* is given only for one the salon holds.                                  *)
(*                                                                         *)
(* An error promises nothing: the salon may have booked before it, or may  *)
(* book afterwards, when a request that timed out reaches it at last.      *)
(***************************************************************************)
EXTENDS Naturals

CONSTANT Calls      \* the tool calls

VARIABLES
    made,   \* bookings the salon has made for a tool call
    told    \* what the tool call was answered

contractVars == <<made, told>>

Answers == {"list", "confirmed", "unconfirmed", "error"}

Init ==
    /\ made = [c \in Calls |-> 0]
    /\ told = [c \in Calls |-> "nothing"]

Book(c) ==
    /\ made[c] = 0
    /\ made' = [made EXCEPT ![c] = 1]

Tell(c, reply) ==
    /\ told[c] = "nothing"
    /\ reply = "confirmed" => made'[c] = 1
    /\ told' = [told EXCEPT ![c] = reply]

(* A connector in memory books and answers in one step.                    *)
Next == \E c \in Calls :
    \/ Book(c) /\ UNCHANGED told
    \/ UNCHANGED made /\ \E reply \in Answers : Tell(c, reply)
    \/ Book(c) /\ Tell(c, "confirmed")

Spec == Init /\ [][Next]_contractVars
=============================================================================
