------------------------------- MODULE Callback -------------------------------
(***************************************************************************)
(* How calls come into being and end, seen from outside the dialog:        *)
(* Orchestrator.handle_callback (POST /call/request-callback) with its     *)
(* dedupe lock, make_call and first save; the VoxEngine bridge, whose      *)
(* "start" event tells inbound calls from outbound ones by asking the      *)
(* store, and Orchestrator.handle_inbound_call; the task of each call,     *)
(* reduced to its last save and its hangup; a restart of the process.      *)
(*                                                                         *)
(* Lock and states are in Redis and survive a restart.  A call is named    *)
(* after the request that asks for it, or after the caller who dials in:   *)
(* which of the two it is shows in req.                                    *)
(***************************************************************************)
EXTENDS Naturals, FiniteSets

CONSTANTS
    Calls,          \* a call is asked for by a request, or dialled by a client
    Reached,        \* bound: calls in which a client is on the line
    Phones,         \* numbers of clients
    MaxWindows,     \* bound: dedupe windows (callback_dedupe_seconds) per number
    MaxRestarts     \* bound: restarts of the process

ASSUME CallbackAssumption ==
    /\ Reached \subseteq Calls
    /\ MaxWindows \in Nat \ {0}
    /\ MaxRestarts \in Nat

VARIABLES
    locks,      \* numbers with the lock callback:<phone> set
    window,     \* per number: ordinal of its current dedupe window
    req,        \* per request: where handle_callback is
    phone,      \* per request: its number
    slotOf,     \* history, per request: the window it got the lock in, or 0
    line,       \* per call: the telephone line (external)
    early,      \* history: outbound calls answered before handle_callback
                \* had heard of them from make_call and saved their state
    sessions,   \* VoximplantTelephonyProvider._sessions: calls to hang up by URL
    bridge,     \* per call: the WebSocket with its AudioSession, and what the
                \* handler of "start" has done
    muted,      \* bridges whose sender has died
    stored,     \* per call: the state in the store
    task,       \* per call and origin: handle_inbound_call ("saving") and the
                \* task in _process_call
    hangupRequested,
    broken,     \* history: calls that an exception or a restart cut short
    restarts

requestVars == <<locks, window, req, phone, slotOf>>
bridgeVars == <<line, early, bridge, muted, hangupRequested>>
vars == <<requestVars, bridgeVars, sessions, stored, task, broken, restarts>>

Outbound(c) == req[c] # "none"
Origins == {"callback", "inbound"}
InFlight == {"locking", "calling", "saving"}
Attached == {"open", "unknown", "served"}
Registered(c) == bridge[c] \in Attached

TypeOK ==
    /\ locks \subseteq Phones
    /\ window \in [Phones -> 1..MaxWindows]
    /\ req \in [Calls -> {"none"} \cup InFlight \cup {"accepted", "duplicate", "failed", "unheard"}]
    /\ phone \in [Calls -> Phones]
    /\ slotOf \in [Calls -> 0..MaxWindows]
    /\ line \in [Calls -> {"none", "ringing", "connected", "over"}]
    /\ early \subseteq Calls
    /\ sessions \subseteq Calls
    /\ bridge \in [Calls -> {"none", "gone"} \cup Attached]
    /\ muted \subseteq Calls
    /\ stored \in [Calls -> {"none", "greeting", "terminal"}]
    /\ task \in [Calls -> [Origins -> {"none", "saving", "running", "hanging", "over"}]]
    /\ hangupRequested \subseteq Calls
    /\ broken \subseteq Calls
    /\ restarts \in 0..MaxRestarts

Init ==
    /\ locks = {}
    /\ window = [p \in Phones |-> 1]
    /\ req = [r \in Calls |-> "none"]
    /\ phone \in [Calls -> Phones]
    /\ slotOf = [r \in Calls |-> 0]
    /\ line = [c \in Calls |-> "none"]
    /\ early = {}
    /\ sessions = {}
    /\ bridge = [c \in Calls |-> "none"]
    /\ muted = {}
    /\ stored = [c \in Calls |-> "none"]
    /\ task = [c \in Calls |-> [o \in Origins |-> "none"]]
    /\ hangupRequested = {}
    /\ broken = {}
    /\ restarts = 0

-----------------------------------------------------------------------------
(* handle_callback of request r.                                           *)

RequestCallback(r) ==
    /\ req[r] = "none" /\ line[r] = "none"
    /\ req' = [req EXCEPT ![r] = "locking"]
    /\ UNCHANGED <<locks, window, phone, slotOf, bridgeVars, sessions, stored, task, broken, restarts>>

(* Changed: the lock is taken for a window too late.                       *)
TakeLockAhead(r) ==
    /\ locks' = locks \cup {phone[r]}
    /\ slotOf' = [slotOf EXCEPT ![r] = window[phone[r]] + 1]

TakeLock(r) ==
    /\ locks' = locks \cup {phone[r]}
    /\ slotOf' = [slotOf EXCEPT ![r] = window[phone[r]]]

(* SET with NX: one atomic command of Redis.                               *)
AcquireLock(r) ==
    /\ req[r] = "locking"
    /\ IF phone[r] \in locks
       THEN req' = [req EXCEPT ![r] = "duplicate"] /\ UNCHANGED <<locks, slotOf>>
       ELSE req' = [req EXCEPT ![r] = "calling"] /\ TakeLock(r)
    /\ UNCHANGED <<window, phone, bridgeVars, sessions, stored, task, broken, restarts>>

(* Redis does not answer; it may have set the lock.                        *)
AcquireLockRaises(r) ==
    /\ req[r] = "locking"
    /\ req' = [req EXCEPT ![r] = "failed"]
    /\ \/ phone[r] \notin locks /\ TakeLock(r)
       \/ UNCHANGED <<locks, slotOf>>
    /\ UNCHANGED <<window, phone, bridgeVars, sessions, stored, task, broken, restarts>>

(* External: the provider has the request and dials, in time or after      *)
(* handle_callback has given up.                                           *)
CallPlaced(r) ==
    /\ req[r] \in {"calling", "unheard"} /\ line[r] = "none"
    /\ line' = [line EXCEPT ![r] = "ringing"]
    /\ UNCHANGED <<requestVars, early, bridge, muted, hangupRequested, sessions,
                   stored, task, broken, restarts>>

MakeCallReturns(r) ==
    /\ req[r] = "calling" /\ line[r] # "none"
    /\ req' = [req EXCEPT ![r] = "saving"]
    /\ sessions' = sessions \cup {r}
    /\ UNCHANGED <<locks, window, phone, slotOf, bridgeVars, stored, task, broken, restarts>>

(* Changed: a request that failed gives the lock back.                     *)
MakeCallRaisesUnlocking(r) ==
    /\ req[r] = "calling"
    /\ req' = [req EXCEPT ![r] = "unheard"]
    /\ locks' = locks \ {phone[r]}
    /\ broken' = broken \cup {r}
    /\ UNCHANGED <<window, phone, slotOf, bridgeVars, sessions, stored, task, restarts>>

(* Refused, timed out, incomplete response: the provider may have dialled, *)
(* or may still do so.                                                     *)
MakeCallRaises(r) ==
    /\ req[r] = "calling"
    /\ req' = [req EXCEPT ![r] = "unheard"]
    /\ broken' = broken \cup {r}
    /\ UNCHANGED <<locks, window, phone, slotOf, bridgeVars, sessions, stored, task, restarts>>

(* _save returns, and create_task follows without an await.                *)
SaveReturns(r) ==
    /\ req[r] = "saving"
    /\ req' = [req EXCEPT ![r] = "accepted"]
    /\ stored' = [stored EXCEPT ![r] = "greeting"]
    /\ task' = [task EXCEPT ![r]["callback"] = "running"]
    /\ UNCHANGED <<locks, window, phone, slotOf, bridgeVars, sessions, broken, restarts>>

SaveRaises(r) ==
    /\ req[r] = "saving"
    /\ req' = [req EXCEPT ![r] = "failed"]
    /\ stored' \in {stored, [stored EXCEPT ![r] = "greeting"]}
    /\ broken' = broken \cup {r}
    /\ UNCHANGED <<locks, window, phone, slotOf, bridgeVars, sessions, task, restarts>>

LockExpires(p) ==
    /\ p \in locks /\ window[p] < MaxWindows
    /\ locks' = locks \ {p}
    /\ window' = [window EXCEPT ![p] = @ + 1]
    /\ UNCHANGED <<req, phone, slotOf, bridgeVars, sessions, stored, task, broken, restarts>>

-----------------------------------------------------------------------------
(* The line and the VoxEngine scenario (external), and the bridge.         *)

Dial(c) ==
    /\ c \in Reached /\ ~Outbound(c) /\ line[c] = "none"
    /\ line' = [line EXCEPT ![c] = "connected"]
    /\ UNCHANGED <<requestVars, early, bridge, muted, hangupRequested, sessions,
                   stored, task, broken, restarts>>

Answer(c) ==
    /\ c \in Reached /\ line[c] = "ringing"
    /\ line' = [line EXCEPT ![c] = "connected"]
    /\ early' = IF req[c] \in InFlight THEN early \cup {c} ELSE early
    /\ UNCHANGED <<requestVars, bridge, muted, hangupRequested, sessions,
                   stored, task, broken, restarts>>

(* The client hangs up, or does not answer.                                *)
LineDrops(c) ==
    /\ line[c] \in {"ringing", "connected"}
    /\ line' = [line EXCEPT ![c] = "over"]
    /\ UNCHANGED <<requestVars, early, bridge, muted, hangupRequested, sessions,
                   stored, task, broken, restarts>>

(* The scenario opens the WebSocket once, when the line is connected.      *)
Connect(c) ==
    /\ line[c] = "connected" /\ bridge[c] = "none"
    /\ bridge' = [bridge EXCEPT ![c] = "open"]
    /\ UNCHANGED <<requestVars, line, early, muted, hangupRequested, sessions, stored, task, broken, restarts>>

(* Changed: every call is taken for an inbound one.                        *)
StartReadsNothing(c) ==
    /\ bridge[c] = "open"
    /\ bridge' = [bridge EXCEPT ![c] = "unknown"]
    /\ UNCHANGED <<requestVars, line, early, muted, hangupRequested, sessions, stored, task, broken, restarts>>

(* Changed: a finished dialog counts as none.                              *)
StartReadsUnfinished(c) ==
    /\ bridge[c] = "open"
    /\ bridge' = [bridge EXCEPT ![c] = IF stored[c] # "greeting" THEN "unknown" ELSE "served"]
    /\ UNCHANGED <<requestVars, line, early, muted, hangupRequested, sessions, stored, task, broken, restarts>>

(* "start": what the store answers ...                                     *)
StartReads(c) ==
    /\ bridge[c] = "open"
    /\ bridge' = [bridge EXCEPT ![c] = IF stored[c] = "none" THEN "unknown" ELSE "served"]
    /\ UNCHANGED <<requestVars, line, early, muted, hangupRequested, sessions, stored, task, broken, restarts>>

(* Changed: the task is not started.                                       *)
StartSpawnsNothing(c) ==
    /\ bridge[c] = "unknown"
    /\ bridge' = [bridge EXCEPT ![c] = "served"]
    /\ UNCHANGED <<requestVars, line, early, muted, hangupRequested, sessions, stored, task, broken, restarts>>

(* ... is acted upon when the handler runs again.                          *)
StartSpawns(c) ==
    /\ bridge[c] = "unknown"
    /\ bridge' = [bridge EXCEPT ![c] = "served"]
    /\ task' = [task EXCEPT ![c]["inbound"] = "saving"]
    /\ UNCHANGED <<requestVars, line, early, muted, hangupRequested, sessions, stored, broken, restarts>>

CloseBridge(c) ==
    /\ bridge' = [bridge EXCEPT ![c] = "gone"]
    /\ muted' = muted \ {c}

(* The store raises: the handler ends, and with it the bridge.             *)
StartRaises(c) ==
    /\ bridge[c] = "open"
    /\ CloseBridge(c)
    /\ broken' = broken \cup {c}
    /\ UNCHANGED <<requestVars, line, early, hangupRequested, sessions, stored, task, restarts>>

(* The connection ends while the handler waits for the next message.       *)
Disconnect(c) ==
    /\ Registered(c) /\ bridge[c] # "unknown"
    /\ CloseBridge(c)
    /\ UNCHANGED <<requestVars, line, early, hangupRequested, sessions, stored, task, broken, restarts>>

(* The sender raises, and takes the watcher of hangupRequested with it.    *)
(* The handler of "start" creates the sender before it reads the store.    *)
SenderCrashes(c) ==
    /\ Registered(c) /\ c \notin muted
    /\ muted' = muted \cup {c}
    /\ broken' = broken \cup {c}
    /\ UNCHANGED <<requestVars, line, early, bridge, hangupRequested, sessions, stored, task, restarts>>

WatchHangup(c) ==
    /\ bridge[c] = "served" /\ c \in hangupRequested \ muted
    /\ CloseBridge(c)
    /\ UNCHANGED <<requestVars, line, early, hangupRequested, sessions, stored, task, broken, restarts>>

(* The scenario of an inbound call hangs up when its WebSocket closes.     *)
ScenarioHangsUp(c) ==
    /\ ~Outbound(c) /\ bridge[c] = "gone" /\ line[c] = "connected"
    /\ line' = [line EXCEPT ![c] = "over"]
    /\ UNCHANGED <<requestVars, early, bridge, muted, hangupRequested, sessions,
                   stored, task, broken, restarts>>

-----------------------------------------------------------------------------
(* handle_inbound_call of call c.                                          *)

InboundSaves(c) ==
    /\ task[c]["inbound"] = "saving"
    /\ stored' = [stored EXCEPT ![c] = "greeting"]
    /\ task' = [task EXCEPT ![c]["inbound"] = "running"]
    /\ UNCHANGED <<requestVars, bridgeVars, sessions, broken, restarts>>

InboundSaveRaises(c) ==
    /\ task[c]["inbound"] = "saving"
    /\ task' = [task EXCEPT ![c]["inbound"] = "over"]
    /\ stored' \in {stored, [stored EXCEPT ![c] = "greeting"]}
    /\ broken' = broken \cup {c}
    /\ UNCHANGED <<requestVars, bridgeVars, sessions, restarts>>

-----------------------------------------------------------------------------
(* The task of call c (CallLifecycle has the whole of it).                 *)

TaskSaves(c, o) ==
    /\ task[c][o] = "running"
    /\ task' = [task EXCEPT ![c][o] = "hanging"]
    /\ stored' = [stored EXCEPT ![c] = "terminal"]
    /\ UNCHANGED <<requestVars, bridgeVars, sessions, broken, restarts>>

(* No hangup: the first read or the last save raises, or the goodbye       *)
(* strands (CallLifecycle has both).                                       *)
TaskAborts(c, o) ==
    /\ task[c][o] = "running"
    /\ task' = [task EXCEPT ![c][o] = "over"]
    /\ stored' \in {stored, [stored EXCEPT ![c] = "terminal"]}
    /\ broken' = broken \cup {c}
    /\ UNCHANGED <<requestVars, bridgeVars, sessions, restarts>>

(* Changed: a call without a URL is left alone.                            *)
TaskHangsUpByUrl(c, o) ==
    /\ task[c][o] = "hanging"
    /\ task' = [task EXCEPT ![c][o] = "over"]
    /\ sessions' = sessions \ {c}
    /\ line' = IF c \in sessions THEN [line EXCEPT ![c] = "over"] ELSE line
    /\ UNCHANGED <<requestVars, early, bridge, muted, hangupRequested, stored, broken, restarts>>

(* telephony.hangup: by the URL of an outbound call (which may fail), or   *)
(* through the bridge of a call that has none.                             *)
TaskHangsUp(c, o) ==
    /\ task[c][o] = "hanging"
    /\ task' = [task EXCEPT ![c][o] = "over"]
    /\ sessions' = sessions \ {c}
    /\ IF c \in sessions
       THEN /\ \/ line' = [line EXCEPT ![c] = "over"] /\ UNCHANGED broken
               \/ broken' = broken \cup {c} /\ UNCHANGED line
            /\ UNCHANGED hangupRequested
       ELSE /\ hangupRequested' = IF Registered(c) THEN hangupRequested \cup {c}
                                                   ELSE hangupRequested
            /\ UNCHANGED <<line, broken>>
    /\ UNCHANGED <<requestVars, early, bridge, muted, stored, restarts>>

-----------------------------------------------------------------------------
(* The process dies and is started again: requests, tasks, bridges and the *)
(* provider's table are gone; Redis, with any write under way, and the     *)
(* telephone lines are not.                                                *)
Opening(c) == req[c] = "saving" \/ task[c]["inbound"] = "saving"
Running(c) == \E o \in Origins : task[c][o] = "running"
Hanging(c) == \E o \in Origins : task[c][o] = "hanging"
Busy(c) ==
    \/ req[c] \in InFlight
    \/ c \in sessions \/ Opening(c) \/ Running(c) \/ Hanging(c) \/ Registered(c)

RestartProcess ==
    /\ restarts < MaxRestarts
    /\ restarts' = restarts + 1
    /\ req' = [r \in Calls |-> IF req[r] = "calling" THEN "unheard"
                              ELSE IF req[r] \in InFlight THEN "failed" ELSE req[r]]
    /\ sessions' = {}
    /\ bridge' = [c \in Calls |-> IF Registered(c) THEN "gone" ELSE bridge[c]]
    /\ task' = [c \in Calls |-> [o \in Origins |-> IF task[c][o] = "none" THEN "none" ELSE "over"]]
    /\ muted' = {}
    /\ hangupRequested' = {}
    /\ \E written \in SUBSET Calls :
        stored' = [c \in Calls |->
            IF c \in written /\ Running(c) THEN "terminal"
            ELSE IF c \in written /\ Opening(c) THEN "greeting" ELSE stored[c]]
    /\ broken' = broken \cup {c \in Calls : Busy(c)}
    /\ UNCHANGED <<line, early, phone, slotOf>>

Restart == RestartProcess /\ UNCHANGED <<locks, window>>

-----------------------------------------------------------------------------
RequestStep(r) ==
    \/ AcquireLock(r) \/ AcquireLockRaises(r)
    \/ MakeCallReturns(r) \/ MakeCallRaises(r)
    \/ SaveReturns(r) \/ SaveRaises(r)
BridgeStep(c) ==
    StartReads(c) \/ StartSpawns(c) \/ StartRaises(c) \/ WatchHangup(c)
InboundStep(c) == InboundSaves(c) \/ InboundSaveRaises(c)
TaskStep(c) == \E o \in Origins : TaskSaves(c, o) \/ TaskAborts(c, o) \/ TaskHangsUp(c, o)

Next ==
    \/ \E r \in Calls : RequestCallback(r) \/ RequestStep(r) \/ CallPlaced(r)
    \/ \E p \in Phones : LockExpires(p)
    \/ \E c \in Calls :
        \/ Dial(c) \/ Answer(c) \/ LineDrops(c) \/ Connect(c) \/ Disconnect(c)
        \/ SenderCrashes(c) \/ ScenarioHangsUp(c)
        \/ BridgeStep(c) \/ InboundStep(c) \/ TaskStep(c)
    \/ Restart

(* The process runs its requests and tasks to their end (the clients of the*)
(* provider and of Redis time out; CallEnds of CallLifecycle), and the     *)
(* scenario of an inbound call does hang up.                               *)
Fairness ==
    \A c \in Calls :
        /\ WF_vars(RequestStep(c))
        /\ WF_vars(BridgeStep(c))
        /\ WF_vars(InboundStep(c))
        /\ WF_vars(TaskStep(c))
        /\ WF_vars(ScenarioHangsUp(c))

Spec == Init /\ [][Next]_vars
FairSpec == Spec /\ Fairness

-----------------------------------------------------------------------------
(* What the entry points promise.                                          *)

(* A client is not rung more often than the dedupe window allows: up to    *)
(* any moment no more calls have been placed to a number than windows have *)
(* begun, whatever fails, however late the provider dials and even if the  *)
(* process restarts in between.  (In one window the phone may ring twice:  *)
(* a provider that dials after the lock has expired uses up its own        *)
(* window's call in the next.)                                             *)
Placed(p) == {r \in Calls : Outbound(r) /\ phone[r] = p /\ line[r] # "none"}
CallsAreRationed == \A p \in Phones : Cardinality(Placed(p)) <= window[p]

(* One call is processed by one task, in spite of lost answers of the      *)
(* provider, late calls, restarts and bridges that come and go; only a     *)
(* client who answers while handle_callback is still setting the call up   *)
(* may be taken for an inbound caller and be given a second one.           *)
OneTaskPerCall ==
    \A c \in Calls \ early : task[c]["callback"] = "none" \/ task[c]["inbound"] = "none"

(* A finished dialog is never reopened: not by a bridge that connects late *)
(* (a hangup that failed), nor by the start of another task (unless the    *)
(* client answered early).                                                 *)
FinishedStaysFinished ==
    [][\A c \in Calls \ early : stored[c] = "terminal" => stored'[c] = "terminal"]_vars

(* The inductive invariants behind the three (see Callback_proofs).        *)

(* A slot of the current window means that the lock is still set, and a    *)
(* request whose call may have been placed has a slot of its own.          *)
WindowInv ==
    /\ \A r \in Calls : slotOf[r] <= window[phone[r]]
    /\ \A r \in Calls : slotOf[r] = window[phone[r]] => phone[r] \in locks
    /\ \A r, s \in Calls :
        r # s /\ phone[r] = phone[s] /\ slotOf[r] # 0 => slotOf[r] # slotOf[s]
    /\ \A r \in Calls : req[r] \in {"calling", "saving", "accepted", "unheard"} => slotOf[r] # 0
    /\ \A r \in Calls : Outbound(r) /\ line[r] # "none" => slotOf[r] # 0
    /\ \A r \in sessions : line[r] # "none"

(* While handle_callback is under way no bridge is open, unless the client *)
(* answered early; an inbound task starts once, from a bridge, and then    *)
(* only where no callback task has saved.                                  *)
OriginInv ==
    /\ \A c \in Calls : line[c] = "none" => bridge[c] = "none"
    /\ \A c \in Calls \ early :
        req[c] \in InFlight => line[c] # "connected" /\ bridge[c] = "none"
    /\ \A c \in Calls : bridge[c] \in {"none", "open", "unknown"} => task[c]["inbound"] = "none"
    /\ \A c \in Calls :
        task[c]["callback"] # "none" =>
            /\ req[c] = "accepted" /\ stored[c] # "none"
            /\ bridge[c] = "unknown" => c \in early
            /\ task[c]["callback"] # "saving"
    /\ OneTaskPerCall
    /\ \A c \in Calls :
        stored[c] = "terminal" => \E o \in Origins : task[c][o] \in {"hanging", "over"}

(* Whoever is connected is talked to: once the "start" of a bridge has     *)
(* been handled, a task processes the call, unless its setup was cut short.*)
Processed(c) == \E o \in Origins : task[c][o] \in {"running", "hanging", "over"}
ConnectedIsServed ==
    \A c \in Calls :
        bridge[c] \in {"unknown", "served"} ~> (Processed(c) \/ c \in broken)

(* A processed call is hung up in the end, by the URL or by the bridge.    *)
ProcessedIsHungUp ==
    \A c \in Calls : Processed(c) ~> (line[c] = "over" \/ c \in broken)

(* media_ws.py:153: a call without a state is an inbound call.             *)
MissingMeansInbound == \A c \in Calls : task[c]["inbound"] # "none" => ~Outbound(c)

(* orchestrator.py:61: a callback is refused as a duplicate only if a call *)
(* to that number has been initiated.                                      *)
DuplicateMeansCalled ==
    \A r \in Calls : req[r] = "duplicate" =>
        \E s \in Calls \ {r} :
            /\ phone[s] = phone[r]
            /\ line[s] # "none" \/ req[s] \in InFlight
=============================================================================
