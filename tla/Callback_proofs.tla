-------------------------- MODULE Callback_proofs --------------------------
(***************************************************************************)
(* Proofs about Callback, for any number of calls, clients, dedupe windows *)
(* and restarts.                                                           *)
(*                                                                         *)
(* WindowInv (a lock that was taken in the current window is still set, so *)
(* that every call placed has a window of its own) carries CallsAreRationed*)
(* by counting; OriginInv (the bridge of a requested call does not open    *)
(* before handle_callback is through, unless the client answered early)    *)
(* carries OneTaskPerCall and FinishedStaysFinished.  ServedInv and        *)
(* HangupInv are the safety that the two liveness properties rest on: no   *)
(* call is in a state that no step of the process leads out of.            *)
(***************************************************************************)
EXTENDS Callback, FiniteSetTheorems, TLAPS

USE CallbackAssumption DEF CallbackAssumption

(* One case per action: what the proofs split Next into.                   *)
LEMMA NextCases ==
  ASSUME Next
  PROVE  \/ \E r \in Calls :
              \/ RequestCallback(r) \/ AcquireLock(r) \/ AcquireLockRaises(r)
              \/ CallPlaced(r) \/ MakeCallReturns(r) \/ MakeCallRaises(r)
              \/ SaveReturns(r) \/ SaveRaises(r)
         \/ \E p \in Phones : LockExpires(p)
         \/ \E c \in Calls :
              \/ Dial(c) \/ Answer(c) \/ LineDrops(c) \/ ScenarioHangsUp(c)
              \/ Connect(c) \/ StartReads(c) \/ StartSpawns(c) \/ StartRaises(c)
              \/ Disconnect(c) \/ SenderCrashes(c) \/ WatchHangup(c)
              \/ InboundSaves(c) \/ InboundSaveRaises(c)
         \/ \E c \in Calls, o \in Origins :
              TaskSaves(c, o) \/ TaskAborts(c, o) \/ TaskHangsUp(c, o)
         \/ Restart
  BY DEF Next, RequestStep, BridgeStep, InboundStep, TaskStep

-----------------------------------------------------------------------------
(* The initial states are well typed.                                      *)
LEMMA InitType == Init => TypeOK
  BY DEF Init, TypeOK, Attached, InFlight

(* Every step of a request keeps the types.                                *)
LEMMA RequestType ==
  ASSUME TypeOK, NEW r \in Calls,
         \/ RequestCallback(r) \/ AcquireLock(r) \/ AcquireLockRaises(r)
         \/ CallPlaced(r) \/ MakeCallReturns(r) \/ MakeCallRaises(r)
         \/ SaveReturns(r) \/ SaveRaises(r)
  PROVE  TypeOK'
  <1> USE DEF TypeOK, InFlight, Attached, Origins, bridgeVars, requestVars
  <1>1. CASE RequestCallback(r)
    BY <1>1 DEF RequestCallback
  <1>2. CASE AcquireLock(r) \/ AcquireLockRaises(r)
    <2>1. /\ locks' \in {locks, locks \cup {phone[r]}}
          /\ slotOf' \in {slotOf, [slotOf EXCEPT ![r] = window[phone[r]]]}
      BY <1>2 DEF AcquireLock, AcquireLockRaises, TakeLock
    <2>2. \E answer \in {"duplicate", "calling", "failed"} : req' = [req EXCEPT ![r] = answer]
      BY <1>2 DEF AcquireLock, AcquireLockRaises
    <2>3. UNCHANGED <<window, phone, line, early, sessions, bridge, muted, stored, task,
                      hangupRequested, broken, restarts>>
      BY <1>2 DEF AcquireLock, AcquireLockRaises
    <2>4. locks' \subseteq Phones /\ slotOf' \in [Calls -> 0..MaxWindows]
      BY <2>1
    <2>5. req' \in [Calls -> {"none"} \cup InFlight \cup {"accepted", "duplicate", "failed", "unheard"}]
      BY <2>2
    <2> QED
      BY <2>3, <2>4, <2>5
  <1>4. CASE CallPlaced(r)
    BY <1>4 DEF CallPlaced
  <1>5. CASE MakeCallReturns(r)
    BY <1>5 DEF MakeCallReturns
  <1>6. CASE MakeCallRaises(r)
    BY <1>6 DEF MakeCallRaises
  <1>7. CASE SaveReturns(r)
    BY <1>7 DEF SaveReturns
  <1>8. CASE SaveRaises(r)
    BY <1>8 DEF SaveRaises
  <1> QED
    BY <1>1, <1>2, <1>4, <1>5, <1>6, <1>7, <1>8

(* Every step of a line or a bridge keeps the types.                       *)
LEMMA BridgeType ==
  ASSUME TypeOK, NEW c \in Calls,
         \/ Dial(c) \/ Answer(c) \/ LineDrops(c) \/ ScenarioHangsUp(c)
         \/ Connect(c) \/ StartReads(c) \/ StartSpawns(c) \/ StartRaises(c)
         \/ Disconnect(c) \/ SenderCrashes(c) \/ WatchHangup(c)
         \/ InboundSaves(c) \/ InboundSaveRaises(c)
  PROVE  TypeOK'
  <1> USE DEF TypeOK, InFlight, Attached, Origins, bridgeVars, requestVars
  <1>0. CASE Answer(c)
    <2>1. early' \subseteq Calls
      BY <1>0, Zenon DEF Answer
    <2>2. line' = [line EXCEPT ![c] = "connected"]
      BY <1>0 DEF Answer
    <2>3. UNCHANGED <<locks, window, req, phone, slotOf, sessions, bridge, muted, stored, task,
                      hangupRequested, broken, restarts>>
      BY <1>0 DEF Answer
    <2> QED
      BY <2>1, <2>2, <2>3
  <1>1. CASE Dial(c) \/ LineDrops(c) \/ ScenarioHangsUp(c)
    <2>1. \E end \in {"connected", "over"} : line' = [line EXCEPT ![c] = end]
      BY <1>1, Zenon DEF Dial, LineDrops, ScenarioHangsUp
    <2>2. UNCHANGED <<locks, window, req, phone, slotOf, early, sessions, bridge, muted, stored,
                      task, hangupRequested, broken, restarts>>
      BY <1>1, Zenon DEF Dial, LineDrops, ScenarioHangsUp
    <2> QED
      BY <2>1, <2>2
  <1>2. CASE Connect(c)
    BY <1>2 DEF Connect
  <1>7. CASE StartReads(c)
    BY <1>7 DEF StartReads
  <1>3. CASE StartSpawns(c)
    BY <1>3 DEF StartSpawns
  <1>4. CASE StartRaises(c) \/ Disconnect(c) \/ WatchHangup(c)
    BY <1>4 DEF StartRaises, Disconnect, WatchHangup, CloseBridge
  <1>8. CASE SenderCrashes(c)
    BY <1>8 DEF SenderCrashes
  <1>5. CASE InboundSaves(c)
    BY <1>5 DEF InboundSaves
  <1>6. CASE InboundSaveRaises(c)
    BY <1>6 DEF InboundSaveRaises
  <1> QED
    BY <1>0, <1>1, <1>2, <1>3, <1>4, <1>5, <1>6, <1>7, <1>8

(* Every step of a call's task keeps the types.                            *)
LEMMA TaskType ==
  ASSUME TypeOK, NEW c \in Calls, NEW o \in Origins,
         TaskSaves(c, o) \/ TaskAborts(c, o) \/ TaskHangsUp(c, o)
  PROVE  TypeOK'
  <1> USE DEF TypeOK, InFlight, Attached, bridgeVars, requestVars
  <1>1. CASE TaskSaves(c, o)
    BY <1>1 DEF TaskSaves
  <1>2. CASE TaskAborts(c, o)
    BY <1>2 DEF TaskAborts
  <1>3. CASE TaskHangsUp(c, o)
    BY <1>3 DEF TaskHangsUp
  <1> QED
    BY <1>1, <1>2, <1>3

(* A restart keeps the types.                                              *)
LEMMA RestartType ==
  ASSUME TypeOK, Restart
  PROVE  TypeOK'
  BY DEF TypeOK, InFlight, Attached, Restart, RestartProcess

(* The lock's end keeps the types.                                         *)
LEMMA ExpiryType ==
  ASSUME TypeOK, NEW p \in Phones, LockExpires(p)
  PROVE  TypeOK'
  BY DEF TypeOK, LockExpires, bridgeVars

(* Types, for the whole of Callback: in particular a slot is a window of   *)
(* the client, and only the calls of requests have a URL.                  *)
THEOREM TypeCorrect == Spec => []TypeOK
  <1>1. TypeOK /\ [Next]_vars => TypeOK'
    <2> SUFFICES ASSUME TypeOK, [Next]_vars PROVE TypeOK'
      OBVIOUS
    <2>1. CASE UNCHANGED vars
      BY <2>1 DEF TypeOK, vars, requestVars, bridgeVars
    <2>2. CASE Next
      BY <2>2, NextCases, RequestType, BridgeType, TaskType, RestartType, ExpiryType
    <2> QED
      BY <2>1, <2>2
  <1> QED
    BY <1>1, InitType, PTL DEF Spec

-----------------------------------------------------------------------------
(* WindowInv holds initially: no lock, no slot, no call.                   *)
LEMMA InitWindow == Init => WindowInv
  BY DEF Init, WindowInv, Outbound

(* Who takes the lock gets a slot of its own: an equal one would mean that *)
(* the lock is set.                                                        *)
LEMMA LockWindow ==
  ASSUME TypeOK, WindowInv, NEW r \in Calls, AcquireLock(r) \/ AcquireLockRaises(r)
  PROVE  WindowInv'
  <1> USE DEF WindowInv, Outbound, bridgeVars
  <1>0. \A s \in Calls : slotOf[s] \in Nat /\ window[phone[s]] \in Nat \ {0} /\ phone[s] \in Phones
    BY DEF TypeOK
  <1>1. CASE phone[r] \notin locks /\ TakeLock(r)
    <2>1. \A s \in Calls : s # r /\ phone[s] = phone[r] => slotOf[s] # window[phone[r]]
      BY <1>1
    <2>2. slotOf'[r] = window[phone[r]] /\ \A s \in Calls : s # r => slotOf'[s] = slotOf[s]
      BY <1>1 DEF TakeLock, TypeOK
    <2>3. locks' = locks \cup {phone[r]} /\ UNCHANGED <<window, phone, line, sessions>>
      BY <1>1 DEF TakeLock, AcquireLock, AcquireLockRaises
    <2>4. req'[r] \in {"calling", "failed", "duplicate"} /\ \A s \in Calls : s # r => req'[s] = req[s]
      BY DEF AcquireLock, AcquireLockRaises, TypeOK
    <2> QED
      BY <1>0, <2>1, <2>2, <2>3, <2>4
  <1>2. CASE UNCHANGED <<locks, slotOf>>
    <2>1. req[r] = "locking" /\ UNCHANGED <<window, phone, line, sessions>>
      BY DEF AcquireLock, AcquireLockRaises, TypeOK
    <2>2. req'[r] \in {"duplicate", "failed"} \/ (phone[r] \notin locks /\ TakeLock(r))
      BY DEF AcquireLock, AcquireLockRaises, TypeOK
    <2>3. \A s \in Calls : s # r => req'[s] = req[s]
      BY DEF AcquireLock, AcquireLockRaises, TypeOK
    <2> QED
      BY <1>1, <1>2, <2>1, <2>2, <2>3
  <1> QED
    BY <1>1, <1>2 DEF AcquireLock, AcquireLockRaises

(* Every step of the program keeps WindowInv.                              *)
LEMMA StepWindow ==
  ASSUME TypeOK, WindowInv, [Next]_vars
  PROVE  WindowInv'
  <1> USE DEF WindowInv, Outbound, bridgeVars, requestVars
  <1>0. sessions \subseteq Calls
    BY DEF TypeOK
  <1>1. ASSUME NEW r \in Calls,
               \/ RequestCallback(r) \/ CallPlaced(r) \/ MakeCallReturns(r)
               \/ MakeCallRaises(r) \/ SaveReturns(r) \/ SaveRaises(r)
        PROVE  WindowInv'
    <2>1. CASE RequestCallback(r)
      BY <2>1 DEF RequestCallback, TypeOK
    <2>2. CASE CallPlaced(r)
      BY <2>2 DEF CallPlaced, TypeOK
    <2>3. CASE MakeCallReturns(r) \/ MakeCallRaises(r)
      BY <2>3 DEF MakeCallReturns, MakeCallRaises, TypeOK
    <2>4. CASE SaveReturns(r) \/ SaveRaises(r)
      BY <2>4 DEF SaveReturns, SaveRaises, TypeOK
    <2> QED
      BY <1>1, <2>1, <2>2, <2>3, <2>4
  <1>2. ASSUME NEW p \in Phones, LockExpires(p)
        PROVE  WindowInv'
    <2>1. /\ locks' = locks \ {p} /\ window'[p] = window[p] + 1
          /\ \A q \in Phones : q # p => window'[q] = window[q]
          /\ UNCHANGED <<req, phone, slotOf, line, sessions>>
      BY <1>2 DEF LockExpires, TypeOK
    <2>2. \A r \in Calls : slotOf[r] \in Nat /\ window[phone[r]] \in Nat /\ phone[r] \in Phones
      BY DEF TypeOK
    <2> QED
      BY <1>0, <2>1, <2>2
  <1>3. ASSUME NEW c \in Calls,
               \/ Dial(c) \/ Answer(c) \/ LineDrops(c) \/ ScenarioHangsUp(c)
               \/ Connect(c) \/ StartReads(c) \/ StartSpawns(c) \/ StartRaises(c)
               \/ Disconnect(c) \/ SenderCrashes(c) \/ WatchHangup(c)
               \/ InboundSaves(c) \/ InboundSaveRaises(c)
        PROVE  WindowInv'
    <2>1. UNCHANGED <<locks, window, req, phone, slotOf, sessions>>
      BY <1>3 DEF Dial, Answer, LineDrops, ScenarioHangsUp, Connect, StartReads, StartSpawns,
            StartRaises, Disconnect, SenderCrashes, WatchHangup, InboundSaves, InboundSaveRaises, TypeOK
    <2>2. \A d \in Calls : /\ line'[d] # "none" => line[d] # "none" \/ ~Outbound(d)
                           /\ line[d] # "none" => line'[d] # "none"
      BY <1>3 DEF Dial, Answer, LineDrops, ScenarioHangsUp, Connect, StartReads, StartSpawns,
            StartRaises, Disconnect, SenderCrashes, WatchHangup, InboundSaves, InboundSaveRaises, TypeOK
    <2> QED
      BY <1>0, <2>1, <2>2
  <1>4. ASSUME NEW c \in Calls, NEW o \in Origins,
               TaskSaves(c, o) \/ TaskAborts(c, o) \/ TaskHangsUp(c, o)
        PROVE  WindowInv'
    <2>1. UNCHANGED <<locks, window, req, phone, slotOf>> /\ sessions' \subseteq sessions
      BY <1>4 DEF TaskSaves, TaskAborts, TaskHangsUp, TypeOK
    <2>2. \A d \in Calls : line'[d] = "none" <=> line[d] = "none"
      BY <1>4 DEF TaskSaves, TaskAborts, TaskHangsUp, TypeOK
    <2> QED
      BY <1>0, <2>1, <2>2
  <1>5. CASE Restart
    <2>1. /\ UNCHANGED <<locks, window, phone, slotOf, line>> /\ sessions' = {}
          /\ \A r \in Calls : req'[r] = req[r] \/ (req[r] \in InFlight /\ req'[r] = "failed")
                              \/ (req[r] = "calling" /\ req'[r] = "unheard")
      BY <1>5 DEF Restart, RestartProcess, TypeOK
    <2> QED
      BY <2>1 DEF InFlight
  <1>6. CASE UNCHANGED vars
    BY <1>6 DEF vars
  <1> QED
    BY <1>1, <1>2, <1>3, <1>4, <1>5, <1>6, NextCases, LockWindow

(* The windows in which the lock was taken tell the calls placed to a      *)
(* number apart, and all of them have begun.                               *)
LEMMA PlacedInWindows ==
  ASSUME TypeOK, WindowInv, NEW p \in Phones
  PROVE  Cardinality(Placed(p)) <= window[p]
  <1> DEFINE slot == [r \in Placed(p) |-> slotOf[r]]
  <1>1. window[p] \in Nat \ {0}
    BY DEF TypeOK
  <1>2. \A r \in Placed(p) : slotOf[r] \in 1..window[p]
    BY <1>1 DEF Placed, WindowInv, TypeOK
  <1>3. \A r, s \in Placed(p) : slotOf[r] = slotOf[s] => r = s
    BY <1>1, <1>2 DEF Placed, WindowInv, TypeOK
  <1>4. slot \in Injection(Placed(p), 1..window[p])
    BY <1>2, <1>3 DEF Injection, IsInjective
  <1>5. IsFiniteSet(1..window[p]) /\ Cardinality(1..window[p]) = window[p]
    <2>1. 1 \in Int /\ window[p] \in Int
      BY <1>1
    <2>2. /\ IsFiniteSet(1..window[p])
          /\ Cardinality(1..window[p]) = IF 1 > window[p] THEN 0 ELSE window[p] - 1 + 1
      BY <2>1, FS_Interval, Zenon
    <2> QED
      BY <1>1, <2>2
  <1> QED
    BY <1>4, <1>5, FS_Injection

(* No client is rung more often than dedupe windows have begun for the     *)
(* number, with any number of requests, whatever fails, however late the   *)
(* provider dials and across restarts.                                     *)
THEOREM Rationed == Spec => []CallsAreRationed
  <1>1. TypeOK /\ WindowInv => CallsAreRationed
    BY PlacedInWindows DEF CallsAreRationed
  <1>2. TypeOK /\ WindowInv /\ [Next]_vars => WindowInv'
    BY StepWindow
  <1> QED
    BY <1>1, <1>2, InitWindow, TypeCorrect, PTL DEF Spec

-----------------------------------------------------------------------------
(* OriginInv holds initially: no call, no bridge, no task.                 *)
LEMMA InitOrigin == Init => OriginInv
  BY DEF Init, OriginInv, OneTaskPerCall, InFlight, Origins

(* While handle_callback is under way for call c, and the client has not   *)
(* answered yet, no task has ever run for it, and its dialog is not        *)
(* finished.                                                               *)
LEMMA NoTaskYet ==
  ASSUME TypeOK, OriginInv, NEW c \in Calls \ early, req[c] \in InFlight
  PROVE  /\ bridge[c] = "none"
         /\ \A o \in Origins : task[c][o] = "none"
         /\ stored[c] # "terminal"
  BY DEF TypeOK, OriginInv, InFlight, Origins

(* While handle_inbound_call is saving, the dialog is not finished: no     *)
(* other task has run for the call.                                        *)
LEMMA NotFinishedYet ==
  ASSUME TypeOK, OriginInv, NEW c \in Calls \ early, task[c]["inbound"] = "saving"
  PROVE  stored[c] # "terminal" /\ task[c]["callback"] = "none" /\ bridge[c] \notin {"none", "open", "unknown"}
  BY DEF TypeOK, OriginInv, OneTaskPerCall, Origins

(* The steps of handle_callback keep OriginInv.                            *)
LEMMA RequestOrigin ==
  ASSUME TypeOK, OriginInv, NEW r \in Calls,
         \/ RequestCallback(r) \/ AcquireLock(r) \/ AcquireLockRaises(r)
         \/ CallPlaced(r) \/ MakeCallReturns(r) \/ MakeCallRaises(r)
         \/ SaveReturns(r) \/ SaveRaises(r)
  PROVE  OriginInv'
  <1> USE DEF OriginInv, OneTaskPerCall, InFlight, bridgeVars
  <1>1. CASE RequestCallback(r)
    BY <1>1 DEF RequestCallback, TypeOK
  <1>2. CASE AcquireLock(r) \/ AcquireLockRaises(r)
    BY <1>2 DEF AcquireLock, AcquireLockRaises, TypeOK
  <1>3. CASE CallPlaced(r)
    BY <1>3 DEF CallPlaced, TypeOK, requestVars
  <1>4. CASE MakeCallReturns(r) \/ MakeCallRaises(r)
    BY <1>4 DEF MakeCallReturns, MakeCallRaises, TypeOK
  <1>5. CASE SaveReturns(r)
    BY <1>5, NoTaskYet DEF SaveReturns, TypeOK, Origins
  <1>6. CASE SaveRaises(r)
    BY <1>6, NoTaskYet DEF SaveRaises, TypeOK, Origins
  <1> QED
    BY <1>1, <1>2, <1>3, <1>4, <1>5, <1>6

(* The steps of lines and bridges keep OriginInv.                          *)
LEMMA BridgeOrigin ==
  ASSUME TypeOK, OriginInv, NEW c \in Calls,
         \/ Dial(c) \/ Answer(c) \/ LineDrops(c) \/ ScenarioHangsUp(c)
         \/ Connect(c) \/ StartReads(c) \/ StartSpawns(c) \/ StartRaises(c)
         \/ Disconnect(c) \/ SenderCrashes(c) \/ WatchHangup(c)
         \/ InboundSaves(c) \/ InboundSaveRaises(c)
  PROVE  OriginInv'
  <1> USE DEF OriginInv, OneTaskPerCall, requestVars
  <1>1. CASE Dial(c) \/ Answer(c) \/ LineDrops(c) \/ ScenarioHangsUp(c)
    BY <1>1 DEF Dial, Answer, LineDrops, ScenarioHangsUp, TypeOK, InFlight, Outbound
  <1>2. CASE Connect(c) \/ StartReads(c)
    BY <1>2 DEF Connect, StartReads, TypeOK, InFlight
  <1>3. CASE StartSpawns(c)
    BY <1>3 DEF StartSpawns, TypeOK, InFlight, Origins
  <1>4. CASE StartRaises(c) \/ Disconnect(c) \/ SenderCrashes(c) \/ WatchHangup(c)
    BY <1>4 DEF StartRaises, Disconnect, SenderCrashes, WatchHangup, CloseBridge, TypeOK,
         InFlight, Registered, Attached
  <1>5. CASE InboundSaves(c) \/ InboundSaveRaises(c)
    <2>1. task[c]["inbound"] = "saving" /\ UNCHANGED <<req, line, early, bridge>>
      BY <1>5 DEF InboundSaves, InboundSaveRaises, bridgeVars
    <2>2. /\ stored'[c] \in {stored[c], "greeting"}
          /\ \A d \in Calls : d # c => stored'[d] = stored[d]
      BY <1>5 DEF InboundSaves, InboundSaveRaises, TypeOK
    <2>3. /\ task'[c]["callback"] = task[c]["callback"]
          /\ \A d \in Calls : d # c => task'[d] = task[d]
      BY <1>5 DEF InboundSaves, InboundSaveRaises, TypeOK, Origins
    <2>4. bridge[c] \notin {"none", "open", "unknown"}
      BY <2>1
    <2>5. c \notin early => task[c]["callback"] = "none"
      BY <2>1, NotFinishedYet
    <2>6. stored'[c] = "terminal" => task[c]["callback"] \in {"hanging", "over"}
      BY <2>1, <2>2 DEF Origins
    <2> QED
      BY <2>1, <2>2, <2>3, <2>4, <2>5, <2>6 DEF Origins
  <1> QED
    BY <1>1, <1>2, <1>3, <1>4, <1>5

(* The steps of a call's task keep OriginInv.                              *)
LEMMA TaskOrigin ==
  ASSUME TypeOK, OriginInv, NEW c \in Calls, NEW o \in Origins,
         TaskSaves(c, o) \/ TaskAborts(c, o) \/ TaskHangsUp(c, o)
  PROVE  OriginInv'
  <1> USE DEF OriginInv, OneTaskPerCall, requestVars, TypeOK, InFlight, Origins
  <1>1. CASE TaskSaves(c, o)
    BY <1>1 DEF TaskSaves, bridgeVars
  <1>2. CASE TaskAborts(c, o)
    BY <1>2 DEF TaskAborts, bridgeVars
  <1>3. CASE TaskHangsUp(c, o)
    BY <1>3 DEF TaskHangsUp
  <1> QED
    BY <1>1, <1>2, <1>3

(* A restart keeps OriginInv: a write under way lands only where its task  *)
(* was.                                                                    *)
LEMMA RestartOrigin ==
  ASSUME TypeOK, OriginInv, Restart
  PROVE  OriginInv'
  <1> USE DEF Origins, InFlight
  <1>1. \A c \in Calls : /\ line'[c] = line[c]
                         /\ req'[c] \in InFlight => req[c] \in InFlight
                         /\ req[c] = "accepted" => req'[c] = "accepted"
                         /\ bridge[c] = "none" <=> bridge'[c] = "none"
                         /\ bridge'[c] \notin {"open", "unknown"}
                         /\ early' = early
    BY DEF Restart, RestartProcess, TypeOK, Registered, Attached
  <1>2. \A c \in Calls : \A o \in Origins :
            task'[c][o] = IF task[c][o] = "none" THEN "none" ELSE "over"
    BY DEF Restart, RestartProcess
  <1>3. \A c \in Calls : \/ stored'[c] = stored[c]
                         \/ stored'[c] = "terminal" /\ Running(c)
                         \/ stored'[c] = "greeting"
    BY DEF Restart, RestartProcess
  <1> QED
    BY <1>1, <1>2, <1>3 DEF OriginInv, OneTaskPerCall, Running

(* Every step keeps OriginInv.                                             *)
LEMMA StepOrigin ==
  ASSUME TypeOK, OriginInv, [Next]_vars
  PROVE  OriginInv'
  <1>1. CASE UNCHANGED vars
    BY <1>1 DEF OriginInv, OneTaskPerCall, vars, requestVars, bridgeVars
  <1>2. ASSUME NEW p \in Phones, LockExpires(p)
        PROVE  OriginInv'
    BY <1>2 DEF OriginInv, OneTaskPerCall, LockExpires, bridgeVars
  <1>3. CASE Next
    BY <1>2, <1>3, NextCases, RequestOrigin, BridgeOrigin, TaskOrigin, RestartOrigin
  <1> QED
    BY <1>1, <1>3

(* The finished dialog of a call not answered early is not reopened by any *)
(* step.                                                                   *)
LEMMA StepFinished ==
  ASSUME TypeOK, OriginInv, [Next]_vars, NEW c \in Calls \ early, stored[c] = "terminal"
  PROVE  stored'[c] = "terminal"
  <1>1. ASSUME NEW r \in Calls, SaveReturns(r) \/ SaveRaises(r)
        PROVE  stored'[c] = "terminal"
    BY <1>1, NoTaskYet DEF SaveReturns, SaveRaises, TypeOK, InFlight
  <1>2. ASSUME NEW d \in Calls, InboundSaves(d) \/ InboundSaveRaises(d)
        PROVE  stored'[c] = "terminal"
    BY <1>2, NotFinishedYet DEF InboundSaves, InboundSaveRaises, TypeOK
  <1>3. ASSUME NEW d \in Calls, NEW o \in Origins,
               TaskSaves(d, o) \/ TaskAborts(d, o) \/ TaskHangsUp(d, o)
        PROVE  stored'[c] = "terminal"
    BY <1>3 DEF TaskSaves, TaskAborts, TaskHangsUp, TypeOK
  <1>4. CASE Restart
    BY <1>4, NoTaskYet, NotFinishedYet DEF Restart, RestartProcess, Opening, InFlight
  <1>5. ASSUME stored' = stored
        PROVE  stored'[c] = "terminal"
    BY <1>5
  <1> QED
    BY <1>1, <1>2, <1>3, <1>4, <1>5, NextCases
    DEF vars, bridgeVars, requestVars, RequestCallback, AcquireLock, AcquireLockRaises, CallPlaced,
        MakeCallReturns, MakeCallRaises, LockExpires, Dial, Answer, LineDrops, ScenarioHangsUp,
        Connect, StartReads, StartSpawns, StartRaises, Disconnect, SenderCrashes, WatchHangup

(* A call that was not answered before handle_callback had saved its state *)
(* is processed by one task.                                               *)
THEOREM OneTask == Spec => []OneTaskPerCall
  <1>1. TypeOK /\ OriginInv /\ [Next]_vars => OriginInv'
    BY StepOrigin
  <1>2. OriginInv => OneTaskPerCall
    BY DEF OriginInv
  <1> QED
    BY <1>1, <1>2, InitOrigin, TypeCorrect, PTL DEF Spec

(* No step of any task, and no restart, reopens the finished dialog of     *)
(* such a call.                                                            *)
THEOREM Finished == Spec => FinishedStaysFinished
  <1>1. TypeOK /\ OriginInv /\ [Next]_vars => OriginInv'
    BY StepOrigin
  <1>2. TypeOK /\ OriginInv /\ [Next]_vars
        => [\A c \in Calls \ early : stored[c] = "terminal" => stored'[c] = "terminal"]_vars
    BY StepFinished
  <1> QED
    BY <1>1, <1>2, InitOrigin, TypeCorrect, PTL DEF Spec, FinishedStaysFinished

-----------------------------------------------------------------------------
(* The safety that ConnectedIsServed rests on.                             *)

(* Once the "start" of a bridge has been handled the call has a task, with *)
(* its first save before it or behind it.                                  *)
HasTask(c) == task[c]["inbound"] = "saving" \/ Processed(c)
ServedHasTask == \A c \in Calls \ broken : bridge[c] = "served" => HasTask(c)

(* Whoever has saved a state has started to process the call; a bridge     *)
(* starts its task once.                                                   *)
ServedInv ==
    /\ \A c \in Calls : bridge[c] \in {"none", "open", "unknown"} => task[c]["inbound"] = "none"
    /\ \A c \in Calls \ broken :
          /\ bridge[c] = "served" => HasTask(c)
          /\ stored[c] # "none" => Processed(c)

(* The steps of handle_callback keep ServedInv.                            *)
LEMMA RequestServed ==
  ASSUME TypeOK, ServedInv, NEW r \in Calls,
         \/ RequestCallback(r) \/ AcquireLock(r) \/ AcquireLockRaises(r)
         \/ CallPlaced(r) \/ MakeCallReturns(r) \/ MakeCallRaises(r)
         \/ SaveReturns(r) \/ SaveRaises(r)
  PROVE  ServedInv'
  <1> USE DEF ServedInv, HasTask, Processed, Origins
  <1>1. CASE SaveReturns(r)
    BY <1>1 DEF SaveReturns, TypeOK, bridgeVars
  <1>2. CASE SaveRaises(r)
    BY <1>2 DEF SaveRaises, TypeOK, bridgeVars
  <1>3. ASSUME UNCHANGED <<bridge, stored, task>>, broken \subseteq broken'
        PROVE  ServedInv'
    BY <1>3
  <1> QED
    BY <1>1, <1>2, <1>3
    DEF RequestCallback, AcquireLock, AcquireLockRaises, CallPlaced, MakeCallReturns,
        MakeCallRaises, bridgeVars

(* The steps of lines and bridges, and of the inbound task, keep it.       *)
LEMMA BridgeServed ==
  ASSUME TypeOK, ServedInv, NEW c \in Calls,
         \/ Dial(c) \/ Answer(c) \/ LineDrops(c) \/ ScenarioHangsUp(c)
         \/ Connect(c) \/ StartReads(c) \/ StartSpawns(c) \/ StartRaises(c)
         \/ Disconnect(c) \/ SenderCrashes(c) \/ WatchHangup(c)
         \/ InboundSaves(c) \/ InboundSaveRaises(c)
  PROVE  ServedInv'
  <1> USE DEF ServedInv, HasTask, Processed, Origins
  <1>1. CASE Dial(c) \/ Answer(c) \/ LineDrops(c) \/ ScenarioHangsUp(c)
    BY <1>1 DEF Dial, Answer, LineDrops, ScenarioHangsUp
  <1>2. CASE Connect(c) \/ StartReads(c)
    BY <1>2 DEF Connect, StartReads, TypeOK
  <1>3. CASE StartSpawns(c)
    BY <1>3 DEF StartSpawns, TypeOK
  <1>4. CASE StartRaises(c) \/ Disconnect(c) \/ SenderCrashes(c) \/ WatchHangup(c)
    BY <1>4 DEF StartRaises, Disconnect, SenderCrashes, WatchHangup, CloseBridge, TypeOK,
         Registered, Attached
  <1>5. CASE InboundSaves(c)
    BY <1>5 DEF InboundSaves, bridgeVars, TypeOK
  <1>6. CASE InboundSaveRaises(c)
    BY <1>6 DEF InboundSaveRaises, bridgeVars, TypeOK
  <1> QED
    BY <1>1, <1>2, <1>3, <1>4, <1>5, <1>6

(* So do the steps of a call's task, which only go forward.                *)
LEMMA TaskServed ==
  ASSUME TypeOK, ServedInv, NEW c \in Calls, NEW o \in Origins,
         TaskSaves(c, o) \/ TaskAborts(c, o) \/ TaskHangsUp(c, o)
  PROVE  ServedInv'
  <1> USE DEF ServedInv, HasTask, Processed, TypeOK, Origins
  <1>1. CASE TaskSaves(c, o)
    BY <1>1 DEF TaskSaves, bridgeVars
  <1>2. CASE TaskAborts(c, o)
    BY <1>2 DEF TaskAborts, bridgeVars
  <1>3. CASE TaskHangsUp(c, o)
    BY <1>3 DEF TaskHangsUp
  <1> QED
    BY <1>1, <1>2, <1>3

(* What was under way at a restart has been cut short by it.               *)
LEMMA RestartServed ==
  ASSUME TypeOK, ServedInv, Restart
  PROVE  ServedInv'
  <1>1. \A c \in Calls : \A o \in Origins :
            task'[c][o] = IF task[c][o] = "none" THEN "none" ELSE "over"
    BY DEF Restart, RestartProcess
  <1>2. \A c \in Calls : bridge'[c] = IF Registered(c) THEN "gone" ELSE bridge[c]
    BY DEF Restart, RestartProcess
  <1>3. \A c \in Calls : ~Opening(c) /\ ~Running(c) => stored'[c] = stored[c]
    BY DEF Restart, RestartProcess
  <1>4. \A c \in Calls \ broken' : c \notin broken /\ ~Opening(c) /\ ~Running(c)
    BY DEF Restart, RestartProcess, Busy
  <1> QED
    BY <1>1, <1>2, <1>3, <1>4 DEF ServedInv, HasTask, Processed, Origins, Registered, Attached

(* Every step keeps ServedInv.                                             *)
LEMMA StepServed ==
  ASSUME TypeOK, ServedInv, [Next]_vars
  PROVE  ServedInv'
  <1>1. CASE UNCHANGED vars
    BY <1>1 DEF ServedInv, HasTask, Processed, vars, requestVars, bridgeVars
  <1>2. ASSUME NEW p \in Phones, LockExpires(p)
        PROVE  ServedInv'
    BY <1>2 DEF ServedInv, HasTask, Processed, LockExpires, bridgeVars
  <1>3. CASE Next
    BY <1>2, <1>3, NextCases, RequestServed, BridgeServed, TaskServed, RestartServed
  <1> QED
    BY <1>1, <1>3

(* Nobody is connected without a task that will talk to them, unless an    *)
(* exception or a restart cut the setup short: when a bridge finds a       *)
(* state, whoever saved it has started to process the call.                *)
THEOREM ServedHaveTasks == Spec => []ServedHasTask
  <1>1. Init => ServedInv
    BY DEF Init, ServedInv, Processed, Origins
  <1>2. TypeOK /\ ServedInv /\ [Next]_vars => ServedInv'
    BY StepServed
  <1>3. ServedInv => ServedHasTask
    BY DEF ServedInv, ServedHasTask
  <1> QED
    BY <1>1, <1>2, <1>3, TypeCorrect, PTL DEF Spec

-----------------------------------------------------------------------------
(* The safety that ProcessedIsHungUp rests on.                             *)

Unfinished(c) == \E o \in Origins : task[c][o] \in {"saving", "running", "hanging"}

(* The line of an inbound call is about to be closed: by the watcher of    *)
(* its bridge and then the scenario, or by the scenario alone.             *)
HangupPending(c) ==
    /\ ~Outbound(c) /\ line[c] = "connected"
    /\ \/ bridge[c] = "gone"
       \/ bridge[c] = "served" /\ c \in hangupRequested \ muted

(* A call whose tasks are through is over, or will be without them.        *)
NoneStranded ==
    \A c \in Calls \ (broken \cup early) :
        Processed(c) /\ ~Unfinished(c) => line[c] = "over" \/ HangupPending(c)

(* As long as nothing has cut call c short, and it was not answered early: *)
(* whoever hangs it up by its URL has that URL, and an inbound task has an *)
(* inbound call.                                                           *)
HangupInv(c) ==
    /\ req[c] = "saving" \/ task[c]["callback"] \in {"running", "hanging"} => c \in sessions
    /\ c \in sessions => Outbound(c)
    /\ bridge[c] = "unknown" \/ task[c]["inbound"] # "none" => ~Outbound(c)
    /\ c \notin muted /\ req[c] # "unheard"
    /\ req[c] \in {"locking", "duplicate", "failed"} => line[c] = "none"
    /\ req[c] = "accepted" => stored[c] # "none"
    /\ line[c] = "ringing" => Outbound(c)
    /\ Processed(c) /\ ~Unfinished(c) => line[c] = "over" \/ HangupPending(c)

(* What HangupInv says of a call is about these.                           *)
Of(c) == <<req[c], task[c], c \in sessions, bridge[c], c \in muted, line[c], stored[c],
           c \in hangupRequested>>

(* A step that is not about call c leaves HangupInv of it alone.           *)
LEMMA OthersHangup ==
  ASSUME NEW c \in Calls, HangupInv(c), UNCHANGED Of(c)
  PROVE  HangupInv(c)'
  BY DEF HangupInv, Of, Outbound, Processed, Unfinished, HangupPending

(* The steps of handle_callback keep HangupInv of their own call.          *)
LEMMA RequestHangup ==
  ASSUME TypeOK, OriginInv, NEW r \in Calls \ early, HangupInv(r), r \notin broken',
         \/ RequestCallback(r) \/ AcquireLock(r) \/ AcquireLockRaises(r)
         \/ CallPlaced(r) \/ MakeCallReturns(r) \/ MakeCallRaises(r)
         \/ SaveReturns(r) \/ SaveRaises(r)
  PROVE  HangupInv(r)'
  <1> USE DEF HangupInv, Outbound, Processed, Unfinished, HangupPending, Origins, TypeOK
  <1>a. req[r] \in InFlight => bridge[r] = "none" /\ \A o \in Origins : task[r][o] = "none"
    BY NoTaskYet
  <1>1. CASE RequestCallback(r)
    <2>1. bridge[r] = "none" /\ \A o \in Origins : task[r][o] = "none"
      BY <1>1 DEF RequestCallback, OriginInv
    <2> QED
      BY <1>1, <2>1 DEF RequestCallback, bridgeVars
  <1>2. CASE AcquireLock(r)
    BY <1>2, <1>a DEF AcquireLock, bridgeVars, InFlight
  <1>3. CASE AcquireLockRaises(r)
    BY <1>3, <1>a DEF AcquireLockRaises, bridgeVars, InFlight
  <1>4. CASE CallPlaced(r)
    BY <1>4, <1>a DEF CallPlaced, requestVars, InFlight
  <1>5. CASE MakeCallReturns(r)
    BY <1>5, <1>a DEF MakeCallReturns, bridgeVars, InFlight
  <1>6. CASE SaveReturns(r)
    BY <1>6, <1>a DEF SaveReturns, bridgeVars, InFlight
  <1>7. CASE MakeCallRaises(r) \/ SaveRaises(r)
    BY <1>7 DEF MakeCallRaises, SaveRaises
  <1> QED
    BY <1>1, <1>2, <1>3, <1>4, <1>5, <1>6, <1>7

(* The steps of the line and the bridge of a call, and its inbound task.   *)
LEMMA BridgeHangup ==
  ASSUME TypeOK, OriginInv, ServedInv, NEW c \in Calls, HangupInv(c), c \notin broken' \cup early',
         \/ Dial(c) \/ Answer(c) \/ LineDrops(c) \/ ScenarioHangsUp(c)
         \/ Connect(c) \/ StartReads(c) \/ StartSpawns(c) \/ StartRaises(c)
         \/ Disconnect(c) \/ SenderCrashes(c) \/ WatchHangup(c)
         \/ InboundSaves(c) \/ InboundSaveRaises(c)
  PROVE  HangupInv(c)'
  <1> USE DEF HangupInv, Outbound, Processed, Unfinished, HangupPending, Origins, TypeOK, requestVars
  <1>1. CASE Dial(c)
    BY <1>1 DEF Dial, OriginInv
  <1>2. CASE Answer(c) \/ LineDrops(c) \/ ScenarioHangsUp(c)
    BY <1>2 DEF Answer, LineDrops, ScenarioHangsUp
  <1>3. CASE Connect(c)
    BY <1>3 DEF Connect
  <1>4. CASE StartReads(c)
    <2>1. c \notin early
      BY <1>4 DEF StartReads
    <2>2. stored[c] = "none" => ~Outbound(c)
      BY <1>4, <2>1 DEF StartReads, OriginInv, InFlight
    <2> QED
      BY <1>4, <2>2 DEF StartReads
  <1>5. CASE StartSpawns(c)
    BY <1>5 DEF StartSpawns
  <1>6. CASE Disconnect(c) \/ WatchHangup(c)
    BY <1>6 DEF Disconnect, WatchHangup, CloseBridge, Registered, Attached
  <1>7. CASE InboundSaves(c)
    BY <1>7 DEF InboundSaves, bridgeVars
  <1>8. CASE StartRaises(c) \/ SenderCrashes(c) \/ InboundSaveRaises(c)
    BY <1>8 DEF StartRaises, SenderCrashes, InboundSaveRaises
  <1> QED
    BY <1>1, <1>2, <1>3, <1>4, <1>5, <1>6, <1>7, <1>8

(* The hangup of a task: an outbound call is in sessions, and an inbound   *)
(* one has its bridge, or has lost it.                                     *)
LEMMA TaskHangup ==
  ASSUME TypeOK, OriginInv, NEW c \in Calls \ early, NEW o \in Origins,
         HangupInv(c), c \notin broken',
         TaskSaves(c, o) \/ TaskAborts(c, o) \/ TaskHangsUp(c, o)
  PROVE  HangupInv(c)'
  <1> USE DEF HangupInv, Outbound, Processed, Unfinished, HangupPending, Origins, TypeOK, requestVars
  <1>1. CASE TaskSaves(c, o)
    BY <1>1 DEF TaskSaves, bridgeVars
  <1>2. CASE TaskAborts(c, o)
    BY <1>2 DEF TaskAborts
  <1>3. CASE TaskHangsUp(c, o)
    <2>1. CASE c \in sessions
      <3>1. line'[c] = "over" /\ UNCHANGED <<req, bridge, muted, stored>>
        BY <1>3, <2>1 DEF TaskHangsUp
      <3>2. o = "callback"
        BY <1>3, <2>1, Zenon DEF TaskHangsUp
      <3>3. task'[c]["callback"] = "over" /\ task'[c]["inbound"] = task[c]["inbound"]
        BY <1>3, <3>2 DEF TaskHangsUp
      <3>4. req[c] = "accepted"
        BY <1>3, <3>2 DEF TaskHangsUp, OriginInv
      <3> QED
        BY <2>1, <3>1, <3>3, <3>4
    <2>2. CASE c \notin sessions
      <3>1. o = "inbound" /\ task[c]["callback"] = "none" /\ ~Outbound(c)
        BY <1>3, <2>2 DEF TaskHangsUp, OriginInv, OneTaskPerCall
      <3>2. bridge[c] \in {"served", "gone"} /\ line[c] \in {"connected", "over"}
        BY <1>3, <3>1 DEF TaskHangsUp, OriginInv, Attached
      <3> QED
        BY <1>3, <2>2, <3>1, <3>2 DEF TaskHangsUp, Registered, Attached
    <2> QED
      BY <2>1, <2>2
  <1> QED
    BY <1>1, <1>2, <1>3

(* A restart leaves a call alone, or has cut it short.                     *)
LEMMA RestartHangup ==
  ASSUME TypeOK, OriginInv, NEW c \in Calls \ early, HangupInv(c), c \notin broken', Restart
  PROVE  HangupInv(c)'
  <1>1. ~Busy(c)
    BY DEF Restart, RestartProcess
  <1>2. \A o \in Origins : task[c][o] \in {"none", "over"}
    BY <1>1 DEF Busy, Opening, Running, Hanging, TypeOK, OriginInv, Origins
  <1>3. /\ req'[c] = req[c] /\ line'[c] = line[c] /\ bridge'[c] = bridge[c]
        /\ stored'[c] = stored[c] /\ c \notin sessions /\ c \notin sessions' /\ c \notin muted'
    BY <1>1 DEF Restart, RestartProcess, Busy, InFlight
  <1>4. \A o \in Origins : task'[c][o] = task[c][o]
    BY <1>2 DEF Restart, RestartProcess
  <1>5. bridge[c] # "served"
    BY <1>1 DEF Busy, Registered, Attached
  <1> QED
    BY <1>3, <1>4, <1>5 DEF HangupInv, Outbound, Processed, Unfinished, HangupPending, Origins

(* Every other step is about one call.                                     *)
LEMMA AboutOne ==
  ASSUME TypeOK, NEW c \in Calls, NEW d \in Calls, d # c,
         \/ RequestCallback(c) \/ AcquireLock(c) \/ AcquireLockRaises(c)
         \/ CallPlaced(c) \/ MakeCallReturns(c) \/ MakeCallRaises(c)
         \/ SaveReturns(c) \/ SaveRaises(c)
         \/ Dial(c) \/ Answer(c) \/ LineDrops(c) \/ ScenarioHangsUp(c)
         \/ Connect(c) \/ StartReads(c) \/ StartSpawns(c) \/ StartRaises(c)
         \/ Disconnect(c) \/ SenderCrashes(c) \/ WatchHangup(c)
         \/ InboundSaves(c) \/ InboundSaveRaises(c)
         \/ \E o \in Origins : TaskSaves(c, o) \/ TaskAborts(c, o) \/ TaskHangsUp(c, o)
  PROVE  UNCHANGED Of(d)
  <1> USE DEF Of, TypeOK, bridgeVars, requestVars
  <1>1. CASE RequestCallback(c) \/ AcquireLock(c) \/ AcquireLockRaises(c)
    BY <1>1 DEF RequestCallback, AcquireLock, AcquireLockRaises
  <1>2. CASE CallPlaced(c) \/ MakeCallReturns(c) \/ MakeCallRaises(c)
    BY <1>2 DEF CallPlaced, MakeCallReturns, MakeCallRaises
  <1>3. CASE SaveReturns(c) \/ SaveRaises(c)
    BY <1>3 DEF SaveReturns, SaveRaises
  <1>4. CASE Dial(c) \/ Answer(c) \/ LineDrops(c) \/ ScenarioHangsUp(c)
    BY <1>4 DEF Dial, Answer, LineDrops, ScenarioHangsUp
  <1>5. CASE Connect(c) \/ StartReads(c) \/ StartSpawns(c) \/ StartRaises(c)
    BY <1>5 DEF Connect, StartReads, StartSpawns, StartRaises, CloseBridge
  <1>6. CASE Disconnect(c) \/ SenderCrashes(c) \/ WatchHangup(c)
    BY <1>6 DEF Disconnect, SenderCrashes, WatchHangup, CloseBridge
  <1>7. CASE InboundSaves(c) \/ InboundSaveRaises(c)
    BY <1>7 DEF InboundSaves, InboundSaveRaises
  <1>8. ASSUME NEW o \in Origins, TaskSaves(c, o) \/ TaskAborts(c, o) \/ TaskHangsUp(c, o)
        PROVE  UNCHANGED Of(d)
    BY <1>8 DEF TaskSaves, TaskAborts, TaskHangsUp
  <1> QED
    BY <1>1, <1>2, <1>3, <1>4, <1>5, <1>6, <1>7, <1>8

(* What has been cut short, or answered early, stays so.                   *)
LEMMA BrokenStays == ASSUME [Next]_vars PROVE broken \subseteq broken' /\ early \subseteq early'
  BY NextCases
  DEF vars, RequestCallback, AcquireLock, AcquireLockRaises, CallPlaced, MakeCallReturns,
      MakeCallRaises, SaveReturns, SaveRaises, LockExpires, Dial, Answer, LineDrops,
      ScenarioHangsUp, Connect, StartReads, StartSpawns, StartRaises, Disconnect, SenderCrashes,
      WatchHangup, InboundSaves, InboundSaveRaises, TaskSaves, TaskAborts, TaskHangsUp, Restart,
      RestartProcess, requestVars, bridgeVars

(* Every step keeps HangupInv of the calls it does not except.             *)
LEMMA StepHangup ==
  ASSUME TypeOK, OriginInv, ServedInv, [Next]_vars,
         \A c \in Calls \ (broken \cup early) : HangupInv(c)
  PROVE  \A c \in Calls \ (broken' \cup early') : HangupInv(c)'
  <1> TAKE d \in Calls \ (broken' \cup early')
  <1>0. d \in Calls \ early /\ d \notin broken' \cup early' /\ HangupInv(d)
    BY BrokenStays
  <1>1. CASE UNCHANGED vars
    BY <1>0, <1>1, OthersHangup DEF Of, vars, requestVars, bridgeVars
  <1>2. ASSUME NEW p \in Phones, LockExpires(p)
        PROVE  HangupInv(d)'
    BY <1>0, <1>2, OthersHangup DEF Of, LockExpires, bridgeVars
  <1>3. CASE Restart
    BY <1>0, <1>3, RestartHangup
  <1>4. CASE Next /\ ~Restart /\ ~\E p \in Phones : LockExpires(p)
    <2>1. PICK c \in Calls :
             \/ RequestCallback(c) \/ AcquireLock(c) \/ AcquireLockRaises(c)
             \/ CallPlaced(c) \/ MakeCallReturns(c) \/ MakeCallRaises(c)
             \/ SaveReturns(c) \/ SaveRaises(c)
             \/ Dial(c) \/ Answer(c) \/ LineDrops(c) \/ ScenarioHangsUp(c)
             \/ Connect(c) \/ StartReads(c) \/ StartSpawns(c) \/ StartRaises(c)
             \/ Disconnect(c) \/ SenderCrashes(c) \/ WatchHangup(c)
             \/ InboundSaves(c) \/ InboundSaveRaises(c)
             \/ \E o \in Origins : TaskSaves(c, o) \/ TaskAborts(c, o) \/ TaskHangsUp(c, o)
      BY <1>4, NextCases, Zenon
    <2>2. CASE d # c
      BY <1>0, <2>1, <2>2, AboutOne, OthersHangup
    <2>3. CASE d = c
      BY <1>0, <2>1, <2>3, RequestHangup, BridgeHangup, TaskHangup
    <2> QED
      BY <2>2, <2>3
  <1> QED
    BY <1>1, <1>2, <1>3, <1>4

(* No call is left on the line without anybody to end it, unless an        *)
(* exception or a restart cut it short or the client answered early: when  *)
(* its tasks are through it is over, or the watcher of its bridge and the  *)
(* scenario have yet to end it.                                            *)
THEOREM NobodyStranded == Spec => []NoneStranded
  <1> DEFINE Inv == \A c \in Calls \ (broken \cup early) : HangupInv(c)
  <1>1. Init => ServedInv /\ OriginInv /\ Inv
    BY InitOrigin DEF Init, ServedInv, HangupInv, Processed, Origins, Outbound
  <1>2. TypeOK /\ OriginInv /\ ServedInv /\ Inv /\ [Next]_vars => OriginInv' /\ ServedInv' /\ Inv'
    BY StepOrigin, StepServed, StepHangup
  <1>3. Inv => NoneStranded
    BY DEF HangupInv, NoneStranded
  <1> QED
    <2> HIDE DEF Inv
    <2> QED
      BY <1>1, <1>2, <1>3, TypeCorrect, PTL DEF Spec
=============================================================================
