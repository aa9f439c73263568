-------------------------- MODULE AsteriskCalls_proofs --------------------------
(***************************************************************************)
(* Proofs about AsteriskCalls, for any number of calls: its types, and the *)
(* three invariants of the table of channels and of the pump.              *)
(***************************************************************************)
EXTENDS AsteriskCalls, TLAPS

USE AsteriskAssumption DEF AsteriskAssumption

-----------------------------------------------------------------------------
(* The events: what a queue holds after one is put into it or taken out.   *)

(* An event occurs at most once in a queue.                                *)
OnlyOnce(x, s) == \A i, j \in DOMAIN s : s[i] = x /\ s[j] = x => i = j

(* A queue that an event is appended to holds it and what it held.         *)
LEMMA EventsAppended ==
    ASSUME NEW S, NEW s \in Seq(S), NEW e \in S
    PROVE  Append(s, e) \in Seq(S) /\ \A x : x \in ToSet(s) \/ x = e => x \in ToSet(Append(s, e))
  BY DEF ToSet

(* What is behind the first event of a queue stays in it.                  *)
LEMMA EventsTaken ==
    ASSUME NEW S, NEW s \in Seq(S), s # <<>>
    PROVE  /\ Head(s) \in S /\ Tail(s) \in Seq(S)
           /\ \A x \in ToSet(s) : x = Head(s) \/ x \in ToSet(Tail(s))
  <1>1. ASSUME NEW i \in DOMAIN s, i # 1 PROVE i - 1 \in DOMAIN Tail(s) /\ Tail(s)[i - 1] = s[i]
    BY <1>1
  <1>2. \A x \in ToSet(s) : x = Head(s) \/ x \in ToSet(Tail(s))
    BY <1>1, SMTT(30) DEF ToSet
  <1> QED BY <1>2

(* An event that came once comes once still, when another is added,        *)
LEMMA OnceAppended ==
    ASSUME NEW S, NEW s \in Seq(S), NEW e \in S, NEW x, OnlyOnce(x, s), e # x \/ x \notin ToSet(s)
    PROVE  OnlyOnce(x, Append(s, e)) /\ (x \in ToSet(Append(s, e)) => x \in ToSet(s) \/ x = e)
  BY DEF OnlyOnce, ToSet

(* and not at all once it has been taken.                                  *)
LEMMA OnceTaken ==
    ASSUME NEW S, NEW s \in Seq(S), s # <<>>, NEW x, OnlyOnce(x, s)
    PROVE  /\ OnlyOnce(x, Tail(s))
           /\ x \in ToSet(Tail(s)) => x \in ToSet(s) /\ x # Head(s)
  <1>1. ASSUME NEW i \in DOMAIN Tail(s) PROVE i + 1 \in DOMAIN s /\ Tail(s)[i] = s[i + 1] /\ i \in Nat
    BY <1>1
  <1>2. OnlyOnce(x, Tail(s))
    BY <1>1 DEF OnlyOnce
  <1>3. ASSUME x \in ToSet(Tail(s)) PROVE x \in ToSet(s) /\ x # Head(s)
    <2>1. PICK i \in DOMAIN Tail(s) : x = Tail(s)[i]
      BY <1>3 DEF ToSet
    <2>2. i + 1 \in DOMAIN s /\ s[i + 1] = x /\ i + 1 # 1 /\ i \in Nat
      BY <1>1, <2>1
    <2>3. 1 \in DOMAIN s /\ Head(s) = s[1]
      OBVIOUS
    <2> QED BY <2>2, <2>3 DEF OnlyOnce, ToSet
  <1> QED BY <1>2, <1>3

(* Asterisk adds events to the queue and takes none back.                  *)
LEMMA EventEmitted ==
    ASSUME TypeOK, NEW c \in Calls, NEW t \in {"StasisStart", "StasisEnd"},
           Emit(t, c) \/ UNCHANGED events
    PROVE  events' \in Seq(Events) /\ ToSet(events) \subseteq ToSet(events')
  <1>1. [type |-> t, channel |-> c] \in Events /\ events \in Seq(Events)
    BY DEF TypeOK, Events
  <1>2. CASE UNCHANGED events
    BY <1>1, <1>2
  <1>3. CASE events' = Append(events, [type |-> t, channel |-> c])
    BY <1>1, <1>3, EventsAppended
  <1> QED BY <1>2, <1>3 DEF Emit

-----------------------------------------------------------------------------
(* A task that talks to a client has its channel in the table; one that    *)
(* has none yet, or has hung up, is there only if a StasisStart that       *)
(* carries its id has put it there.                                        *)
InTable(c) ==
    /\ task[c] = "running" => c \in channels
    /\ task[c] \in {"none", "originating", "hangingUp"} /\ c \in channels => channelVars
NotDialled(c) == task[c] = "none" => line[c] = "none"
HungUp(c) == task[c] = "over" /\ lost[c] = "no" /\ ClientOpen => line[c] \notin InCall
Lost(c) == lost[c] # "no" => task[c] = "over"
Left(c) == c \in channels /\ task[c] \in {"hangingUp", "over"} /\ app # "down" =>
    lost[c] = "aborted" \/ (channelVars /\ (lost[c] = "originate" \/ c \notin talked))

StartOf(c) == [type |-> "StasisStart", channel |-> c]
Bridging(c) == line[c] = "stasis" /\ c \notin refused /\ ws =>
    /\ pump # "ended"
    /\ continuing = c \/ StartOf(c) \in ToSet(events)

CallInv(c) == InTable(c) /\ NotDialled(c) /\ HungUp(c) /\ Lost(c) /\ Left(c) /\ Bridging(c)

(* The StasisStart of a call comes once: there is none before it is        *)
(* answered, no second one while it is being handled, and none left once   *)
(* the channel is in the dialplan; so none of a call the agent talked to.  *)
Started(c) == StartOf(c) \in ToSet(events)
StartedOnce(c) ==
    /\ OnlyOnce(StartOf(c), events)
    /\ continuing = c => line[c] \in {"stasis", "down"} /\ ~Started(c)
    /\ line[c] \in {"none", "ringing", "dialplan", "bridged"} => ~Started(c)
    /\ c \in talked => line[c] \in {"bridged", "down"} /\ continuing # c /\ ~Started(c)

(* Only the loss of the WebSocket, or the shutdown, ends the pump.         *)
PumpAlive == ws => pump # "ended"

IInv == TypeOK /\ PumpAlive /\ \A c \in Calls : CallInv(c) /\ StartedOnce(c)

(* At the start nothing is on any line and the pump runs.                  *)
LEMMA InitInv == Init => IInv
  <1> SUFFICES ASSUME Init PROVE IInv
    OBVIOUS
  <1>1. TypeOK /\ PumpAlive
    BY DEF Init, TypeOK, PumpAlive, InCall
  <1>2. ASSUME NEW c \in Calls PROVE CallInv(c)
    BY DEF Init, CallInv, InTable, NotDialled, HungUp, Lost, Left, Bridging, InCall
  <1>3. ASSUME NEW c \in Calls PROVE StartedOnce(c)
    BY DEF Init, StartedOnce, OnlyOnce, Started, ToSet
  <1> QED BY <1>1, <1>2, <1>3 DEF IInv

(* Every step keeps the types.                                             *)
LEMMA StepTypes == TypeOK /\ [Next]_vars => TypeOK'
  <1> SUFFICES ASSUME TypeOK, [Next]_vars PROVE TypeOK'
    OBVIOUS
  <1>1. CASE UNCHANGED vars
    BY <1>1 DEF TypeOK, vars, hostVars, pumpVars, asteriskVars, socketVars
  <1>2. ASSUME NEW c \in Calls, MakeCall(c) \/ TaskStep(c) \/ TaskAborts(c)
        PROVE  TypeOK'
    <2>1. CASE MakeCall(c) \/ Originated(c)
      BY <2>1 DEF TypeOK, MakeCall, Originated, hostVars, pumpVars, asteriskVars, socketVars
    <2>2. CASE Deleted(c)
      <3>1. events' \in Seq(Events)
        BY <2>2, EventEmitted DEF Deleted
      <3> QED BY <2>2, <3>1 DEF TypeOK, Deleted, Becomes, hostVars, pumpVars, socketVars
    <2>3. CASE OriginateFails(c)
      BY <2>3 DEF TypeOK, OriginateFails, hostVars, pumpVars, asteriskVars, socketVars
    <2>4. CASE Hangup(c)
      BY <2>4 DEF TypeOK, Hangup, hostVars, pumpVars, asteriskVars, socketVars
    <2>5. CASE DeleteFails(c) \/ TaskAborts(c)
      BY <2>5 DEF TypeOK, DeleteFails, TaskAborts, hostVars, pumpVars, asteriskVars, socketVars
    <2> QED BY <1>2, <2>1, <2>2, <2>3, <2>4, <2>5 DEF TaskStep
  <1>3. ASSUME NEW c \in Calls, Connect(c) \/ ConnectionEnds(c) \/ Dials(c)
        PROVE  TypeOK'
    BY <1>3 DEF TypeOK, Connect, ConnectionEnds, Dials, Becomes, hostVars, pumpVars, asteriskVars, socketVars,
                InCall
  <1>4. ASSUME NEW c \in Calls, Answers(c) \/ LineDrops(c)
        PROVE  TypeOK'
    <2>1. events' \in Seq(Events)
      BY <1>4, EventEmitted DEF Answers, LineDrops
    <2> QED BY <1>4, <2>1 DEF TypeOK, Answers, LineDrops, Becomes, hostVars, pumpVars, socketVars,
                                   InCall
  <1>5. CASE PumpStep
    <2>1. CASE StasisStart \/ StasisEnd
      <3>1. Head(events) \in Events /\ Tail(events) \in Seq(Events)
        BY <2>1, EventsTaken DEF TypeOK, StasisStart, StasisEnd, Reads
      <3>2. Head(events).channel \in Calls
        BY <3>1 DEF Events
      <3> QED BY <2>1, <3>1, <3>2 DEF TypeOK, StasisStart, StasisEnd, Reads, hostVars, pumpVars,
                                          socketVars
    <2>2. CASE Continued
      <3>1. continuing \in Calls
        BY <2>2 DEF TypeOK, Continued
      <3>2. events' \in Seq(Events)
        BY <2>2, <3>1, EventEmitted DEF Continued
      <3> QED BY <2>2, <3>1, <3>2 DEF TypeOK, Continued, Becomes, InCall, hostVars, socketVars
    <2>3. CASE ContinueFails \/ PumpEnds
      BY <2>3 DEF TypeOK, ContinueFails, PumpEnds, hostVars, asteriskVars, socketVars
    <2> QED BY <1>5, <2>1, <2>2, <2>3 DEF PumpStep
  <1>6. CASE CloseServer \/ ShutdownStep \/ WebSocketBreaks
    BY <1>6, ZenonT(60) DEF TypeOK, CloseServer, ShutdownStep, Disconnect, Exit, WebSocketBreaks,
                             hostVars, pumpVars, asteriskVars, socketVars
  <1> QED BY <1>1, <1>2, <1>3, <1>4, <1>5, <1>6 DEF Next

(* Every reachable state has the types of the code's variables; the table  *)
(* of channels has no entry but of calls.                                  *)
THEOREM TypeCorrect == Spec => []TypeOK
  <1>1. Init => TypeOK
    BY InitInv DEF IInv
  <1> QED BY <1>1, StepTypes, PTL DEF Spec

-----------------------------------------------------------------------------
(* The invariant of a call, one step at a time.                            *)

(* The steps of a call's task keep CallInv, of its own call and of the     *)
(* others.                                                                 *)
LEMMA TaskKeeps ==
    ASSUME IInv, NEW c \in Calls, MakeCall(c) \/ TaskStep(c) \/ TaskAborts(c)
    PROVE  \A d \in Calls : CallInv(d)'
  <1>1. CASE MakeCall(c) \/ Originated(c) \/ OriginateFails(c) \/ Hangup(c) \/ DeleteFails(c)
             \/ TaskAborts(c)
    <2>1. UNCHANGED <<app, channelVars, line, refused, ws, pump, continuing, events, talked>>
      BY <1>1 DEF MakeCall, Originated, OriginateFails, Hangup, DeleteFails, TaskAborts,
                  hostVars, pumpVars, asteriskVars, socketVars
    <2>2. ASSUME NEW d \in Calls PROVE InTable(d)' /\ NotDialled(d)' /\ HungUp(d)' /\ Lost(d)' /\ Left(d)'
      BY <1>1, <2>1 DEF IInv, TypeOK, CallInv, InTable, NotDialled, HungUp, Lost, Left, ClientOpen,
                        MakeCall, Originated, OriginateFails, Hangup, DeleteFails, TaskAborts
    <2>3. ASSUME NEW d \in Calls PROVE Bridging(d)'
      BY <2>1 DEF IInv, CallInv, Bridging
    <2> QED BY <2>2, <2>3 DEF CallInv
  <1>2. CASE Deleted(c)
    <2>1. UNCHANGED <<app, channelVars, channels, refused, ws, pump, continuing, lost, talked>>
      BY <1>2 DEF Deleted, hostVars, pumpVars, socketVars
    <2>2. ToSet(events) \subseteq ToSet(events')
      BY <1>2, EventEmitted DEF Deleted, IInv
    <2>3. ASSUME NEW d \in Calls PROVE InTable(d)' /\ NotDialled(d)' /\ HungUp(d)' /\ Lost(d)' /\ Left(d)'
      BY <1>2, <2>1 DEF IInv, TypeOK, CallInv, InTable, NotDialled, HungUp, Lost, Left, ClientOpen,
                        Deleted, Becomes, InCall
    <2>4. ASSUME NEW d \in Calls PROVE Bridging(d)'
      BY <1>2, <2>1, <2>2 DEF IInv, TypeOK, CallInv, Bridging, Deleted, Becomes
    <2> QED BY <2>3, <2>4 DEF CallInv
  <1> QED BY <1>1, <1>2 DEF TaskStep

(* So do the steps of the line and of its connection,                      *)
LEMMA LineKeeps ==
    ASSUME IInv, NEW c \in Calls,
           Connect(c) \/ ConnectionEnds(c) \/ Dials(c) \/ Answers(c) \/ LineDrops(c)
    PROVE  \A d \in Calls : CallInv(d)'
  <1>1. UNCHANGED <<app, channelVars, task, channels, refused, ws, pump, continuing, lost>>
    BY DEF Connect, ConnectionEnds, Dials, Answers, LineDrops, hostVars, pumpVars, asteriskVars, socketVars
  <1>2. ToSet(events) \subseteq ToSet(events')
    BY EventEmitted DEF Connect, ConnectionEnds, Dials, Answers, LineDrops, IInv, asteriskVars
  <1>3. ASSUME NEW d \in Calls PROVE InTable(d)' /\ Lost(d)' /\ Left(d)'
    <2>1. talked' = talked \/ (talked' = talked \cup {c} /\ task[c] \in {"originating", "running"})
      BY DEF Connect, ConnectionEnds, Dials, Answers, LineDrops, socketVars
    <2> QED BY <1>1, <2>1 DEF IInv, CallInv, InTable, Lost, Left
  <1>4. ASSUME NEW d \in Calls PROVE NotDialled(d)' /\ HungUp(d)'
    BY <1>1 DEF IInv, TypeOK, CallInv, NotDialled, HungUp, ClientOpen, InCall, Connect,
                ConnectionEnds, Dials, Answers, LineDrops, Becomes, asteriskVars
  <1>5. ASSUME NEW d \in Calls PROVE Bridging(d)'
    <2>1. CASE Answers(c) /\ ws
      <3>1. [type |-> "StasisStart", channel |-> c] \in ToSet(events')
        <4>1. /\ [type |-> "StasisStart", channel |-> c] \in Events
              /\ events' = Append(events, [type |-> "StasisStart", channel |-> c])
          BY <2>1 DEF Answers, Emit, Events
        <4> QED BY <4>1, EventsAppended DEF IInv, TypeOK
      <3>2. pump # "ended"
        BY <2>1 DEF IInv, PumpAlive
      <3> QED BY <1>1, <1>2, <2>1, <3>1, <3>2 DEF IInv, TypeOK, CallInv, Bridging, Answers,
                                                        Becomes, StartOf
    <2>2. CASE ~(Answers(c) /\ ws)
      BY <1>1, <1>2, <2>2 DEF IInv, TypeOK, CallInv, Bridging, Connect, ConnectionEnds, Dials,
                              Answers, LineDrops, Becomes, asteriskVars
    <2> QED BY <2>1, <2>2
  <1> QED BY <1>3, <1>4, <1>5 DEF CallInv

(* those of the pump, which hands a channel over or ends with the          *)
(* WebSocket,                                                              *)
LEMMA PumpKeeps ==
    ASSUME IInv, PumpStep
    PROVE  \A d \in Calls : CallInv(d)'
  <1>1. UNCHANGED <<app, channelVars, task, ws, lost>>
    BY DEF PumpStep, StasisStart, StasisEnd, Continued, ContinueFails, PumpEnds, hostVars,
           asteriskVars
  <1>2. ASSUME NEW d \in Calls PROVE InTable(d)' /\ Lost(d)' /\ Left(d)'
    <2>1. talked' = talked
      BY DEF PumpStep, StasisStart, StasisEnd, Continued, ContinueFails, PumpEnds, socketVars
    <2>2. CASE StasisStart
      <3>1. events \in Seq(Events) /\ events # <<>>
        BY <2>2 DEF IInv, TypeOK, StasisStart, Reads
      <3>2. Head(events) \in Events /\ Head(events) \in ToSet(events)
        BY <3>1 DEF ToSet
      <3> DEFINE c == Head(events).channel
      <3>3. c \in Calls /\ Head(events) = StartOf(c)
        BY <2>2, <3>2 DEF StasisStart, Reads, Events, StartOf
      <3>4. c \notin talked
        BY <3>2, <3>3 DEF IInv, StartedOnce, Started
      <3>5. channels' = channels \/ (channels' = channels \cup {c} /\ channelVars)
        BY <2>2 DEF StasisStart, Identified
      <3> HIDE DEF c
      <3> QED BY <1>1, <2>1, <3>3, <3>4, <3>5 DEF IInv, CallInv, InTable, Lost, Left
    <2>3. CASE StasisEnd \/ Continued \/ ContinueFails \/ PumpEnds
      <3>1. channels' = channels
        BY <2>3 DEF StasisEnd, Continued, ContinueFails, PumpEnds
      <3> QED BY <1>1, <2>1, <3>1 DEF IInv, CallInv, InTable, Lost, Left
    <2> QED BY <2>2, <2>3 DEF PumpStep
  <1>3. ASSUME NEW d \in Calls PROVE NotDialled(d)' /\ HungUp(d)'
    BY <1>1 DEF IInv, TypeOK, CallInv, NotDialled, HungUp, ClientOpen, InCall, PumpStep,
                StasisStart, StasisEnd, Continued, ContinueFails, PumpEnds, Becomes, asteriskVars
  <1>4. ASSUME NEW d \in Calls PROVE Bridging(d)'
    <2>1. CASE StasisStart \/ StasisEnd
      <3>1. events \in Seq(Events) /\ events # <<>> /\ events' = Tail(events)
        BY <2>1 DEF StasisStart, StasisEnd, Reads, IInv, TypeOK
      <3>2. \A x \in ToSet(events) : x = Head(events) \/ x \in ToSet(events')
        BY <3>1, EventsTaken
      <3>3. continuing = NoCall /\ UNCHANGED <<line, refused>> /\ pump' # "ended"
        BY <2>1 DEF StasisStart, StasisEnd, Reads, IInv, TypeOK, pumpVars
      <3>4. [type |-> "StasisStart", channel |-> d] = Head(events) => continuing' = d
        BY <2>1 DEF StasisStart, StasisEnd, Reads
      <3> QED BY <1>1, <3>2, <3>3, <3>4 DEF IInv, CallInv, Bridging, StartOf
    <2>2. CASE Continued
      <3>1. ToSet(events) \subseteq ToSet(events')
        BY <2>2, EventEmitted DEF Continued, IInv, TypeOK
      <3> QED BY <1>1, <2>2, <3>1 DEF IInv, TypeOK, CallInv, Bridging, Continued, Becomes
    <2>3. CASE ContinueFails \/ PumpEnds
      BY <1>1, <2>3 DEF IInv, TypeOK, CallInv, Bridging, ContinueFails, PumpEnds, asteriskVars
    <2> QED BY <2>1, <2>2, <2>3 DEF PumpStep
  <1> QED BY <1>2, <1>3, <1>4 DEF CallInv

(* and those of the shutdown.                                              *)
LEMMA ShutdownKeeps ==
    ASSUME IInv, CloseServer \/ ShutdownStep \/ WebSocketBreaks
    PROVE  \A d \in Calls : CallInv(d)'
  <1>1. UNCHANGED <<channelVars, channels, line, lost, refused, events, talked>>
    BY DEF CloseServer, ShutdownStep, Disconnect, Exit, WebSocketBreaks, hostVars, pumpVars,
           asteriskVars, socketVars
  <1>2. ASSUME NEW d \in Calls PROVE InTable(d)' /\ NotDialled(d)' /\ HungUp(d)' /\ Lost(d)' /\ Left(d)'
    BY <1>1 DEF IInv, TypeOK, CallInv, InTable, NotDialled, HungUp, Lost, Left, ClientOpen,
                CloseServer, ShutdownStep, Disconnect, Exit, WebSocketBreaks, hostVars
  <1>3. ASSUME NEW d \in Calls PROVE Bridging(d)'
    BY <1>1 DEF IInv, CallInv, Bridging, CloseServer, ShutdownStep, Disconnect, Exit,
                WebSocketBreaks, pumpVars, asteriskVars
  <1> QED BY <1>2, <1>3 DEF CallInv

(* A StasisEnd in the queue is no StasisStart.                             *)
LEMMA EndEmitted ==
    ASSUME TypeOK, NEW c \in Calls, Emit("StasisEnd", c) \/ UNCHANGED events,
           NEW d \in Calls, OnlyOnce(StartOf(d), events)
    PROVE  OnlyOnce(StartOf(d), events') /\ (Started(d)' => Started(d))
  <1> DEFINE end == [type |-> "StasisEnd", channel |-> c]
  <1>1. end \in Events /\ events \in Seq(Events) /\ end # StartOf(d)
    BY DEF TypeOK, Events, StartOf
  <1>2. CASE UNCHANGED events
    BY <1>2 DEF Started
  <1>3. CASE events' = Append(events, end)
    BY <1>1, <1>3, OnceAppended DEF Started, StartOf
  <1> QED BY <1>2, <1>3 DEF Emit

(* Each call is answered once, and read once.                              *)
LEMMA StartsKept ==
    ASSUME IInv, [Next]_vars, NEW d \in Calls
    PROVE  StartedOnce(d)'
  <1> DEFINE Same == UNCHANGED <<line, events, talked>> /\ continuing' \in {continuing, NoCall}
  <1>0. /\ TypeOK /\ StartedOnce(d) /\ OnlyOnce(StartOf(d), events)
        /\ events \in Seq(Events) /\ line \in [Calls -> InCall \cup {"none", "down"}]
    BY DEF IInv, TypeOK, StartedOnce
  <1>1. CASE Same
    BY <1>0, <1>1 DEF StartedOnce, Started
  <1>2. ASSUME NEW c \in Calls, MakeCall(c) \/ TaskStep(c) \/ TaskAborts(c) PROVE StartedOnce(d)'
    <2>1. CASE Deleted(c)
      <3>1. OnlyOnce(StartOf(d), events') /\ (Started(d)' => Started(d))
        BY <1>0, <2>1, EndEmitted DEF Deleted
      <3> QED BY <1>0, <2>1, <3>1 DEF StartedOnce, Deleted, Becomes, pumpVars, socketVars
    <2>2. CASE ~Deleted(c)
      <3>1. Same
        BY <1>2, <2>2 DEF MakeCall, TaskStep, TaskAborts, Originated, OriginateFails, Hangup,
                          DeleteFails, pumpVars, asteriskVars, socketVars
      <3> QED BY <1>1, <3>1
    <2> QED BY <2>1, <2>2
  <1>3. ASSUME NEW c \in Calls, LineDrops(c) PROVE StartedOnce(d)'
    <2>1. OnlyOnce(StartOf(d), events') /\ (Started(d)' => Started(d))
      BY <1>0, <1>3, EndEmitted DEF LineDrops
    <2> QED BY <1>0, <1>3, <2>1 DEF StartedOnce, LineDrops, Becomes, pumpVars, socketVars
  <1>4. ASSUME NEW c \in Calls, Answers(c) PROVE StartedOnce(d)'
    <2>1. line[c] = "ringing" /\ line' = [line EXCEPT ![c] = "stasis"]
          /\ UNCHANGED <<continuing, talked>>
      BY <1>4 DEF Answers, Becomes, pumpVars, socketVars
    <2>2. CASE UNCHANGED events
      BY <1>0, <2>1, <2>2 DEF StartedOnce, Started
    <2>3. CASE events' = Append(events, StartOf(c))
      <3>1. StartOf(c) \in Events /\ (StartOf(c) = StartOf(d) => c = d)
        BY DEF StartOf, Events
      <3>2. ~Started(c) /\ continuing # c /\ c \notin talked
        BY <2>1 DEF IInv, StartedOnce
      <3>3. OnlyOnce(StartOf(d), events') /\ (Started(d)' => Started(d) \/ c = d)
        BY <1>0, <2>3, <3>1, <3>2, OnceAppended DEF Started, StartOf
      <3> QED BY <1>0, <2>1, <3>2, <3>3 DEF StartedOnce
    <2> QED BY <1>4, <2>2, <2>3 DEF Answers, Emit, StartOf
  <1>5. ASSUME NEW c \in Calls, Connect(c) \/ ConnectionEnds(c) \/ Dials(c) PROVE StartedOnce(d)'
    BY <1>0, <1>5 DEF StartedOnce, Started, Connect, ConnectionEnds, Dials, Becomes, pumpVars,
                      asteriskVars, socketVars
  <1>6. CASE PumpStep
    <2>1. CASE StasisStart \/ StasisEnd
      <3>1. events # <<>> /\ events' = Tail(events) /\ UNCHANGED <<line, talked>>
        BY <2>1 DEF StasisStart, StasisEnd, Reads, socketVars
      <3>2. /\ OnlyOnce(StartOf(d), events')
            /\ Started(d)' => Started(d) /\ StartOf(d) # Head(events)
        BY <1>0, <3>1, OnceTaken DEF Started, StartOf
      <3>3. CASE StasisEnd
        BY <1>0, <3>1, <3>2, <3>3 DEF StartedOnce, StasisEnd, pumpVars
      <3>4. CASE StasisStart
        <4>1. Head(events) \in Events /\ Head(events) \in ToSet(events)
          BY <1>0, <3>1 DEF ToSet
        <4>2. Head(events) = StartOf(continuing')
          BY <3>4, <4>1 DEF StasisStart, Reads, Events, StartOf
        <4>3. continuing' = d => Started(d) /\ ~Started(d)'
          BY <3>2, <4>1, <4>2 DEF Started
        <4>4. Started(d) => line[d] \in {"stasis", "down"} /\ d \notin talked
          BY <1>0 DEF StartedOnce, InCall
        <4> QED BY <1>0, <3>1, <3>2, <4>3, <4>4 DEF StartedOnce
      <3> QED BY <2>1, <3>3, <3>4
    <2>2. CASE Continued
      <3>1. continuing \in Calls
        BY <1>0, <2>2 DEF TypeOK, Continued
      <3>2. OnlyOnce(StartOf(d), events') /\ (Started(d)' => Started(d))
        BY <1>0, <2>2, <3>1, EndEmitted DEF Continued
      <3> QED BY <1>0, <2>2, <3>1, <3>2 DEF StartedOnce, Continued, Becomes, socketVars
    <2>3. CASE ContinueFails \/ PumpEnds
      <3>1. Same
        BY <2>3 DEF ContinueFails, PumpEnds, asteriskVars, socketVars
      <3> QED BY <1>1, <3>1
    <2> QED BY <1>6, <2>1, <2>2, <2>3 DEF PumpStep
  <1>7. CASE CloseServer \/ ShutdownStep \/ WebSocketBreaks \/ UNCHANGED vars
    <2>1. Same
      BY <1>7 DEF CloseServer, ShutdownStep, Disconnect, Exit, WebSocketBreaks, vars, pumpVars,
                  asteriskVars, socketVars
    <2> QED BY <1>1, <2>1
  <1> QED BY <1>2, <1>3, <1>4, <1>5, <1>6, <1>7 DEF Next

(* No event can end the pump: only the loss of the WebSocket does.         *)
LEMMA PumpStaysAlive == IInv /\ [Next]_vars => PumpAlive'
  BY DEF IInv, TypeOK, PumpAlive, Next, vars, hostVars, pumpVars, asteriskVars, socketVars, MakeCall, TaskStep,
         Originated, OriginateFails, Hangup, TaskAborts, Deleted, DeleteFails, Connect,
         ConnectionEnds, Dials, Answers, LineDrops, PumpStep, StasisStart, StasisEnd, Continued,
         ContinueFails, PumpEnds, CloseServer, ShutdownStep, Disconnect, Exit, WebSocketBreaks

(* The invariant is inductive.                                             *)
LEMMA StepInv == IInv /\ [Next]_vars => IInv'
  <1> SUFFICES ASSUME IInv, [Next]_vars PROVE IInv'
    OBVIOUS
  <1>1. TypeOK' /\ PumpAlive'
    BY StepTypes, PumpStaysAlive DEF IInv
  <1>2. \A d \in Calls : CallInv(d)'
    <2>1. CASE UNCHANGED vars
      BY <2>1 DEF IInv, CallInv, InTable, NotDialled, HungUp, Lost, Left, Bridging, ClientOpen, vars,
                  hostVars, pumpVars, asteriskVars, socketVars
    <2> QED BY <2>1, TaskKeeps, LineKeeps, PumpKeeps, ShutdownKeeps DEF Next
  <1>3. \A d \in Calls : StartedOnce(d)'
    BY StartsKept
  <1> QED BY <1>1, <1>2, <1>3 DEF IInv

(* No callee is left on the line by a task that ended as it should: hangup *)
(* finds the channel in the table, whatever the pump has made of events.   *)
THEOREM NobodyForgotten == Spec => []NoForgottenLine
  <1>1. IInv => NoForgottenLine
    BY DEF IInv, CallInv, HungUp, NoForgottenLine
  <1> QED BY <1>1, InitInv, StepInv, PTL DEF Spec

(* The table of channels forgets every call the agent has talked to when   *)
(* it is hung up, whether or not Asterisk names calls in its events.       *)
THEOREM TableIsBounded == Spec => []ConversationsLeaveNoEntry
  <1>1. IInv => ConversationsLeaveNoEntry
    BY DEF IInv, TypeOK, CallInv, Left, ConversationsLeaveNoEntry
  <1> QED BY <1>1, InitInv, StepInv, PTL DEF Spec

(* The pump forgets no answered channel while its WebSocket is connected.  *)
THEOREM AnsweredAreBridged == Spec => []AnsweredIsBridged
  <1>1. IInv => AnsweredIsBridged
    BY DEF IInv, CallInv, Bridging, AnsweredIsBridged, StartOf
  <1> QED BY <1>1, InitInv, StepInv, PTL DEF Spec
=============================================================================
