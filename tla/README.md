# PhoneAgent: models, checks and proofs

TLA+ models of PhoneAgent, the asyncio service that answers and places phone
calls for a salon: it speaks with the client through STT, an LLM agent and
TTS, and books through the salon's system. File names below are relative to
`src/phoneagent/` unless they say otherwise.

Everything runs in one event loop. Between two awaits nothing interferes, at
every await anything may: that is the granularity of all the models. An action
is what one asyncio task does from one await to the next.

## 1. The system

### Components, their state and operations

| Component | State | Operations | Talks to |
|---|---|---|---|
| Entry points (`core/orchestrator.py` `handle_callback`, `handle_inbound_call`; `api/trigger.py`) | dedupe lock per number | lock, `make_call`, first save, start of the call's task | store, telephony, call task |
| Call task (`core/orchestrator.py` `_process_call`, `_dialog_loop`, `_say`, `_listen`, `_run_turn`) | the `ConversationState` in memory, the call timer | greet, listen, run a turn, speak, save, hang up | everything below |
| Agent turn (`core/agent.py`, `_execute_tool`) | round, tool calls | answer, call tools, give up after `MAX_TOOL_ROUNDS` | booking connector; changes the call's state |
| Audio session (`core/audio_session.py`) | two queues, count of pending chunks, `drained`, `hangup_requested` | push, take, clear, wait for drain, close; `paced_frames` | call task and bridge |
| Bridges (`api/media_ws.py`, `api/audiosocket_server.py`) | connection, sender, hangup watcher | start, media, stop, send frames, close | VoxEngine scenario or Asterisk; entry points |
| Telephony (`providers/telephony/*`) | table of hangup URLs or channels; the pump of ARI events | `make_call`, `send_audio`, `hangup`, continue a channel into the dialplan | the provider, the audio session |
| State store (`core/state_store.py`) | states and locks, with TTLs | `get`, `set`, `acquire_lock` | Redis or memory |
| Booking connector (`connectors/generic_api.py`, `mock.py`) | the request under way | lookups, `create_booking`, retries | the salon's API |
| Text dialog (`handle_text_message`, `POST /call/text`) | the state in the store | read, run a turn, save | agent turn, store |
| VAD (`_collect_utterance`) | the utterance so far | read chunks, end on silence or length | audio session |
| Lifespan (`main.py`) | the orchestrator | start, shutdown | all clients |

The remaining parts (webhooks, admin, security, TTS clients, Twilio and mock
telephony, audio conversion, configuration, prompts) keep no state a
property could be about; `PROJECT.json` lists each with its reason.

How they interact: a request, or the bridge's `start` event, starts one task
per call; that task starts `llm_task` per turn and two tasks per phrase
(`send_audio`, `_wait_for_barge_in`); they share the conversation's state by
reference and the audio through queues; the bridge's receive loop and sender
work on the other end of the queues; `asyncio.timeout` cancels the call's task
at any await.

### What is hard

* **Cancellation.** `asyncio.shield`, `asyncio.wait` and `suppress` decide what
  a timeout actually stops: an LLM turn and a phrase can outlive it.
* **Shared state across awaits.** `step` and `slot` are changed by the agent's
  task while the call's task is suspended.
* **Partial failure.** A booking accepted whose reply is lost, a save that
  raises, `make_call` that raises although the provider dials.
* **Waiting for each other.** `wait_drained` waits for a sender that may be
  gone; the hangup of an inbound call waits for a watcher that may be dead.
* **Ordering.** Chunks taken by the barge-in task go back into the queue; a
  phrase that was cut must not be heard again.
* **Restart.** Tasks and tables vanish; Redis and the telephone lines do not.
* **Clocks.** The ends of an utterance and of a barge-in are measured from when
  a chunk is read, and the queue may have held it for long.
* **Retries.** A request whose outcome is unknown may still be on its way.

`PROJECT.json` `hazards` has each of them at its line, with the properties that
cover it.

### What makes each component correct

* Entry points: no more calls to a number than dedupe windows; one task per call;
  whoever is connected is served, and hung up when that is over.
* Call task: it ends; what it stores is what happened; it listens only on a
  saved dialog; END and ESCALATE are not undone.
* Agent turn: runs only while awaited; stops; the record names the booking.
* Audio: the count of pending chunks is right; every phrase ends; phrases do not
  mix; no chunk of the caller is lost; the agent does not hear itself.
* Listening: an utterance is bounded and is not cut in the middle; who cuts the
  agent short is heard; only sustained speech cuts it short.
* Booking connector: one tool call books at most once; a booking that is named
  exists.
* Text dialog: an answered message stays part of the dialog; a dialog that is
  over stays over; the model sees the dialog; every request ends.
* Asterisk: every answered call is bridged; no line is left up; a
  conversation leaves nothing in the table; the shutdown ends.

## 2. The modules

| Module | Models | Lines of code behind it |
|---|---|---|
| `AgentTurn` | one turn of the agent: rounds, tools, booking in flight | `agent.py` 291-347, 398-456; `orchestrator.py` 511-569 |
| `CallLifecycle` (extends `AgentTurn`) | the call's task with timer, bridge and store | `orchestrator.py` 247-474 |
| `CallLifecycle_proofs` | theorems about it | |
| `AudioSession` | queues, phrases, barge-in, listening, both bridges' senders | `audio_session.py`; `orchestrator.py` 363-509; `media_ws.py`; `audiosocket_server.py`; `send_audio` of both providers |
| `AudioSession_proofs`, `AudioListener_proofs` | theorems about it: the agent's side, the caller's side | |
| `Callback` | entry points, bridge start, provider's table, restart | `orchestrator.py` 117-211; `media_ws.py`; `voximplant.py` 80-159; `src/voxengine/phoneagent_scenario.js` |
| `Callback_proofs` | theorems about it | |
| `Listening` | turn-taking on a clock: barge-in, echo guard, energy VAD | `orchestrator.py` 347-503; `config.py` 143-191; `whisper.py` |
| `Listening_proofs` | theorems about it | |
| `BookingContract` | abstract: what the conversation relies on in `create_booking` | `connectors/base.py` |
| `BookingApi` (implements `BookingContract`) | both connectors, the wire and the salon | `generic_api.py`; `mock.py` |
| `BookingApi_proofs` | theorems about it, the refinement among them | |
| `TextDialog` (extends `BookingApi`) | one dialog of `POST /call/text` | `orchestrator.py` 213-286, 519-569; `agent.py` 86-96, 199-313; `state_store.py`; `trigger.py` 97-128 |
| `TextDialog_proofs` | theorems about it; composition: the refinement holds in the dialog | |
| `AsteriskCalls` | calls through Asterisk, the event pump, the shutdown | `asterisk.py`; `audiosocket_server.py` 90-143; `main.py` 46-62; `orchestrator.py` 97-115 |
| `AsteriskCalls_proofs` | theorems about it | |

`PROJECT.json` `map` gives the lines of every definition. Definitions commented
"Changed" or "Faulty variant" are deliberate alterations of the one that
follows them, each breaking one property; they take no part in any
specification.

### AgentTurn

`llm` is the await `llm_task` is in; `round`, `left` and `tool` are the loops
over rounds and tool calls. The model's answers are free: text or none, final
or not, any tools. `slot` and `bookings` number bookings in order, so that "the
record names the booking" compares two numbers. The salon is external: it may
accept (`SalonAccepts`) and its reply may still be lost (`ToolBookingFails`,
`CancelTurn`). `GREETING` stands for all steps before a booking: no code
reached from the call tells them apart.

### CallLifecycle

`pc` names the await of the call's task, one label per call site of `_say`,
`_listen`, `_save` and so on. `audio` keeps of the audio only what this level
sees: a phrase waits for the bridge, plays (`duplex` when the caller may cut
in), or is `stuck` because nobody will ever empty the queue. `stored` is the
snapshot in Redis. (`InMemoryStateStore` keeps the object itself, so there
memory and store never differ; the model is of the store used in production.)
A write may take effect and still raise.

Two facts of asyncio are modelled, because the outcome depends on them:

* the timer's cancellation arrives once. If it arrives while `_say` awaits a
  task it has itself cancelled, `suppress(CancelledError)`
  (`orchestrator.py` 455, 463) swallows it; and `asyncio.wait_for` of Python
  3.11 (the version of the `Dockerfile`) returns a result that is ready instead
  of raising it (`EatsCancel`). Then `timer = "eaten"`;
* a cancellation stops at `asyncio.shield`, so the soft wait of `_run_turn`, or
  a filler, leaves `llm_task` running (`orphaned`).

### AudioSession

Each task that touches the queues has its own variable, per phrase where
phrases can overlap. A chunk of speech is its phrase and its length in frames;
a chunk of the caller is its number. Loudness, hence barge-in, is free. `Tick`
is the time of one frame: the sender sends one, the echo guard counts one
down. The two advance together: a write to the socket that blocks
(`audiosocket_server.py` 81, `websocket.send_text`) would hold up the sender
while the guard runs on, and is assumed away; `BoundedTail` is a bound for a
peer that reads. Tasks of a phrase interrupted by the call timer stay alive, as
they do in the code.

### Callback

The locks are Redis keys, taken by one atomic `SET NX`; `LockExpires` begins
the next dedupe window of a number. `CallPlaced`, `Answer` and `LineDrops` are
the outbound scenario and the line. A handler of `start` asks the store and
acts on the answer at its next step. Each call's task is reduced to its last
save and its hangup (the whole is `CallLifecycle`); `TaskAborts` stands for all
ways in which it never reaches the hangup. `RestartProcess` takes away
requests, tasks, bridges and the provider's table at any moment, and lets any
write under way land or not.

`broken` collects the calls that an exception or a restart cut short. The code
has no recovery for them, so the liveness properties except them: they say
that there is no *other* way to be left alone.

A provider dials when it likes: while `make_call` waits for its answer, or after
`make_call` has given up (`req = "unheard"`). So a call placed for one request
may ring after its lock has expired, next to the call of the request that took
the lock then. `CallsAreRationed` counts calls placed against windows begun,
which allows that: the late call uses up its own window's.

A comment of the code (`media_ws.py` 153-155) assumes that nobody answers an
outbound call before `handle_callback` has saved its state. Nothing enforces
it, and the model does not assume it. `early` (history) remembers the calls
answered before: `OneTaskPerCall` and `FinishedStaysFinished` except exactly
those, and `callback_unknown` shows what happens to them. Late bridges, calls
placed late, failed hangups and restarts are not excepted.

### Listening

The clock of the event loop, for what `AudioSession` leaves free: when does an
utterance end, and what interrupts a phrase. A tick is the length of one chunk;
a chunk is `loud` or `quiet`. `phase` is what the call's task does: it speaks
(with `_wait_for_barge_in` next to it), waits out the echo guard, listens,
waits for recognition or for the model (and says at most one filler in the
meantime). `elapsed` and `quiet` are the differences of `loop.time()` that the
code takes. The code computes one timeout per read, at the head of its loop;
`blocked` tells a read that waits from the head, because only there is the
limit on the utterance looked at. `Idle` is the semantics of the event loop:
time passes only when no task is ready, except that a phrase, the recognition
and the model take as long as they like, up to `MaxPhrase` and `MaxThink`.
`arrived`, `callerQuiet`, `loudRun` and `interrupted` are history variables for
the properties. A session that was removed is out of reach of `get_session`,
and so is what its queue held (`Queue`).

### BookingContract and BookingApi

`BookingContract` is the abstract specification: `made` counts the salon's
bookings for a tool call, `told` is what the tool call was answered. It says
that a tool call books at most once, is answered at most once, and that an
answer with a booking's id is true. It says nothing of an answer that is an
error: the salon may book before it and after it.

`BookingApi` has one request per tool call, with its `http` phase, its
`tries`, the copies on the `wire` and the salon's `answer`. A refused
connection (`httpx.ConnectError`) is retried up to `stop_after_attempt`;
everything else is not (`TimesOut`), but the request may still arrive later
(`SalonReceives` when `http` is no longer `sent`). The salon is external: it may
book and not say so, or answer 200 with a body that has no id. The connector
returns a `Booking` with an empty id then; the model calls that answer
`unconfirmed`, to tell it from the one that names a booking. The refinement
mapping (`Contract`) takes `made` and `told` to themselves and hides the rest:
the request, its retries, the wire. `KeepsContract` is `Contract!Spec`.

### TextDialog

Requests of one `call_id`, in any overlap. `store` decides what `get` returns:
with Redis a copy (`view`), in memory the very object (`object`), so that
overlapping requests share it. `agent` is an LLM, whose tool calls go through
`BookingApi`, or the mock agent's keyword machine, which awaits nothing. A
message is its role and the request it belongs to. `Prompt` is `_text_history`
with the user's message after it; `run_turn` of both LLM agents sends that.
`overlapped` is a history variable: the requests that were in progress together
with another one. A turn calls the connector once: several rounds are the
subject of `AgentTurn`. The filler and the apology of `_run_turn` go to a
telephony provider that knows no such call and change nothing but the duration
of the request (10 seconds of `wait_for_session` in vain).

### AsteriskCalls

`line` is the channel in Asterisk, `channels` the provider's table, `task` the
call's task, reduced to its life and its end. `pump` and `continuing` are the
task of `_pump_events`, suspended in the `async for` or in the request of
`_continue_to_bridge`. `lost` remembers why a call was not hung up: the three
failures after which the code gives up; `talked` (history) the calls whose
connection met a call that was alive. Two facts the behaviour depends on are
chosen in `Init` and checked both ways: whether Asterisk names
`PHONEAGENT_CALL_ID` in its events (`channelVars`: the repository's `ari.conf`
does not ask for it, its tests assume it), and whether `Server.wait_closed`
waits for open connections (`waits`: from Python 3.12.1 on).

## 3. What is checked

| Run | Configuration | Shows |
|---|---|---|
| `call` | `Call.cfg`: 2 rounds of 2 tools, 2 bookings, 1 retry, 2 turns | `TurnIsAwaited`, `ListensOnSavedState`, `CompletedIsTerminal`, `RecordKnowsBooking`, `EndSticks`, `EscalationSticks`, `CallEnds`, `TurnsQuiesce` |
| `call_hard_limit` | `CallHardLimit.cfg` | violated: `HardLimit` (below) |
| `call_orphan` | `CallOrphan.cfg` | violated: `TimedOutCallIsOver` |
| `audio_safety` | `AudioSafety.cfg`: 2 phrases of 2 chunks, 2 frames each, 2 chunks of the caller | `Accounting`, `OverPhraseFades`, `ListenerMissesNothing`, `BoundedTail`, `PhrasesInOrder` |
| `audio_liveness` | `AudioLiveness.cfg`: 2 phrases of 1 chunk | `PhrasesEnd`, `HangupReachesBridge` |
| `audio_tail` | `AudioTail.cfg`: a chunk of 3 frames, a guard of 1 | violated: `AtMostAFrameUnsent` |
| `callback` | `Callback.cfg`: 2 calls, each requested or dialled, 1 number, one client reached, 2 windows, 1 restart | `CallsAreRationed`, `OneTaskPerCall`, `FinishedStaysFinished`, `ConnectedIsServed`, `ProcessedIsHungUp` |
| `text_dialog` | `TextDialog.cfg`: 2 requests, 2 attempts, a history of 2 | `AnsweredIsKept`, `OverStaysOver`, `PromptHasContext`, `KeepsContract` (the refinement), `RequestsEnd` |
| `listening` | `Listening.cfg`: pause 3, initial silence 5, limit 6, grace 2, 3 chunks to confirm, guard 2 | `UtteranceBound`, `CutOnlyInPause`, `InterruptionIsHeard`, `SustainedBargeIn`, `ListenEnds` |
| `asterisk` | `AsteriskCalls.cfg`: 2 calls | `NoForgottenLine`, `ConversationsLeaveNoEntry`, `AnsweredIsBridged`, `ShutdownEnds` |
| `callback_dedupe` | `CallbackDedupe.cfg` | violated: `DuplicateMeansCalled` |
| `callback_unknown` | `CallbackUnknown.cfg` | violated: `MissingMeansInbound` |

Each passing run also checks the `TypeOK` of its module. Deadlock is not
checked: a call that is over, or a suspended one, is a state in which the
system rightly stops.

### Where code and documentation disagree

* **`HardLimit`** (`orchestrator.py` 289, "hard limit of
  `call_timeout_seconds`"). The goodbye after the limit is itself unlimited.
  If the bridge goes while its chunks are queued, `wait_drained` never returns,
  and the save and hangup in `finally` are never reached.
* **`TimedOutCallIsOver`** (`tests/test_audit2.py` 130). An orphaned `llm_task`
  completes `create_booking` after the limit has set END, and the call is
  stored in CONFIRMATION.
* **`AtMostAFrameUnsent`** (`audio_session.py` 70-73, "about one frame"). A
  chunk counts as taken when read. With a TTS that yields a phrase as one chunk
  the agent listens while most of it is unsent. `BoundedTail` is the bound
  that does hold: the longest chunk less the echo guard.
* **`DuplicateMeansCalled`** (`orchestrator.py` 61, "a call to this number was
  initiated recently"). The lock survives a failure after it was taken, so a
  client nobody called is refused. The shortest trace loses Redis's answer to
  the lock; a failing `make_call` gives another.
* **`MissingMeansInbound`** (`media_ws.py` 153, "no state yet, so the call is
  inbound; an outbound call gets its state before the scenario can open this
  socket"). A client who answers while `handle_callback` still waits for
  `make_call` or for its save is taken for an inbound caller `unknown`, and is
  given a second task when the state is saved. The same happens, with no second
  task, if `make_call` raises although the scenario was started.

Noticed while modelling, and stated by a property that says what does hold, or
outside the models:

* `clear_outgoing` is documented to let at most one more frame, some 20 ms, onto
  the line (`audio_session.py` 78-85). It leaves the chunk the sender has in
  hand, and `edge_tts.py` 63 yields a phrase as one chunk: such a phrase plays
  to its end although the caller has cut it. `OverPhraseFades` is what does
  hold: of a phrase that is over only that one chunk still goes out.
* The count of unanswered prompts is part of the state and is incremented
  without a save (`orchestrator.py` 332): the store still says zero while the
  agent listens again. `ListensOnSavedState` says that nothing else is newer in
  memory.
* `_channels` of the Asterisk provider is emptied by `hangup`. Where events
  carry the call id, as `tests/test_asterisk_provider.py` 129 assumes, two of
  them put an entry there that nobody removes: the StasisStart of a call whose
  POST raised, and the one read after its call was hung up. Where they do not,
  the only leak is a save that raises before the hangup.
  `ConversationsLeaveNoEntry` says all of this.
* `config.py` 178 calls `vad_max_utterance_seconds` a hard ceiling; the
  ceiling is that plus `vad_silence_seconds` (`UtteranceBound`).
* The README of the repository says that a dialog in `escalate` is over; two
  overlapping `/call/text` requests reopen it (`OverStaysOver` is about
  requests that do not overlap).
* `max_history_messages` promises one entry more than the model gets: the
  user's message is in the history already and is sent twice
  (`PromptHasContext`).
* `_pump_events` is documented to live as long as the provider (`asterisk.py`
  117); it ends with the first loss of its WebSocket (`AnsweredIsBridged`).
* `list_slots` is described to the model as free slots (`agent.py` 132), but
  `_execute_tool` drops `available` (`orchestrator.py` 538) and the mock
  connector lists booked slots as free and books them again; the generic
  connector returns midnight as the time of every booking
  (`generic_api.py` 239). Data the models abstract from.
* Leaving Stasis for the dialplan raises a StasisEnd, which the pump turns into
  an `ended` event of a live call; nobody reads these events.

### Bounds, and why they are enough

* `MaxToolRounds = 2`, `MaxToolsPerRound = 2`: a tool overwriting another's
  step needs two in a turn; the limit on rounds must be reached with work left.
* `MaxBookings = 2`: a second booking after a lost reply, and a record that
  names the wrong one.
* `MaxRetries = 1`, `MaxTurns = 2`: one prompt and the goodbye after it; a turn
  on top of a saved turn. `MaxTurns` only bounds the run; the theorems
  hold for every value.
* `MaxPhrases = 2`: the goodbye next to an interrupted phrase; no code tells a
  third from a second. `MaxChunks = 2`: a chunk pushed after a clear.
  `MaxFrames = 2` over `GuardFrames = 1`: a tail longer than the guard.
  `MaxArrivals = 2`: a chunk read by the barge-in task and one behind it. For
  liveness one chunk per phrase and one arrival are enough to sleep and to be
  woken.
* `Callback`: two calls contend for one number; the second window follows an
  expiry; one restart can hit every pair of phases. More calls differ only in
  the lock. Calls meet only there and in the restart, so that in `Callback.cfg`
  one of the two (`Reached`) is answered, or dialled by its client, and the
  other can but ring: with both reached the run does not end within minutes.
  `callback_dedupe` and `callback_unknown` reach both, and need neither windows
  nor restarts. The theorems hold for every `Reached`.
* `TextDialog`: two requests overlap or follow each other, which is what the
  store can get wrong; with three the run does not end within minutes.
  `MaxAttempts = 2` has one retry and one attempt that is the last;
  `MaxHistory = 2` is reached within the second turn.
* `Listening`: the settings keep the order of the defaults (pause < initial
  silence < limit; grace < confirmation + grace <= phrase) and differ from each
  other, so that no two clocks coincide by accident. `MaxBacklog = 6` holds a
  whole utterance of thinking time, and more than confirms a barge-in.
* `AsteriskCalls`: two calls, so that an event of one, or an error of its
  channel, can affect the other; each channel lives once.

### Fairness

* `CallLifecycle`: the timer fires; the event loop runs ready tasks; a phrase
  with a live reader ends (that is `PhrasesEnd` of `AudioSession`); the LLM,
  the salon, Redis and the provider answer or time out, as their clients do.
  Nothing is assumed of the caller or the bridge, nor that a dialog makes
  progress: the timer alone has to end it. `CallEnds` excepts exactly a
  goodbye whose bridge is gone and a timer whose cancellation was swallowed,
  both ways out the code really has.
* `AudioSession`: ready tasks run and time passes; nothing is assumed of the
  peer. `PhrasesEnd` and `HangupReachesBridge` except a dead sender, which
  takes the reader and the hangup watcher with it.
* `Callback`: a request runs to its end (the clients of the provider and of
  Redis time out), a call's task does (`CallEnds`), handlers run, and the
  inbound scenario hangs up when its socket closes (`voximplant.py` 139-143).
  Nothing is assumed of the callers, nor that the provider ever dials.
* `TextDialog`: the turns run on, and each request of the connector is refused,
  answered, or times out. No request need come, no salon need answer, no state
  need expire.
* `Listening`: the clock moves when nothing else can, and the listening task
  runs when it can. Nothing is assumed of the caller, not even that a chunk ever
  comes, nor of the model.
* `AsteriskCalls`: tasks end (that is `CallEnds`), requests to Asterisk are
  answered or fail, ready handlers run. Nobody has to answer a call, to hang up,
  or to connect.

## 4. What is proved

All proofs are by TLAPS and hold for every value of the constants, under the
named assumptions of the modules only: `AgentAssumption`, `CallAssumption`,
`AudioAssumption`, `CallbackAssumption`, `ApiAssumption`, `DialogAssumption`,
`ListeningAssumption`, `AsteriskAssumption`. These are the ranges of the
constants (`DialogAssumption` also says that `NoCall` is no request). One
theorem has a hypothesis besides, stated in it: `Grace # 0` (`CutsAreSustained`
of Listening), explained below.

Every invariant and every step property the passing runs check is a theorem.
Each inductive invariant was model-checked before it was proved: those of
`AudioSession` within the bounds of `AudioSafety.cfg`, the others within the
bounds of their module's run.

### CallLifecycle_proofs

* `TypeCorrect` (`TypeOK`). `TypeOK` is inductive; it is split by the sort of
  the variables (`NumbersOK`, `NamesOK`, `RecordsOK`, `FlagsOK`), each with a
  lemma of its own.
* `TurnAwaited`, `SavedWhileListening`, `CompletedTerminal`, `RecordComplete`,
  and the step properties `EndIsFinal` and `EscalationIsKept`, all from `IInv`.

None of these is inductive by itself. `IInv` adds what the code relies on
between awaits: outside a turn nothing but the count of unanswered prompts has
changed since the last save, and that count is zero in the store (`QuietInv`),
since a turn that was awaited is the only one that changes state; the count is
zero from an understood reply to its save, which would store another otherwise
(`RepliedInv`); an orphaned turn exists only after the dialog is over
(`OrphanInv`); nobody ends the dialog while a turn is awaited (`TurnInv`); each
stage of the end has done its part (`ClosingInv`); `slot` lags behind the salon
only while a reply is on its way or was lost (`BookingInv`). `DialogStep` and
`BookingStep` show that the steps of the call and of the agent keep these.

### Callback_proofs

* `TypeCorrect` (`TypeOK`).
* `Rationed` (`CallsAreRationed`). It needs `WindowInv`: a slot of the current
  window implies that the lock is still set, so whoever gets the lock gets a
  slot nobody has; and a call that was placed, or may still be, belongs to a
  request with a slot of its own. So the calls placed to a number are no more
  than its slots, counted with the library's theorems on cardinality. It holds
  across restarts, because neither locks nor slots are the process's.
* `OneTask` and `Finished` (`OneTaskPerCall`, `FinishedStaysFinished`). They need
  `OriginInv`: while `handle_callback` is under way there is no bridge, unless
  the client answered early; an inbound task starts once, from a bridge in
  `unknown`; a callback task implies a stored state, so no bridge becomes
  `unknown` after it; a finished dialog had a task that finished it. Hence no
  first save can follow a last one.
* `ServedHaveTasks`: a bridge that has handled `start` has a task, or the call
  was cut short. This is the safety that `ConnectedIsServed` rests on. It needs
  `ServedInv`: whoever has saved a state has started to process the call, so
  that a bridge that finds one need not start a task. Calls answered early are
  not excepted.
* `NobodyStranded`, for a call not answered early: when the tasks of a call are through, its
  line is over, or its hangup is on the way (requested from a live watcher, or
  the socket is closed and the scenario has yet to act), or the call was cut
  short. This is the safety that `ProcessedIsHungUp` rests on: what fairness adds
  is that the watcher and the scenario do act. `HangupInv` carries it, call by
  call: the task of an outbound call has the hangup URL, an inbound task has an
  inbound call, a call that was never placed has no line. `AboutOne` says that
  every step but a restart is about one call, so the rest is one case per step.

### AudioSession_proofs and AudioListener_proofs

For any number of phrases, chunks, frames and arrivals and every echo guard.

* `TypeCorrect` (`TypeOK`), split by the sort of the variables. The types of the
  queue need `LineInv`: a sender lives only while the session is registered, and
  holds frames exactly while it has a chunk in hand.
* `Invariant`: `IInv` is inductive. Its parts, in the order in which they rest
  on each other:
  * `Counted`, `Emptied`: the count of pending chunks is the queue plus the
    sender's hand, until the session closes; without a count nothing but the
    sentinel is queued, even afterwards;
  * `TaskInv`: what each await of `_say` knows of the tasks of its phrase
    (`Stages`), that a phrase not yet begun has none (`Fresh`), that a cancelled
    `send_audio` has no live barge-in beside it (`CutInv`), and that until the
    call timer fires no other phrase has live tasks (`Alone`);
  * `Unheard`, `CutGone`: a phrase that has seen the drain, or was cut by its
    barge-in, has nothing queued (`Queued`). The first uses `Emptied`: a sleeping task is
    woken by the drain, when the queue holds no speech. The second uses `CutInv`:
    nobody is left to push;
  * `OrderInv`: until the timer fires phrases are queued in the order they were
    begun, none before the one on the air;
  * `DrainedInv`, `TailInv`: a phrase that has seen the drain leaves nothing
    uncounted, and while the echo guard runs the sender works off what it has in
    hand.
* `AccountingHolds` (`Accounting`), `TailIsBounded` (`BoundedTail`) and the step
  properties `FinishedPhrasesFade` (`OverPhraseFades`) and `PhrasesAreOrdered`
  (`PhrasesInOrder`) follow from `IInv`. `FinishedPhrasesFade` uses `AirMoves`:
  what the sender has in hand is replaced only from the head of the queue.
* `ChunksKept` and, from it, `NothingIsMissed` (`ListenerMissesNothing`). `Once`
  says that each chunk that has arrived is heard, queued or in the hands of the
  barge-in task: in one of them, and once. Taking a chunk, pushing back what was
  read and a new arrival keep it (`OnceTaken`, `OnceRepushed`, `OncePushed`). It
  holds until the call timer fires: a `_say` that is cancelled does not push
  back what its barge-in has read. Then nobody listens any more.

### BookingApi_proofs

* `ApiTypesAreRight` (`ApiTypeOK`): no more attempts than `stop_after_attempt`.
* `ApiKeepsContract` (`KeepsContract`): the refinement, initial states and
  every step. It needs `OneRequest`, what was booked and what is on its way are
  one at most, which holds because a call that goes back to connecting has
  sent nothing (`UnsentIsUnknown`), and `NamedIsMade`, an id in the salon's
  answer means a booking. A retry after a timeout would break the first.

### TextDialog_proofs

For any number of requests, any `max_history_messages`, both stores and both
agents.

* `DialogKeepsContract` (`KeepsContract`): every step of `TextDialog` is a step
  of `BookingApi` or leaves it alone, so the contract holds in the composition
  too.
* `DialogTypesAreRight` (`TypeOK`). It uses the invariant of `BookingApi`: the
  turn hands on what the connector said only when the connector is through.
* `DialogInvariant`: `DialogInv` is inductive, with the types and the
  connectors' invariant. A connector works only for a turn that waits for it
  (`Waits`); a request in progress works on a dialog that holds its message, and
  its booking from when the connector has answered (`Working`); what an
  answered request has left is in the store and in whatever a request under way
  will write there (`Handed`); a request that overlaps with no other is the only
  one in progress (`Lonely`); a client that was told that the dialog is over
  leaves nobody at work (`OverInv`).
* `AnswersAreKept` (`AnsweredIsKept`) is `Handed`; `OverIsFinal`
  (`OverStaysOver`) is `OverInv`. `Handed` without its second half is not
  inductive: a request that started before the answer could write an older
  dialog over it.
* `PromptIsRight` (`PromptHasContext`), from `Working` and `PromptOfHistory`, a
  lemma on sequences: where the message is the last entry, cutting the
  history to `max_history_messages` keeps all of the dialog there is room for.

### Listening_proofs

* `TypeCorrect` (`TypeOK`), with `Rested`: what one utterance leaves behind
  cannot shorten the next.
* `UtterancesAreBounded` (`UtteranceBound`). `WaitingInTime` is the
  strengthening: a read that waits began before the limit, and since then the
  clock has advanced by no more than `quiet`. It uses
  `InitialSilence <= MaxUtterance`.
* `InterruptionsAreHeard` (`InterruptionIsHeard`). `Kept` follows the loud
  chunks that confirmed the barge-in, from the barge-in's buffer to the end of
  the queue and through the phrases in between, and says that listening does not
  wait, hence cannot give up, before it has read one.
* `UtterancesEndInPauses` (`CutOnlyInPause`), from `PauseIsReal`: the pause
  measured so far is no longer than the caller has been quiet, unless a loud
  chunk still waits in the queue. The measured pause starts when a chunk is
  read, which is later than when it came; what has come since is in the queue.
* `CutsAreSustained` (`SustainedBargeIn`), for `Grace # 0`. `CountIsReal`: in the
  grace period nothing is counted; after it the queue holds at most the chunk of
  this tick, and `consecutive` with that chunk is the run of loud chunks that
  have come. The hypothesis is needed: with a grace period of 0 what the caller
  said while the agent was thinking is read at the start of the phrase and
  counts, and TLC finds the phrase cut by it. `config.py` 190 sets 0.6 seconds;
  nothing checks the setting.

### AsteriskCalls_proofs

* `TypeCorrect` (`TypeOK`).
* `NobodyForgotten`, `TableIsBounded`, `AnsweredAreBridged`, from `IInv`: a task
  that talks has its channel in the table (`InTable`), an answered channel is in
  an event or in the pump's hand (`Bridging`), and the pump lives as long as its
  WebSocket (`PumpAlive`). `TableIsBounded` (`ConversationsLeaveNoEntry`) needs
  `StartedOnce` besides: the StasisStart of a call comes once and is handled
  before its channel reaches the bridge, so none is left that could put back the
  entry of a call the agent has talked to. `OnceAppended` and `OnceTaken` follow
  it through the queue of events.

### Only model-checked

Every liveness property (`CallEnds`, `TurnsQuiesce`, `PhrasesEnd`,
`HangupReachesBridge`, `ConnectedIsServed`, `ProcessedIsHungUp`, `RequestsEnd`,
`ListenEnds`, `ShutdownEnds`): liveness under fairness and ENABLED are out of
this prover's reach. So is induction over data, hence what a recursive
definition computes, and any module that declares a RECURSIVE operator; the
modules declare none. The five properties the code violates are counterexamples
of TLC.

## 5. What is not modelled

* Content: prompts, histories, wording, prices, dates; PCM, WAV, JSON, base64.
* The expiry of a state during a phone call: `state_ttl_seconds` is far longer
  than a call. For a text dialog it is modelled (`Expire`).
* `InMemoryStateStore` for phone calls: a restart empties it, so
  `CallsAreRationed` is a statement about Redis.
* A second connection with the same `call_id`: the scenario and the dialplan
  open their socket once.
* Audio of other sources than the caller: echo is a `loud` chunk like any other.
* The connection of the clients at start-up, and a provider that is not
  configured: both end the process before it serves anybody.
* TTS and STT clients, webhooks, the admin endpoint and security: stateless.
  Twilio and mock telephony: no real-time audio.

## 6. Plan

Done so far: the call, the audio, the entry points (first), then the text
dialog, the booking connectors, listening and Asterisk.

To prove next, the safety that the remaining liveness properties rest on, as
for Callback:

1. `CallLifecycle`: a call whose task is over has been hung up, or one of the
   named failures happened (for `CallEnds`).
2. `TextDialog` and `AsteriskCalls`: a request, or a shutdown, that is not
   through always has a step of the code's own left, or waits for the salon or
   an open connection (for `RequestsEnd`, `ShutdownEnds`).

To model next, where it would replace a shallower property: `CallContract`,
what a user of the service may rely on (a call rings, is talked to, is recorded,
is over), implemented by `CallLifecycle` and by the task of `Callback`; and the
phrase that `CallLifecycle` assumes (`Playing`, `stuck`) implemented by
`AudioSession`.
