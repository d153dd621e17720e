# TLA+ verification of the VFR ATC plugin

The program is an X-Plane plugin that plays the air traffic controller for VFR
flights in Germany: the pilot holds a push-to-talk key and speaks, the plugin
transcribes the transmission (STT), finds out what the pilot wants (rules, or
a language model, LM), decides what a controller would answer (the ATC state
machine), and speaks the answer (TTS). Unasked, it also broadcasts ATIS, warns
of traffic and orders go-arounds. Everything runs on X-Plane's main thread, one
frame at a time, except inference and HTTP, which run on worker threads and
return through a queue of callbacks, the two threads that download, verify and load
models, the thread that reads the airport file, and the callbacks of the sound devices.

## 1. Inventory

| Part | State it keeps | Operations | Talks to |
|---|---|---|---|
| Push-to-talk session (`atc/atc_session.cpp`) | PTT state, `tts_pending_`, ATIS flags and timers, retry counter and timer, the stored reply (`last_guarded_req_`), error flags | press, release, typed text, retry button, callbacks, `update()` per frame, init/stop, ATIS reset | manager (jobs), engine (transcripts), audio, state machine (snapshot, rollback) |
| Flight loop (`main.cpp`) | frame counters | `flight_loop_cb`, enable/disable, plugin messages | everything, in a fixed order |
| Backend manager (`backends/manager.cpp`) and the nine backends | one registered backend per stage, workers, callback queue, one mutex per stage | `*_async`, `drain_callback_queue`, register, unregister, stop | workers, session, engine |
| Model loader (`backends/loader.cpp`) | one worker thread, a status row per file, the single-file hint | start, start(key), clear_file_state, stop | manager, manifest |
| Downloader (`backends/downloader.cpp`) | one worker thread, queue, progress rows, `.part` files | enqueue, force_redownload, cancel, delete, stop | loader, UI |
| ATC state machine (`atc/atc_state_machine.cpp`, `atc/flows/`) | `g_state`: ATC state, readback flag and clearance, runway and callsign locks, history, generation | `process`, auto-correction, airport change, disregard, reset, snapshot/restore | engine, session, UI |
| Engine (`atc/engine.cpp`) | LM bookkeeping, traffic and advisory state | `process_transcript`, polls | parser, state machine, manager, traffic |
| Intent parser and rules (`atc/intent_parser.cpp`, `intent_rules.cpp`) | rule tables | `parse` | engine |
| Readback check (`atc/bzf_compliance.cpp`) | the components of the last clearance | compare, strict verdict | engine, state machine |
| Flight phase (`atc/flight_phase.cpp`) | phase, candidate and its timer, thresholds | `update`, `reset` | state machine |
| Traffic (`data/traffic_*.cpp`, `atc/traffic_*.cpp`, `landing_sequence.cpp`) | snapshot, last phases, cooldowns, the open dialogue | refresh, advise, answer, clear to land, go-around | engine |
| Airport context (`core/xplane_context*.cpp`) | caches built by a detached thread, the match, the airport lock | `update`, lock, unlock | everything that reads the context |
| ATIS generator (`atc/atis_generator.cpp`) | letter, the weather it stands for | `check_for_update`, COM selection | session |
| Audio (`audio/`) | capture buffer, one channel, the key | record, play, abort, callbacks, audio test | session, UI |
| Settings and keys (`persistence/`) | `cfg`, `settings.json`, keychain, voice catalog | init with migration, setters, save | all |
| Logbook (`core/cross_country_log.cpp`) | the open flight and its file | write, new flight | engine, UI |
| Phraseology, templates, hints, airspace data, drawing | tables | functions of text, file parsing, ImGui | all |

What is hard is what happens *between* two steps of one operation. Many frames run between submitting
a job and its callback: the pilot retunes, presses the key, types; the state machine corrects itself; a
backend is unloaded; the plugin is disabled. The session has no job identifiers. The loader's
thread, the download worker and the buttons share the model directory and the rows that describe it. The
sound devices call back when they like. Files are replaced in two operations, either of which may fail.
And the polls that speak unasked work from snapshots that are up to thirty frames old, behind cooldowns
that may starve one another.

What makes the parts correct:

- session: push-to-talk always comes back; at most one exchange at a time; never
  microphone and voice together; a reply that could not be spoken is rolled back
  unless somebody else moved the state machine since;
- manager: every job submitted gets exactly one callback, and it says what the provider said; stop terminates;
- loader and downloader: nothing serves the pilot that was not verified, the rows tell the truth, no
  wake-up is lost, no thread survives disabling;
- state machine: a clearance exists only where a tower can have given it; a readback is asked only for
  the clearance that was given; timers do not fire for a state that was left; snapshot and restore are inverse;
- parser and readback check: the intent fits the aircraft's situation; a correct readback is accepted
  however the recogniser writes it, and a wrong one is not;
- surroundings: go-arounds and traffic calls do not dry up, a context describes one airport, a lasting change of
  weather gets a new letter, the phase detector neither bounces nor sticks;
- audio: what is transcribed was said while the key was down; one voice at a time;
- settings, logbook: a flag never promises a key that is gone; a voice speaks the language of its role; no flight is
  overwritten, and its file is complete.

## 2. Modules

| Module | What it is |
|---|---|
| `AtcSession` | the session, the frame that drives it, the callback queue, the audio channel and the part of the state machine that rollback touches |
| `HalfDuplexRadio` | the abstract promise of the session to its user |
| `UnheardReply` | the abstract promise of the rollback, which session and dialogue both implement |
| `AtcStateMachine` | the functions of the state machine and its flows on a value of `g_state`, for any profile |
| `AtcDialogue` | who calls them: engine, language model, flight loop, buttons, rollback |
| `DeProfile` | the German profile (`data/atc_profiles/de/*.json`) as tables |
| `BackendManager` | backends, worker threads, callback queue, stop |
| `ModelLoader` | the loader's worker and operations |
| `ModelDownloader` | the download worker, composed with the loader and the main thread that drives both |
| `TrafficPicture` | the traffic snapshot and its classifier |
| `RunwayWatch` | landing sequence and go-around, over the picture |
| `TrafficAdvisor` | advisories and the pilot's answers, over the picture |
| `AirportContext` | the active airport, its frequencies and the cache thread |
| `AtisLetter` | the letter of the broadcast |
| `FlightPhase` | detection and hysteresis of the own phase |
| `AudioDevices` | recorder, player, key and audio test with their callbacks |
| `Settings` | settings file, keys, catalog, voice of a role |
| `FlightLog` | the logbook and its files |
| `IntentParser` | from transcript to intent, for any rules and any table of adjustments |
| `IntentRules`, `DeIntentRules`, `EnIntentRules` | how a rule fits a text; the German rules and adjustments; the English adjustments |
| `ReadbackCheck` | comparison of a readback with its clearance |
| `MCAtcSession`, `MCAtcDialogue`, `MCBackendManager`, `MCModelDownloader`, `MCSurroundings`, `MCPeripherals` | constants for TLC; the last two join the small modules |
| `AtcSessionProofs`, `AtcDialogueProofs`, `BackendManagerProofs`, `ModelDownloaderProofs`, `SurroundingsProofs` (`TrafficAdvisor`, `FlightPhase`, `AirportContext`), `AudioDevicesProofs`, `PersistenceProofs` (`Settings`, `FlightLog`), `TranscriptProofs` (`IntentParser`, `ReadbackCheck`) | theorems |

`AtcSession` and `AtcDialogue` overlap in one place, the stored reply. The first
keeps all of the session's timing and takes `g_state` as a value somebody may
change; the second keeps all of `g_state` and takes the session's promise, one
transmission at a time (`Sequential`, `CanTransmit`), for granted. That the two mean the same by a
rolled-back reply is what `UnheardReply` is for: it says, without generations and retries, that a reply nobody
heard is undone to what was known when the pilot spoke, or not at all if anything else happened since, and both modules
refine it (`SessionKeepsPromise`, `DialogueKeepsPromise`). `AtcSession` takes from
`BackendManager` that every job is answered once (`OneAnswer`, `AnsweredEventually`), and
`AtcDialogue` takes verdicts from the parser, the readback check and the traffic picture as inputs, which
`IntentParser`, `ReadbackCheck` and `RunwayWatch` compute.

### AtcSession

Variables keep the names of the statics of `atc_session.cpp` without the
trailing underscore. `pc` is the main thread's place in a frame: `"events"` between two
frames (key, buttons, knobs, plugin messages), `"drain"` in
`drain_callback_queue`, then the sections of `update()` in their order.

| Code | Model |
|---|---|
| `flight_loop_cb` | `BeginFrame`, the callbacks, `FinishPlayback` ... `AtisTrigger`; `draining` is the length of the swapped-out queue, so a callback enqueued by a callback waits for the next frame |
| `spawn_worker`, `*_async` | `Submit`: a slot of `workers`, or the immediate failure callback when the backend is not registered |
| a worker leaving the model | `WorkerDone`, with any result; only TTS distinguishes blocked content |
| closures | the job's `kind` selects the callback; `snap` is the snapshot an LM closure carries |
| `last_guarded_req_` | `req` (validity, snapshot, expected generation; text and voice are data) |
| `g_state` | `atc = [gen, val]`: the generation and an abstract value for all fields a snapshot restores |
| `audio_player` | `audio`: what the one channel plays |
| timers in seconds | numbers of frames |

`hist` is a history variable: `foreign` says that somebody else changed the
state machine since the pending transmission took its snapshot, `intervened`
that somebody did since the stored reply was produced. No action reads it.

Worker and playback completion are taken between frames only: they touch the
tail of the queue and the playing flag, which the main thread reads once per
frame, so a completion in mid-frame cannot be told from one between frames.

`FreshFlight`, `Disregard`, `BeginFrame` and `AutoCorrect` may change `atc` to any value:
they stand for `begin_fresh_flight`, the Disregard button and the other UI setters,
`flight_phase::update` setting `was_airborne`, and auto-correction and airport change.

### AtcStateMachine and AtcDialogue

`g_state` is a record `g` with the fields of `AtcMachineState`. Each function of
`atc_state_machine.cpp` and `flows/` that assigns to it is an operator of the same name
from the old record to the new one; `process` composes them in the order of
the code: cross-country promotion, airport change, negative correction, repeat, state
reverts, info and unicom flows, frequency hint, frequency validity, frequency
corrections, idle redirects, tower-only collapse, preconditions, initial-call
check, template lookup, landing sequence, strict readback check, post-transition hooks. A guard that
answers by itself ends the pipeline, as its early return does.

The JSON profile is data of the program, so its tables are CONSTANTS, and
`ProfileAssumption` is all that is assumed of them. `DeProfile` is the German one.

| Data of the code | In the model |
|---|---|
| transcript | `intent`, `sure` (confidence above the threshold), `runway`, `callsign`, `declares` (flight intent), `complete` (initial-call check), `read` (the elements of a clearance that it repeats) |
| template text | whether something is said, and which elements it issues |
| clearance text and components | what must be read back, and the runway |
| simulator context | kind of frequency, kind of field, on the ground or not, airport, active runway, traffic verdict |
| seconds of a correction rule | 1 to 3 frames for 3, 5 and 90 s: the order is kept |
| `generation_` | one bump per entry point: it is only compared for equality with a value read at the end of one |

| Action | Code |
|---|---|
| `HearReadback`, `HearCall`, `AnswerAside`, `Garbled` | paths of `engine::process_transcript` that answer at once |
| `AskLm`, `LmAnswers`, `LmInvalidReadback`, `LmAside` | the question to the language model, with the context, time, readback flag and vocabulary of the moment of speech, and its callback |
| `ReplyHeard`, `ReplyLost` | end of `dispatch_guarded_tts`: played, or rolled back if the generation is still the expected one |
| `Frame` | `flight_phase::update`, airport change and auto-correction in `flight_loop_cb` |
| `Disregard`, `NewFlightButton`, `FreshFlight` | buttons, and the plugin message of a new flight |

`guard.after` and `heard` are history variables: what the reply left behind, and the
last transmission with its circumstances. No action reads them.

### Environments

Two constants bound what happens to work in flight. `RetuneInFlight` lets the
pilot leave the ATIS frequency while the broadcast is still being synthesised;
`ToggleInFlight` lets the plugin be disabled with work outstanding. `Quiet`
is neither. Some properties hold in every environment, some only
in the quiet one; `session_live` allows every interruption.

### BackendManager

| Code | Model |
|---|---|
| `g_stt`, `g_lm`, `g_tts` | `registry`: the instance of a stage, named by its provider |
| a detached worker with the job it captured | `job[r]`: where it is (before the backend, inside it, with a result), what it holds |
| `g_callbacks`, the deque `drain_callback_queue` swaps out | `callbacks`, `local` |
| `stop()` | `phase`: it waits for the workers, up to the cap, then forces (`forced`) |
| the nine backends | one operator each, from a provider's answer to the manager's result (`OpenAiTranscribe`, `MistralSynthesize`, ...) |

What a provider answers is any member of `Replies`: a failed transfer, a refusal with or without a policy
body, a good status with every kind of body the code looks at. The worker of
`classify_with_repair_async` reads the intent out of the answer and checks it against the caller's list
(`ClassifyResult`); `synthesize` falls back to the default voice.

### ModelLoader and ModelDownloader

An entry of the manifest is one file, a voice two. On disk a file is absent, short, corrupt or good; `size_matches`
sees the difference between short and the rest, the hash all of it. `thread` and `dl` say where the two workers
are: between any two of their steps the main thread and the other worker may act. `"parking"` is the
moment inside `g_wake.wait` after the predicate was false and before the thread sleeps, where a
notification without the mutex is lost.
`content` is a ghost: what a loaded unit was read from. The clicks of the Models tab (download, cancel, delete,
verify again) and of the Settings tab (backend mode) are sequences of calls that the main thread works off.

### Surroundings

`TrafficPicture` walks each aircraft through stages of a flight that are given by numbers
(height, speed, distance from the centre line), and classifies the numbers with the thresholds of
`traffic_phase_classifier.cpp`; what remains of the geometry towards the user is a choice among
constellations. `RunwayWatch` and `TrafficAdvisor` read the snapshot, which is older than the
aircraft's real position. The cooldowns of the advisor are ages up to the longest of them.
`AirportContext` has the throttled look-up, the match that survives between look-ups, the lock, and the
detached thread whose three moves (`building`, `moving`, `ready`) the frames can observe.
`AtisLetter` compares weather by the code's limits (30 degrees, calm, 1 hPa, visibility class).
`FlightPhase` applies the code's thresholds to samples and lets a frame last 0.1, 0.2 or 0.7 s.

`MCSurroundings` and `MCPeripherals` each join five parts that share no state (except the traffic
picture). A behaviour moves one of them, chosen in the initial state (`watched`, `subject`), and
leaves the others where they start: the state space is the sum of the parts and not their product,
which would say nothing more.

### Peripherals

`AudioDevices`: a sound is a number, and so is a press; `buffer` holds for each chunk the press it was
captured under. The capture callback runs on the device's thread and has steps of its own; the
platform either waits for it when stopping (miniaudio) or does not (`joins`). `owed` are the completion callbacks
that the mixer has still to deliver.

`Settings`: `cfg` and `file` are separate, and `save()` is two steps, so that a crash
leaves a torn file; keychain calls may be denied. `FlightLog`: a document knows the flight it belongs to, a path does
not; `flush_flight` writes and renames, either may fail, and `replaces` says whether a
rename replaces an existing file.

`IntentParser`: a transcript is a sequence of words of a vocabulary. `Needles` says which strings of the rule tables a
word contains, so that substring search is modelled and not just word search. Which rule fits is a parameter
(`verdict`): the runs give it the evaluation of `IntentRules` over the rules of the German
`intent_rules.json`, in its order, and the theorem says nothing of it. `ReadbackCheck` builds the clearance from the trigger and the
values issued, lets the pilot mean the same or other values and render them in words, figures
or welded together, and compares as `bzf_compliance.cpp` does.

## 3. Runs

| Run | Shows |
|---|---|
| `session_quiet` | `Sequential`: at most one job, and PTT state and flags say which; `HalfDuplex`; `RetryHolds`: nothing overtakes a reply between two tries; `HeardIsKept`; `RollbackExact`; refinement of `HalfDuplexRadio` (`ImplementsRadio`) and of `UnheardReply` (`SessionKeepsPromise`) |
| `session_live` | with every interruption, under fairness: `NeverWedged` (the session waits only for a callback that is coming) and `PushToTalkReturns` |
| `session_rollback` (violated) | a correction made while the LM was thinking is undone by the rollback |
| `dialogue_every` | every intent in every kind of surroundings and phase: `ClearedByTower` |
| `dialogue_departure` | stand to take-off, rules and language model: `ArmedWithClearance`, `XcHonoured`, `StrictHolds`; refinement of `UnheardReply` (`DialogueKeepsPromise`) |
| `dialogue_pattern` | runway to runway, and away, under fairness: `HistoryChain`, `PhaseWins` (the state machine follows the aircraft) |
| `backends` | `OneAnswer`: exactly one callback per call, also with the backend replaced, unregistered or stopped meanwhile; `HonestVerdict`: success and content agree with what the provider did; `StoppedClean`; `AnsweredEventually` |
| `models` | `OnlyVerifiedLoaded`, `DoneIsOnDisk`, `QueuedIsPending`, `NothingSurvivesDisable`, `NoLostWakeup` |
| `surroundings` | `GoAroundRepeats`, `PendingIsLastIssued`, `EveryTargetCalled`, `OneAirport`, `ChangeIsTold`, `BounceIgnored`, `PhaseSettles` |
| `peripherals` | `OwnVoiceOnly`, `OneVoice`; `FlagHonest`, `VoiceFitsLanguage`; `LogComplete`, `NoFlightOverwritten`; `PhysicallyPossible`; `CorrectIsAccepted` |
| `touch_and_go` (violated) | the touch-and-go request that the hints panel suggests is taken for a go-around |
| `readback_wrong` (violated) | the wrong runway is accepted when the digits of the right one occur in the QNH |

### Session runs

Bounds. `EnvBudget` counts the transmissions, unsolicited calls,
state-machine mutations and toggles of a behaviour; two of them make every pair meet (a
transmission with a mutation, a broadcast with a press, a disable with an
enable). Retuning outside synthesis and loading backends are free. Three worker slots
are enough for two leftover jobs and a live one; the quiet runs use two, so
that a second job would be seen. `kMaxTtsTries` is the code's 3 in `session_quiet` and 2 where
the state space is large; one retry already has a first and a last failure. Delays are
one or two frames: what matters is that frames fit in between. Two
values of `g_state` distinguish rolled back from kept; `session_live` needs only one.

Fairness (`session_live`). X-Plane calls the flight loop for ever (weak fairness of `Frame`); an
inference or HTTP call ends (the HTTP clients set a time limit) and a sound
that started ends (strong fairness of `WorkerDone` and `PlaybackDone`, because
they are taken between frames only). Nothing is assumed of the pilot: an open microphone may
stay open, so the property is about `PROCESSING` and `PLAYING`.

### Dialogue runs

Bounds. `MaxOps` counts calls and clicks; frames are free. `dialogue_every` makes one call (and
what the model, the frames and a lost reply make of it) with every intent of the parser, in every
combination of field and frequency that the guards tell apart, two runways and two airports: it is there for the
breadth of `process()`. The others take fewer kinds of calls three deep, which is
the length of taxi, readback, take-off and of take-off, report, clearance.
`HistoryCap` is 2 in place of 8, so that the oldest entry is dropped. The clock
only dates history entries, and stands still except in `dialogue_every`.

Fairness (`dialogue_pattern`). X-Plane calls the flight loop for ever: weak fairness of the frame
that finds the aircraft where it was. Nothing is assumed of the pilot, the
language model or the speaker.

### Backend and model runs

Bounds. `backends`: two requests are enough for one to overtake the other at every point, and two
registrations for one instance to be replaced under a worker. `models`: one
Whisper model, one Llama and one voice of two files have every kind of loading in them; two clicks make each button
meet each other one at every step of both workers. The run stops when the clicks are used up, so
deadlock is not checked there; `NoLostWakeup` says what a deadlock of the download worker would be.

Fairness (`backends`). The flight loop drains the queue for ever, and a call into a backend returns: the HTTP clients set a
time limit, the local models produce a bounded number of tokens.

### Surroundings and peripherals

Bounds. Two aircraft, so that one can hide the other, over eight stages; cooldowns scaled to 1 to 4 units with
their order kept, since only their comparison matters; four airports
or places where towered, information and frequency-less fields differ; four weathers around the limits of the comparison; three
letters, so that the alphabet wraps; eight samples of the own aircraft. With more targets than
`PerTargetCooldown / GlobalCooldown` the advisor starves the farthest, so `EveryTargetCalled` is stated for the two
that the ratio of 3 admits. `peripherals`: two presses and one audio test with up to four sounds, three edits over
three starts of the plugin, four log entries with two faults, each word of the vocabulary with each
station, ending and circumstance, every clearance with every rendering of two registrations, three
runways and two pressures.

Fairness (`surroundings`). The flight loop calls `update` twice a second, `check_for_update` once a second and
the phase detector in every frame, and time passes (weak fairness). A snapshot lives for thirty frames, in
each of which the advisor is polled while the radio is idle, so a poll that is due again and
again is taken (strong fairness of `poll_traffic_advisory`). `PromptPilot` in `EveryTargetCalled` is what
the pilot must do: an advisory that is never answered blocks the next for ever, since the code has no timeout.

### Further disagreements

Met while modelling; they are listed here and have no run of their own.

Session and dialogue:

- `tts_pending_` is said to be true "between speak_response() submitting a TTS job and the async
  callback firing" (`atc_session.cpp:48`). The abort of a broadcast leaves it set, and the late
  callback clears the flag of the next job: an aborted broadcast can be played while the pilot records
  (`atc_session.cpp:874` and `886`).
- "Pre-conditions: state_ == PTTState::PROCESSING" (`atc_session.cpp:402`) does not hold for a
  transcription that survives disable and enable.
- With both COMs on ATIS, switching the active COM aborts a broadcast whose COM did not change
  (`atc_session.cpp:869`).
- A pilot reset to IDLE for leaving the frequency still owes the readback (`ground_operations.cpp:535` against
  `atc_state_machine.cpp:748`).
- "Continue approach" asks for the readback of the landing clearance it replaced (`pattern_flow.cpp:165` against
  `atc_state_machine.cpp:603`; the template says `requires_readback` false, `atc_templates.json:378`).
- The rule that advances a pilot who tuned the tower early (`flight_rules.json:155`) is never reached
  (`atc_state_machine.cpp:917`); `test_post_landing_idle.cpp:165` calls the function alone.
- `assigned_runway()` "Returns the runway that ATC has cleared the pilot for"
  (`atc_state_machine.hpp:137`), but a clearance names the runway the pilot asked for, while
  the lock keeps the first.
- The session callsign is "Cleared on every IDLE return" (`atc_state_machine.cpp:120`), but
  not by the returns that go through `transition_to()` alone.
- "empty `required` when no readback is outstanding" (`atc_state_machine.hpp:105`): an
  auto-correction ends the obligation and leaves the clearance.
- History times are "monotonic" (`atc_state_machine.hpp:69`), but the language model's answer is
  recorded with the time of speech, behind entries that frames made later.

Backends and models:

- "One mutex per stage covers ... the teardown path" (`manager.cpp:47`), but register and `stop()` take
  `g_backend_mtx` only; "stop() joins all worker threads" (`manager.hpp`) up to a cap of five seconds.
- `start(key)` is dropped while the loader runs, so a file downloaded meanwhile is not checked until the next
  start (`loader.cpp:1090`).
- `downloader::stop` sets its flag and notifies without the mutex (`downloader.cpp:556`): the wake-up of a
  worker between predicate and sleep is lost, and the join waits for ever. `NoLostWakeup` is about
  the notifications of enqueue, which do hold it.
- A cancel between the choice of an entry and the reset of `g_cancel_active` is lost (`downloader.cpp:204`); rows stay
  "Queued" after stop; `cancel()` compares a key without language (`downloader.cpp:505`).
- The Llama file is loaded by its size alone (`loader.cpp:387`), which `OnlyVerifiedLoaded` therefore excepts.

Surroundings:

- An aircraft rolling out is "Landed" for one update and then not a ground phase, so the runway is not occupied by it
  although one "must not be cleared to land into an occupied runway" (`pattern_flow.cpp:163`).
- A phase remembered while the traffic features are off is taken for the last one when they are on again.
- The branch without an airport keeps the ATIS frequency and the name of the last one; the frequency caches are read
  before the ready flag while the detached thread moves them.
- One long frame satisfies the hysteresis of the phase detector alone, and a raw phase that flickers
  holds the timer at zero (`flight_phase.cpp:472`).

Peripherals:

- "kein verkehr in sicht" is TRAFFIC_IN_SIGHT, because that rule precedes the negative one; the INITIAL_CALL rule can
  never be the first that fits; three phrases that the hints panel suggests parse as other intents.
- A centre runway read back as "Mitte" is judged wrong; "Piste 06, Lima ..." covers 06L; a wrong value welded to
  its keyword is missing, not wrong; a squawk is never required.
- The completion callback of a stopped sound may arrive after the next started (`audio_player.cpp:46`); the audio test
  shares the recorder with the key (`atc_ui.cpp:1322`).
- `save()` truncates in place (`settings.cpp:353`): a crash leaves a file that is read as no settings at all. `init()`
  replaces two models that the drop-down offers (`settings.cpp:276`). A language change "Applies on the
  next plugin start" (`atc_ui.cpp:1842`), but the voice of a role is read live, and is silent if it is not loaded.
- Where a rename does not replace a file (Windows), the logbook stays at its first transmission, against "always a
  complete, well-formed file" (`cross_country_log.hpp`); `LogComplete` is stated for a rename that
  replaces and operations that succeed.

## 4. Proofs

Thirty-seven theorems. Every property of the passing runs is one of them, but for the seven liveness properties named
under *Only model-checked*. The runs show a property for small constants; the theorem states it for all
that satisfy the assumptions of the modules, which TLC evaluates in every run. Type correctness is proved and no longer
asked of the runs.

### Session

The theorems hold for every set of slots, values, radio settings, delays, numbers of
tries and budget that satisfy `SessionAssumption`.

`AtcSessionProofs`, every environment:

- `TypeCorrect`. `TypeOK` is inductive together with `Drains`
  (`draining <= Len(callbacks)`): without it a callback step may take the head of an
  empty queue.
- `NoLostWakeup` (`NeverWedged`). Inductive over `TypeOK`: lemma `SubmitOut`
  says that every submission leaves a job of its kind outstanding, `TailOut`
  what a delivered callback leaves.
- `RevertGuard` (`RollbackExact`). Rests on `GenTells`: while a reply is stored, its
  expected generation is at most the current one, and they differ exactly when
  somebody intervened. This is why a counter that only grows is a sound test for change, and
  why the rollback must bump it too.

The same module, under `Quiet`:

- `QInv`: the kind of the one outstanding job decides the mode of the session
  (`Resting`, `Thinking`, `Answering`, `Calling`, `Broadcasting`), the mode decides PTT state
  and flags, `Air` says when a voice may sound, and a disabled plugin is idle between
  frames. `Sequential` alone is not inductive: nothing in it says that a session whose reply
  is outstanding is `PLAYING`, so a press could be accepted.
- `OneJobAtATime`, `NeverBothWays`, `RetryBlocksPtt`, `HeardReplyStands` follow;
- `RadioRefinement`: `EdgeStep` reduces every action to one of the
  edges of the radio under `QInv`, `RadioStep` maps edges to abstract actions.
- `SessionPromise` (`SessionKeepsPromise`): the session refines `UnheardReply`. The stored reply is the abstract one, and
  `moved` the code's test of generations; `GenTells` is why a foreign change makes the test true and no step makes it false
  again. `QInv` says that no question is with the model while a reply is pending, so that every snapshot a
  closure carries is that of the transmission being answered.

### Dialogue

`AtcDialogueProofs` holds for every profile that satisfies `ProfileAssumption`, every set of calls and
surroundings, and every history cap, so for the English profile and for an edited one too.

- `Sound(g)` says that `g` is well typed, that a readback owed has its clearance, and that the history is a
  chain within the cap. `Versioned(g, h)` says that `h` has a higher generation than `g`, or the
  same generation and the same protected fields. For each function of the state machine a lemma shows
  `Keeps`, that its result is sound and versioned; `process` is their composition.
- `IInv` adds to `TypeOK` that `g` is sound, that the snapshots held by the question to the
  language model and by the pending rollback are sound, and `GuardSeesEverything`. The parts about
  snapshots are needed because a rollback makes an old machine the current one: what
  holds of `g` must have been true of the snapshot already.
- `TypeCorrect`, `ReadbackArmed`, `HistoryIsChain` and `GuardComplete` follow.
- `DialoguePromise` (`DialogueKeepsPromise`): the dialogue refines `UnheardReply` too, here with everything a
  snapshot holds. `moved` is that the generation is no longer the expected one, and `Versioned` is why no
  entry point can act unnoticed.

Three action properties about what a transmission may do:

- `StrictReadback` (`StrictHolds`), every profile. `Owes(h, C)` says that the readback of clearance `C` is
  outstanding. `IncompleteOwes` shows that `process` keeps the obligation when the transmission leaves one of them out,
  stage by stage in the order of the pipeline; the paths around `process` (an invalid readback found by the
  model, words it could not place, an answer aside) are one lemma each.
- `OnlyTheTowerClears` (`ClearedByTower`), every profile with `GuardedProfile`. No single check of the code says that only
  a tower clears: the frequencies of an intent, the states valid on a frequency and the redirects from `IDLE`
  say it between them, each for some states, and the code would let a profile through that has a gap. `GuardedProfile`
  is what the tables must satisfy for the gap not to exist: a row that leads onto a runway belongs to an intent whose
  preconditions fit, and is stopped by one of the three guards on every frequency that is not the
  tower's; nothing else leads onto a runway. `NoEntry` says that a step enters no runway state. It is shown of every
  guard, hook and correction, and `LookupGuarded` of the template look-up under the negation of what the guards let by.
- `DeclaredIsHonoured` (`XcHonoured`), every profile with `XcProfile`: the promotion at the head of `process` is not
  enough by itself, since a row could clear again without setting the kind of departure. `GuardsKeepIntent`
  says that the guards before the look-up keep what the pilot declared, `LookupReadback` that a row which
  demands a readback is not such a second clearance.

`GuardedProfile` and `XcProfile` are conditions on the data and not assumptions of the model: `MCAtcDialogue` asserts
both of the German profile, and TLC evaluates them there.

### Backends

`BackendManagerProofs`, for every number of requests, registrations and every subset of operations and voices.
The invariant is `TypeOK`, `OneAnswer`, `HonestVerdict`, `WorkersHaveOp` and `StopInv`.

- `EveryRequestOneAnswer`. `OneAnswer` counts a request in the job table, the queue and the deque swapped out, so
  each step must show that the request is in one of them before and in one after it. The two queues are seen as one
  (`PendingOf`): the swap of `drain_callback_queue` moves entries from one to the other, and a lemma says that the
  same requests are pending.
- `VerdictsAreHonest`. `CallIsHonest` says, for all nine backends, what verdict each of a provider's answers becomes. The CASEs of
  the backends' operators overlapped in the order of the code's early returns; they are now the IF chains the
  code has, since a CASE with overlapping arms promises none of them in particular.
- `StopLeavesNothing`. `StoppedClean` is not inductive by itself: `StopInv` adds that a manager that is no longer up has no deque in
  the middle of being drained, whose callbacks could submit again.

### Models

`ModelDownloaderProofs`, for every finite manifest, initial content of the model directory and number of clicks; the loader is
included, with both workers interleaved at every step.

- `LoadInv`: what the loader's run has verified is good or gone. A download worker writes under the final name only
  what it has hashed, which is why the look at a hash stays true although another thread may replace the file.
  `OnlyVerifiedServes` follows.
- `QueueInv`: the queue names no entry twice and not the one in transfer (`QueuedOnce`, theorem
  `QueueHasNoDuplicates`), and is empty while the worker parks or sleeps (`WakeupsArrive`). `QueuedOnce` is what makes
  removing one occurrence in `cancel` (`Erased`) the same as removing the entry.
- `RowsInv`: `DoneMeansOnDisk` and `QueuedMeansPending`. A row says "Done" without its file in one place, between the removal
  in `force_redownload` and the `enqueue` that follows it (`Replacing`); `Paired` says that the one is always followed by the other.
- `OffInv`: the plugin joins the download worker before the loader, so nobody can start a run behind
  `stop()` (`DisableLeavesNothing`).

### Surroundings

`SurroundingsProofs`.

- `AnswerIsAboutLastCallout`: with the types of the advisor and `KnownTargets`, for every set of aircraft and all
  cooldowns up to the lockout (`CooldownAssumption`, the order of the code's constants).
- `NoTakeOffInABounce` (an action property): `TimerIsAirtime` relates the timer of the candidate to the time the
  aircraft has in fact been off the ground, for every sequence of samples and frame durations and
  all thresholds. The timer alone says nothing, since another candidate may have started it.
- `ContextIsOneAirport`: `Coherent` says that frequencies, facility and runways belong to the nearest airport or are
  empty. It needs the third part of `ContextInv`, that until the caches are ready nothing was found: an early look-up replaces the
  airport and leaves the rest.

### Audio

`AudioDevicesProofs`, any number of sounds, presses, tests and chunks.

- `OneVoiceAtATime`: `VoiceInv` holds until a completion callback meets a channel that is not its own (`misfired`, the
  disagreement in section 3), between handing a sound over and publishing its channel too.
- `RecogniserHearsThePilot`: `MicInv` says what buffer and the callback in flight may hold in each state of the recorder. A
  chunk of an audio test can come first and only first, on a platform that does not wait for its callback.

### Persistence

`PersistenceProofs`.

- `EveryRoleHasAVoice`, `KeyFlagsAreHonest`: every old settings file and every catalog. `SettingsAssumption` says that such
  a file is a settings object or unreadable, and a catalog a list of voices. `FlagsInv` speaks about `cfg` and about the
  file that the next start would read: a flag that only the file has is honest, or a crash would break it.
- `LogIsComplete`, `FlightsAreKept` (an action property): any number of flights and entries, any faults. `FlightInv`
  relates the open flight to its file; that no other flight is overwritten rests on `PickedIsFree`: among one more
  names than there are files one is free (pigeonhole), so the search of `pick_flight_path` finds it.

### Transcripts

`TranscriptProofs`. The library's induction theorems cannot be used here, since they take an operator;
`SetInduction` states induction for a set of numbers instead and is proved from the well-foundedness of `<`. Loops and
concatenations are followed through the sequence of their intermediate results (`IsRun`, `IsJoin`), whose
existence is such an induction.

- `NeverImpossible` (`PhysicallyPossible`): every utterance, every verdict of the rules, every circumstance, and every
  table of adjustments with `CheckedTable`. For each call that cannot be (`ImpossibleCalls`) the table must have an entry that
  catches it whatever was said (`Catches`), and none behind it may bring it back (`Harmless`); the loop invariant of `apply_adjustments` is
  that from that entry on the message is `Safe`. `CheckedTable` is a condition on data: `DeIntentRules` and
  `EnIntentRules` assert it of the two shipped tables, and TLC evaluates it there.
- `CorrectReadbacks` (`CorrectIsAccepted`): every registration of at least two words, every runway and pressure of up to four
  figures (`ReadbackAssumption`), every rendering. The comparison searches the canonical form of what is expected in the canonical
  form of the whole transcript, so the canonical form must not depend on what surrounds a part. `WeldedSegment`
  says so of welding words to letters, `CallsignIsCovered` of the spelling of callsigns. It is not so for numbers:
  a digit word is a figure or not by its neighbours, in chunks of four. `ParseAnchored` shows that the
  word which announces the number cuts the run off from what precedes it. The exception of centre runways is needed in
  one place, `NumberBegins`: "24 links" begins with the letters of "24l", and "24 mitte" not with those of "24c".

### Only model-checked

- Liveness, since fairness and `ENABLED` are outside the prover: `PushToTalkReturns`, `PhaseWins`,
  `AnsweredEventually`, `GoAroundRepeats`, `EveryTargetCalled`, `ChangeIsTold`, `PhaseSettles`.
- What the violated runs show.

## 5. Not modelled

Wording (phraseology, templates, hints, ATIS text), the formats of manifests, catalogs, airspace and log files,
polygon and distance arithmetic in floating point, resampling and audio levels, inference libraries, the
building of HTTP requests, and drawing. They are inputs, results or output of the models. The exception
barrier of `flight_loop_cb` is not modelled: an exception would drop the rest of the drained queue. Reads of
`cfg` from the loader's and the device's threads without a lock (`loader.cpp:846`, `settings.cpp:55`) are races whose
outcome the models do not follow. `PROJECT.json` lists every part with its status.

## 6. Plan

Done: session, state machine with its flows, dialogue, backends, models, surroundings, peripherals, and
theorems about each but the runway watch and the ATIS letter. Next:

1. Composition: `AtcDialogue` as the engine of `AtcSession`, in place of the abstract `atc`. Their common promise is
   proved (`UnheardReply`); that one transmission at a time reaches the dialogue is still an assumption of the one that the
   other proves.
2. The loader's rows and its one run at a time; the types of `TrafficPicture`, `RunwayWatch` and `AtisLetter` as theorems.
3. The initial-call check on the vocabulary of `IntentParser`.
4. The English profile as tables, against `GuardedProfile`.
