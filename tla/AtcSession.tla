----------------------------- MODULE AtcSession -----------------------------
(***************************************************************************)
(* The push-to-talk session of the plugin: src/src/atc/atc_session.cpp,    *)
(* driven once per frame by flight_loop_cb (src/src/main.cpp) and fed by   *)
(* the callback queue of the backend manager                               *)
(* (src/src/backends/manager.cpp).                                         *)
(*                                                                         *)
(* One main thread runs everything in this module except WorkerDone and    *)
(* PlaybackDone.  "pc" is its program counter inside a frame:              *)
(*   "events"  between two flight-loop calls: X-Plane delivers PTT         *)
(*             commands, UI clicks, plugin messages;                       *)
(*   "drain"   drain_callback_queue() runs the swapped-out callbacks;      *)
(*   "retry", "correct", "poll", "abort", "atis"                           *)
(*             the sections of atc_session::update() still to run, in this *)
(*             order, after FinishPlayback has run the first one.          *)
(*                                                                         *)
(* Time is counted in frames: every timer constant below is a number of    *)
(* frames (the code counts 1/60 s per frame).  The ATC state machine is    *)
(* abstracted to [gen, val]: val stands for every field of g_state that a  *)
(* snapshot restores, gen for its generation counter.                      *)
(***************************************************************************)
EXTENDS Integers, Sequences, FiniteSets

CONSTANTS
    Slots,              \* bound: worker threads alive at the same time
    NoJob,              \* a slot without a worker
    AtcVals,            \* abstract contents of g_state
    Radios,             \* radio settings the pilot uses, see RadioSettings
    ReadyConfigs,       \* sets of backends that can be loaded together
    EnvBudget,          \* bound: transmissions, state-machine mutations,
                        \* unsolicited calls and plugin toggles per behaviour
    kMaxTtsTries,       \* kDialogMaxTtsTries and kAtisMaxTtsTries
    kDialogRetryDelay,  \* frames between two tries of the same reply
    kAtisCooldown, kAtisRetryDelay, kAtisTuneDelay,
    RetuneInFlight,     \* may the pilot retune while ATIS is synthesised?
    ToggleInFlight      \* may the plugin be disabled with work outstanding?

Stages == {"stt", "lm", "tts"}

RadioSettings == [powered : BOOLEAN, tuned : SUBSET {1, 2}, active : {1, 2}]

TtsKinds == {"guarded", "plain", "atis"}

JobKinds == {"stt", "lm"} \cup TtsKinds

\* A job handed to a worker; "snap" is the pre_snap an LM job's closure holds.
Jobs == [kind : JobKinds, snap : AtcVals]

Results == {"ok", "fail", "blocked"}

ASSUME SessionAssumption ==
    /\ NoJob \notin Jobs
    /\ AtcVals # {}
    /\ Radios \subseteq RadioSettings /\ Radios # {}
    /\ ReadyConfigs \subseteq SUBSET Stages /\ ReadyConfigs # {}
    /\ EnvBudget \in Nat
    /\ kMaxTtsTries \in Nat \ {0}
    /\ kDialogRetryDelay \in Nat \ {0}
    /\ kAtisCooldown \in Nat \ {0}
    /\ kAtisRetryDelay \in Nat \ {0}
    /\ kAtisTuneDelay \in Nat
    /\ RetuneInFlight \in BOOLEAN /\ ToggleInFlight \in BOOLEAN

VARIABLES
    \* the world outside the session
    enabled,              \* XPluginEnable / XPluginDisable
    key,                  \* the PTT key is held
    radio,                \* power, COMs on the ATIS frequency, active COM
    ready,                \* registered backends
    budget,
    \* main thread and manager
    pc, draining, workers, callbacks,
    \* audio_player and audio_recorder
    audio, recording,
    \* atc_session statics
    state, tts_pending,
    atis_playing, atis_active_com, atis_cooldown, atis_tuned_timer,
    atis_tts_failures,
    dialog_tts_failures, dialog_retry_timer, tts_network_error, tts_blocked,
    req, last_transcript, notice,
    \* atc_state_machine::g_state
    atc,
    \* history: what the properties compare with
    hist

world == <<enabled, key, radio, ready>>
manager == <<workers, callbacks>>
atis == <<atis_playing, atis_active_com, atis_cooldown, atis_tuned_timer,
          atis_tts_failures>>
dialog == <<dialog_tts_failures, dialog_retry_timer, tts_network_error,
            tts_blocked, req, notice>>
vars == <<enabled, key, radio, ready, budget, pc, draining, workers, callbacks,
          audio, recording, state, tts_pending, atis_playing,
          atis_active_com, atis_cooldown, atis_tuned_timer,
          atis_tts_failures, dialog_tts_failures, dialog_retry_timer,
          tts_network_error, tts_blocked, req, last_transcript, notice, atc,
          hist>>

-----------------------------------------------------------------------------
(* State.                                                                  *)

PTTState == {"IDLE", "RECORDING", "PROCESSING", "PLAYING"}

UpdateSteps == {"retry", "correct", "poll", "abort", "atis"}

Callbacks == [kind : JobKinds, snap : AtcVals, result : Results]

\* audio_player: what the single channel plays ("none": is_playing_ false).
Sounds == {"none", "click", "dialog", "atis", "squelch"}

\* last_guarded_req_
Requests == [valid : BOOLEAN, pre_snap : AtcVals, expected_gen : Nat]

\* The last System row of a give-up: which of its two texts the pilot reads.
Notices == {"none", "restored", "stale"}

\* foreign: somebody else mutated g_state since the pending transmission took
\* its snapshot; intervened: somebody did since the reply in req was produced.
Histories == [foreign : BOOLEAN, intervened : BOOLEAN]

TypeOK ==
    /\ enabled \in BOOLEAN /\ key \in BOOLEAN
    /\ radio \in RadioSettings /\ ready \in SUBSET Stages
    /\ budget \in Nat
    /\ pc \in {"events", "drain"} \cup UpdateSteps
    /\ draining \in Nat
    /\ workers \in [Slots -> Jobs \cup {NoJob}]
    /\ callbacks \in Seq(Callbacks)
    /\ audio \in Sounds /\ recording \in BOOLEAN
    /\ state \in PTTState /\ tts_pending \in BOOLEAN
    /\ atis_playing \in BOOLEAN /\ atis_active_com \in {0, 1, 2}
    /\ atis_cooldown \in Nat /\ atis_tuned_timer \in 0..kAtisTuneDelay
    /\ atis_tts_failures \in 0..(kMaxTtsTries - 1)
    /\ dialog_tts_failures \in 0..(kMaxTtsTries - 1)
    /\ dialog_retry_timer \in 0..kDialogRetryDelay
    /\ tts_network_error \in BOOLEAN /\ tts_blocked \in BOOLEAN
    /\ req \in Requests /\ last_transcript \in BOOLEAN /\ notice \in Notices
    /\ atc \in [gen : Nat, val : AtcVals]
    /\ hist \in Histories

-----------------------------------------------------------------------------
(* atis_generator::which_com_tuned_to_atis, gated by radio power.          *)

which_com_tuned_to_atis(r) ==
    IF r.tuned = {1, 2} THEN r.active
    ELSE IF 1 \in r.tuned THEN 1
    ELSE IF 2 \in r.tuned THEN 2 ELSE 0

atis_com(r) == IF r.powered THEN which_com_tuned_to_atis(r) ELSE 0

-----------------------------------------------------------------------------
(* backends::manager: a job goes to a worker when its backend is           *)
(* registered; otherwise a failure callback is queued at once.  "q" is the *)
(* queue the caller leaves behind.                                         *)

Job(kind, snap) == [kind |-> kind, snap |-> snap]

FailedCallback(job) ==
    [kind |-> job.kind, snap |-> job.snap, result |-> "fail"]

\* spawn_worker (external bound: a free slot)
spawn_worker(job, q) ==
    \E s \in Slots :
        /\ workers[s] = NoJob
        /\ workers' = [workers EXCEPT ![s] = job]
        /\ callbacks' = q

\* Bug variant: no failure callback when the backend is not loaded.
SubmitSilently(stage, job, q) ==
    \/ stage \in ready /\ spawn_worker(job, q)
    \/ stage \notin ready /\ callbacks' = q /\ UNCHANGED workers

Submit(stage, job, q) ==
    \/ stage \in ready /\ spawn_worker(job, q)
    \/ stage \notin ready /\ callbacks' = Append(q, FailedCallback(job))
                          /\ UNCHANGED workers

transcribe_async(q) == Submit("stt", Job("stt", atc.val), q)

synthesize_async(kind, q) == Submit("tts", Job(kind, atc.val), q)

\* audio_player::play_pcm16 stops the channel and starts the new sound; the
\* SDK may refuse it.
play(sound) == audio' \in {sound, "none"}

\* Any semantic mutation of g_state bumps gen.
Mutated(v) == [gen |-> atc.gen + 1, val |-> v]

\* A mutation no transmission asked for.
ForeignMutation ==
    /\ \E v \in AtcVals : atc' = Mutated(v)
    /\ hist' = [foreign |-> TRUE, intervened |-> TRUE]

-----------------------------------------------------------------------------
(* The reply path: dispatch_pilot_transcript, engine, guarded TTS.         *)

\* dispatch_guarded_tts(): (re-)send the stored reply.
dispatch_guarded_tts(q) ==
    /\ state' = "PLAYING"
    /\ tts_pending' = TRUE
    /\ synthesize_async("guarded", q)

\* What process() leaves of the state machine: it changes it or leaves it alone.
Processed == {atc} \cup {Mutated(v) : v \in AtcVals}

\* Bug variant: an empty reply forgets to leave PROCESSING.
EngineSilentStays(after, cleared, q) ==
    /\ callbacks' = q
    /\ hist' = [hist EXCEPT !.intervened = @ \/ after # atc]
    /\ tts_network_error' = (tts_network_error /\ ~cleared)
    /\ tts_blocked' = (tts_blocked /\ ~cleared)
    /\ UNCHANGED <<state, workers, tts_pending, req, dialog_tts_failures,
                   dialog_retry_timer>>

\* The done callback of engine::process_transcript with an empty reply ends the
\* exchange.  "cleared": it runs inside dispatch_pilot_transcript, which has
\* just cleared the error flags.
EngineSilent(after, cleared, q) ==
    /\ state' = "IDLE"
    /\ callbacks' = q
    /\ hist' = [hist EXCEPT !.intervened = @ \/ after # atc]
    /\ tts_network_error' = (tts_network_error /\ ~cleared)
    /\ tts_blocked' = (tts_blocked /\ ~cleared)
    /\ UNCHANGED <<workers, tts_pending, req, dialog_tts_failures,
                   dialog_retry_timer>>

\* The done callback with a reply: speak_response_guarded().
speak_response_guarded(after, snap, cleared, q) ==
    /\ req' = [valid |-> TRUE, pre_snap |-> snap, expected_gen |-> after.gen]
    /\ hist' = [foreign |-> hist.foreign /\ ~cleared, intervened |-> FALSE]
    /\ dialog_tts_failures' = 0 /\ dialog_retry_timer' = 0
    /\ tts_network_error' = FALSE /\ tts_blocked' = FALSE
    /\ dispatch_guarded_tts(q)

EngineReply(snap, cleared, q) ==
    \E after \in Processed :
        /\ atc' = after
        /\ \/ EngineSilent(after, cleared, q)
           \/ speak_response_guarded(after, snap, cleared, q)
        /\ UNCHANGED notice

\* The engine asks the LM, latching a declared flight intent first; "s" is the
\* PTT state the caller of dispatch_pilot_transcript set.
AskLm(s, q) ==
    /\ "lm" \in ready
    /\ \E after \in Processed :
        /\ atc' = after
        /\ hist' = [foreign |-> FALSE,
                    intervened |-> hist.intervened \/ after # atc]
    /\ spawn_worker(Job("lm", atc.val), q)
    /\ state' = s
    /\ tts_network_error' = FALSE /\ tts_blocked' = FALSE
    /\ UNCHANGED <<tts_pending, req, dialog_tts_failures, dialog_retry_timer,
                   notice>>

\* The snapshot is taken here; the engine then answers at once (rule path) or
\* asks the LM.
dispatch_pilot_transcript(s, q) ==
    /\ last_transcript' = TRUE
    /\ EngineReply(atc.val, TRUE, q) \/ AskLm(s, q)

\* Bug variant: the rollback does not look at the generation.
restore_snapshot_always ==
    /\ atc' = Mutated(req.pre_snap)
    /\ notice' = "restored"
    /\ hist' = [hist EXCEPT !.intervened = TRUE]

\* The revert guard of the failed reply: roll back iff nothing else mutated
\* the state machine since the reply was produced.
restore_snapshot_if_gen ==
    IF atc.gen = req.expected_gen
    THEN /\ atc' = Mutated(req.pre_snap)
         /\ notice' = "restored"
         /\ hist' = [hist EXCEPT !.intervened = TRUE]
    ELSE /\ notice' = "stale"
         /\ UNCHANGED <<atc, hist>>

GuardedGiveUp(blocked) ==
    /\ play("squelch")
    /\ restore_snapshot_if_gen
    /\ tts_blocked' = (tts_blocked \/ blocked)
    /\ tts_network_error' = (tts_network_error \/ ~blocked)
    /\ dialog_tts_failures' = 0 /\ dialog_retry_timer' = 0
    /\ req' = [req EXCEPT !.valid = FALSE]
    /\ state' = "IDLE"

\* ++dialog_tts_failures_ < kDialogMaxTtsTries
TriesLeft == dialog_tts_failures + 1 < kMaxTtsTries

\* Callback of dispatch_guarded_tts.
GuardedCallback(result) ==
    /\ tts_pending' = FALSE
    /\ \/ /\ result = "ok"
          /\ play("dialog")
          /\ dialog_tts_failures' = 0
          /\ tts_network_error' = FALSE /\ tts_blocked' = FALSE
          /\ req' = [req EXCEPT !.valid = FALSE]
          /\ UNCHANGED <<state, dialog_retry_timer, notice, atc, hist>>
       \/ /\ result = "fail"
          /\ TriesLeft
          /\ dialog_tts_failures' = dialog_tts_failures + 1
          /\ dialog_retry_timer' = kDialogRetryDelay
          /\ UNCHANGED <<audio, state, tts_network_error, tts_blocked, req,
                         notice, atc, hist>>
       \/ /\ result = "fail"
          /\ ~TriesLeft
          /\ GuardedGiveUp(FALSE)
       \/ /\ result = "blocked"
          /\ GuardedGiveUp(TRUE)

\* Callback of speak_response for go-arounds and traffic advisories.
PlainCallback(result) ==
    /\ tts_pending' = FALSE
    /\ \/ result = "ok" /\ play("dialog") /\ UNCHANGED state
       \/ result # "ok" /\ state' = "IDLE" /\ UNCHANGED audio

\* Callback of speak_response for an ATIS broadcast.
AtisCallback(result) ==
    /\ tts_pending' = FALSE
    /\ \/ /\ result = "ok"
          /\ atis_tts_failures' = 0
          /\ play("atis")
          /\ UNCHANGED <<state, atis_playing, atis_cooldown>>
       \/ /\ result # "ok"
          /\ state' = "IDLE"
          /\ atis_playing' = FALSE
          /\ \/ /\ atis_tts_failures + 1 < kMaxTtsTries
                /\ atis_tts_failures' = atis_tts_failures + 1
                /\ atis_cooldown' = kAtisRetryDelay
                /\ UNCHANGED audio
             \/ /\ atis_tts_failures + 1 >= kMaxTtsTries
                /\ atis_tts_failures' = 0
                /\ atis_cooldown' = kAtisCooldown
                /\ play("squelch")

-----------------------------------------------------------------------------
(* Events between two frames.                                              *)

\* The bound on what the pilot and the simulator do.
Spend == budget > 0 /\ budget' = budget - 1

Between == pc = "events" /\ enabled

\* on_ptt_pressed(): the key goes down; the session records only when idle,
\* powered and fully loaded, and the recorder may fail to start.
on_ptt_pressed ==
    /\ Between /\ ~key /\ Spend
    /\ key' = TRUE
    /\ \/ /\ state = "IDLE" /\ radio.powered /\ ready = Stages
          /\ state' = "RECORDING"
          /\ play("click")
          /\ recording' \in BOOLEAN
       \/ /\ ~(state = "IDLE" /\ radio.powered /\ ready = Stages)
          /\ UNCHANGED <<state, audio, recording>>
    /\ UNCHANGED <<enabled, radio, ready, pc, draining, manager, tts_pending,
                   atis, dialog, last_transcript, atc, hist>>

\* on_ptt_released(): ignored unless RECORDING; a short (or empty) recording
\* is discarded, any other goes to the STT backend.
on_ptt_released ==
    /\ Between /\ key
    /\ key' = FALSE
    /\ \/ state # "RECORDING" /\ UNCHANGED <<state, recording, manager>>
       \/ /\ state = "RECORDING"
          /\ recording' = FALSE
          /\ \/ state' = "IDLE" /\ UNCHANGED manager
             \/ recording /\ state' = "PROCESSING" /\ transcribe_async(callbacks)
    /\ UNCHANGED <<enabled, radio, ready, budget, pc, draining, audio,
                   tts_pending, atis, dialog, last_transcript, atc, hist>>

\* submit_text(): the typed transmission of the debug tab.
submit_text ==
    /\ Between /\ Spend
    /\ state = "IDLE" /\ {"lm", "tts"} \subseteq ready
    /\ dispatch_pilot_transcript("PROCESSING", callbacks)
    /\ UNCHANGED <<world, pc, draining, audio, recording, atis>>

\* retry_last_transmission(): the button shown after a network give-up.
retry_last_transmission ==
    /\ Between /\ Spend
    /\ state = "IDLE" /\ tts_network_error /\ last_transcript
    /\ "tts" \in ready
    /\ dispatch_pilot_transcript("PROCESSING", callbacks)
    /\ UNCHANGED <<world, pc, draining, audio, recording, atis>>

\* An ATIS broadcast whose synthesis has not come back yet.
AtisInFlight == atis_playing /\ tts_pending

\* The pilot turns a knob: power, a COM frequency or the active COM.
Retune ==
    /\ Between
    /\ radio' \in Radios
    /\ IF AtisInFlight /\ atis_com(radio') # atis_active_com
       THEN RetuneInFlight /\ Spend
       ELSE UNCHANGED budget
    /\ UNCHANGED <<enabled, key, ready, pc, draining, manager, audio,
                   recording, state, tts_pending, atis, dialog,
                   last_transcript, atc, hist>>

\* The loader registers or unregisters backends.
LoaderRegisters ==
    /\ Between
    /\ ready' \in ReadyConfigs
    /\ UNCHANGED <<enabled, key, radio, budget, pc, draining, manager, audio,
                   recording, state, tts_pending, atis, dialog,
                   last_transcript, atc, hist>>

\* Bug variant: a fresh flight also drops the reply that is being synthesised.
FreshFlightDropsReply ==
    /\ Between /\ Spend
    /\ atis_cooldown' = 0 /\ atis_tuned_timer' = 0 /\ atis_tts_failures' = 0
    /\ req' = [req EXCEPT !.valid = FALSE]
    /\ UNCHANGED <<world, pc, draining, manager, audio, recording, state,
                   tts_pending, atis_playing, atis_active_com,
                   dialog_tts_failures, dialog_retry_timer,
                   tts_network_error, tts_blocked, notice, last_transcript,
                   atc, hist>>

\* XPLM_MSG_AIRPORT_LOADED / PLANE_LOADED: reset_atis_cooldown() and
\* begin_fresh_flight(), which resets the state machine or does nothing.
FreshFlight ==
    /\ Between /\ Spend
    /\ atis_cooldown' = 0 /\ atis_tuned_timer' = 0 /\ atis_tts_failures' = 0
    /\ \/ UNCHANGED <<atc, hist>>
       \/ ForeignMutation
    /\ UNCHANGED <<world, pc, draining, manager, audio, recording, state,
                   tts_pending, atis_playing, atis_active_com, dialog,
                   last_transcript>>

NothingOutstanding ==
    /\ state = "IDLE" /\ callbacks = <<>> /\ ~recording
    /\ \A s \in Slots : workers[s] = NoJob

\* XPluginDisable: atc_session::stop(); ptt_input::stop() unregisters the
\* command handler, the recorder and the jobs already submitted stay as they
\* are, and loader::stop() unregisters the backends.
XPluginDisable ==
    /\ Between /\ Spend
    /\ ToggleInFlight \/ NothingOutstanding
    /\ enabled' = FALSE
    /\ state' = "IDLE" /\ tts_pending' = FALSE
    /\ atis_tts_failures' = 0
    /\ dialog_tts_failures' = 0 /\ dialog_retry_timer' = 0
    /\ tts_network_error' = FALSE /\ tts_blocked' = FALSE
    /\ req' = [req EXCEPT !.valid = FALSE]
    /\ ready' = {}
    /\ UNCHANGED <<key, radio, pc, draining, manager, audio, recording,
                   atis_playing, atis_active_com, atis_cooldown,
                   atis_tuned_timer, notice, last_transcript, atc, hist>>

\* XPluginEnable: atc_session::init(); the loader starts afterwards.
XPluginEnable ==
    /\ pc = "events" /\ ~enabled
    /\ enabled' = TRUE
    /\ key' \in BOOLEAN
    /\ state' = "IDLE" /\ tts_pending' = FALSE
    /\ atis_playing' = FALSE /\ atis_active_com' = 0
    /\ atis_cooldown' = 0 /\ atis_tuned_timer' = 0 /\ atis_tts_failures' = 0
    /\ dialog_tts_failures' = 0 /\ dialog_retry_timer' = 0
    /\ tts_network_error' = FALSE /\ tts_blocked' = FALSE
    /\ req' = [req EXCEPT !.valid = FALSE]
    /\ last_transcript' = FALSE
    /\ UNCHANGED <<radio, ready, budget, pc, draining, manager, audio,
                   recording, notice, atc, hist>>

\* The "Disregard" button, and every other mutation of the state machine that
\* no transmission asks for.
Disregard ==
    /\ Between /\ Spend
    /\ ForeignMutation
    /\ UNCHANGED <<world, pc, draining, manager, audio, recording, state,
                   tts_pending, atis, dialog, last_transcript>>

-----------------------------------------------------------------------------
(* Other threads.  They touch only the tail of the callback queue, which   *)
(* the main thread reads when a frame begins, and the playing flag, which  *)
(* it reads once per frame: a step in mid-frame has the same effect as one *)
(* between two frames, so they are taken there.                            *)

\* A worker leaves the model with some result and enqueues its callback.
\* Only TTS knows a content block.
WorkerDone(s) ==
    /\ pc = "events"
    /\ workers[s] # NoJob
    /\ \E r \in Results :
        /\ r = "blocked" => workers[s].kind \in TtsKinds
        /\ callbacks' = Append(callbacks, [kind |-> workers[s].kind,
                                           snap |-> workers[s].snap,
                                           result |-> r])
    /\ workers' = [workers EXCEPT ![s] = NoJob]
    /\ UNCHANGED <<world, budget, pc, draining, audio, recording, state,
                   tts_pending, atis, dialog, last_transcript, atc, hist>>

\* FMOD's completion callback (pcm_complete_cb).
PlaybackDone ==
    /\ pc = "events"
    /\ audio # "none"
    /\ audio' = "none"
    /\ UNCHANGED <<world, budget, pc, draining, manager, recording, state,
                   tts_pending, atis, dialog, last_transcript, atc, hist>>

-----------------------------------------------------------------------------
(* One frame: flight_loop_cb.                                              *)

\* flight_phase::update() may set was_airborne; drain_callback_queue() swaps
\* the queue: it runs the callbacks present now, not the ones they enqueue.
BeginFrame ==
    /\ Between
    /\ pc' = "drain"
    /\ draining' = Len(callbacks)
    /\ \/ UNCHANGED <<atc, hist, budget>>
       \/ Spend /\ ForeignMutation
    /\ UNCHANGED <<world, manager, audio, recording, state, tts_pending, atis,
                   dialog, last_transcript>>

\* What every callback step leaves alone, and the queue it leaves behind.
Pop(kind) ==
    /\ pc = "drain" /\ draining > 0
    /\ Head(callbacks).kind = kind
    /\ draining' = draining - 1
    /\ UNCHANGED <<world, budget, pc, recording>>

\* Callback of transcribe_async.
SttCallback ==
    /\ Pop("stt")
    /\ \/ /\ Head(callbacks).result = "ok"
          /\ dispatch_pilot_transcript(state, Tail(callbacks))
       \/ /\ Head(callbacks).result # "ok"
          /\ state' = "IDLE"
          /\ callbacks' = Tail(callbacks)
          /\ UNCHANGED <<workers, tts_pending, dialog, last_transcript, atc,
                         hist>>
    /\ UNCHANGED <<audio, atis>>

\* Callback of classify_with_repair_async: whatever the LM said, the engine
\* answers with the snapshot taken before it was asked.
LmCallback ==
    /\ Pop("lm")
    /\ EngineReply(Head(callbacks).snap, FALSE, Tail(callbacks))
    /\ UNCHANGED <<audio, atis, last_transcript>>

GuardedTtsCallback ==
    /\ Pop("guarded")
    /\ GuardedCallback(Head(callbacks).result)
    /\ callbacks' = Tail(callbacks)
    /\ UNCHANGED <<workers, atis, last_transcript>>

PlainTtsCallback ==
    /\ Pop("plain")
    /\ PlainCallback(Head(callbacks).result)
    /\ callbacks' = Tail(callbacks)
    /\ UNCHANGED <<workers, atis, dialog, last_transcript, atc, hist>>

AtisTtsCallback ==
    /\ Pop("atis")
    /\ AtisCallback(Head(callbacks).result)
    /\ callbacks' = Tail(callbacks)
    /\ UNCHANGED <<workers, atis_active_com, atis_tuned_timer, dialog,
                   last_transcript, atc, hist>>

\* Bug variants: the two holds update() needs, each left out.
OverWhilePending ==
    state = "PLAYING" /\ audio = "none" /\ dialog_retry_timer = 0
OverBetweenTries == state = "PLAYING" /\ ~tts_pending /\ audio = "none"

\* Nothing is pending, audible or scheduled.
PlaybackOver ==
    /\ state = "PLAYING" /\ ~tts_pending /\ audio = "none"
    /\ dialog_retry_timer = 0

\* update(), first section: leave PLAYING, count the ATIS cooldown down.
FinishPlayback ==
    /\ pc = "drain" /\ draining = 0
    /\ pc' = "retry"
    /\ IF PlaybackOver
       THEN state' = "IDLE" /\ atis_playing' = FALSE
       ELSE UNCHANGED <<state, atis_playing>>
    /\ atis_cooldown' = IF atis_cooldown > 0 THEN atis_cooldown - 1 ELSE 0
    /\ UNCHANGED <<world, budget, draining, manager, audio, recording,
                   tts_pending, atis_active_com, atis_tuned_timer,
                   atis_tts_failures, dialog, last_transcript, atc, hist>>

\* update(): the dialog retry timer.
DialogRetry ==
    /\ pc = "retry"
    /\ pc' = "correct"
    /\ dialog_retry_timer' = IF dialog_retry_timer > 0
                             THEN dialog_retry_timer - 1 ELSE 0
    /\ IF dialog_retry_timer = 1 /\ req.valid
       THEN dispatch_guarded_tts(callbacks)
       ELSE UNCHANGED <<state, tts_pending, manager>>
    /\ UNCHANGED <<world, budget, draining, audio, recording, atis,
                   dialog_tts_failures, tts_network_error, tts_blocked, req,
                   notice, last_transcript, atc, hist>>

\* update(): check_auto_correction() and check_airport_change().
AutoCorrect ==
    /\ pc = "correct"
    /\ pc' = "poll"
    /\ \/ UNCHANGED <<atc, hist, budget>>
       \/ Spend /\ ForeignMutation
    /\ UNCHANGED <<world, draining, manager, audio, recording, state,
                   tts_pending, atis, dialog, last_transcript>>

\* update(): go-around and traffic advisory polls speak only while idle.
PollTraffic ==
    /\ pc = "poll"
    /\ pc' = "abort"
    /\ \/ /\ state = "IDLE" /\ "tts" \in ready /\ Spend
          /\ state' = "PLAYING" /\ tts_pending' = TRUE
          /\ synthesize_async("plain", callbacks)
       \/ UNCHANGED <<budget, state, tts_pending, manager>>
    /\ UNCHANGED <<world, draining, audio, recording, atis, dialog,
                   last_transcript, atc, hist>>

\* Bug variant: the broadcast is forgotten, its sound goes on.
AbortBroadcastMuted ==
    atis_playing' = FALSE /\ state' = "IDLE" /\ UNCHANGED audio

AbortBroadcast == audio' = "none" /\ atis_playing' = FALSE /\ state' = "IDLE"

\* update(): the tuning timer, and the abort of a broadcast whose COM is no
\* longer the one which_com_tuned_to_atis() reports.
AtisAbort ==
    /\ pc = "abort"
    /\ pc' = "atis"
    /\ IF atis_com(radio) # 0
       THEN /\ atis_tuned_timer' = IF atis_tuned_timer < kAtisTuneDelay
                                   THEN atis_tuned_timer + 1
                                   ELSE atis_tuned_timer
            /\ UNCHANGED atis_tts_failures
       ELSE atis_tuned_timer' = 0 /\ atis_tts_failures' = 0
    /\ IF atis_playing /\ atis_com(radio) # atis_active_com
       THEN AbortBroadcast
       ELSE UNCHANGED <<audio, atis_playing, state>>
    /\ UNCHANGED <<world, budget, draining, manager, recording, tts_pending,
                   atis_active_com, atis_cooldown, dialog, last_transcript,
                   atc, hist>>

\* Bug variant: the trigger does not ask for an idle session.
AtisDueAnytime ==
    /\ atis_cooldown = 0
    /\ atis_com(radio) # 0 /\ atis_tuned_timer >= kAtisTuneDelay
    /\ "tts" \in ready

AtisDue ==
    /\ state = "IDLE" /\ atis_cooldown = 0
    /\ atis_com(radio) # 0 /\ atis_tuned_timer >= kAtisTuneDelay
    /\ "tts" \in ready

\* update(): the ATIS trigger.
AtisTrigger ==
    /\ pc = "atis"
    /\ pc' = "events"
    /\ \/ /\ AtisDue
          /\ atis_playing' = TRUE
          /\ atis_active_com' = atis_com(radio)
          /\ atis_cooldown' = kAtisCooldown
          /\ state' = "PLAYING" /\ tts_pending' = TRUE
          /\ synthesize_async("atis", callbacks)
       \/ /\ ~AtisDue
          /\ UNCHANGED <<atis_playing, atis_active_com, atis_cooldown, state,
                         tts_pending, manager>>
    /\ UNCHANGED <<world, budget, draining, audio, recording,
                   atis_tuned_timer, atis_tts_failures, dialog,
                   last_transcript, atc, hist>>

-----------------------------------------------------------------------------

Init ==
    /\ enabled = TRUE /\ key = FALSE
    /\ radio \in Radios /\ ready \in ReadyConfigs
    /\ budget = EnvBudget
    /\ pc = "events" /\ draining = 0
    /\ workers = [s \in Slots |-> NoJob] /\ callbacks = <<>>
    /\ audio = "none" /\ recording = FALSE
    /\ state = "IDLE" /\ tts_pending = FALSE
    /\ atis_playing = FALSE /\ atis_active_com = 0 /\ atis_cooldown = 0
    /\ atis_tuned_timer = 0 /\ atis_tts_failures = 0
    /\ dialog_tts_failures = 0 /\ dialog_retry_timer = 0
    /\ tts_network_error = FALSE /\ tts_blocked = FALSE
    /\ last_transcript = FALSE /\ notice = "none"
    /\ atc \in [gen : {0}, val : AtcVals]
    /\ req = [valid |-> FALSE, pre_snap |-> atc.val, expected_gen |-> 0]
    /\ hist = [foreign |-> FALSE, intervened |-> FALSE]

Events ==
    \/ on_ptt_pressed \/ on_ptt_released \/ submit_text
    \/ retry_last_transmission \/ Retune \/ LoaderRegisters
    \/ FreshFlight \/ Disregard \/ XPluginDisable \/ XPluginEnable

Frame ==
    \/ BeginFrame
    \/ SttCallback \/ LmCallback \/ GuardedTtsCallback \/ PlainTtsCallback
    \/ AtisTtsCallback
    \/ FinishPlayback \/ DialogRetry \/ AutoCorrect \/ PollTraffic
    \/ AtisAbort \/ AtisTrigger

Next ==
    \/ Events
    \/ Frame
    \/ \E s \in Slots : WorkerDone(s)
    \/ PlaybackDone

Spec == Init /\ [][Next]_vars

\* X-Plane calls the flight loop every frame, inference and HTTP calls end
\* (curl has a time limit), and a sound that started ends.  Strong fairness,
\* because the last two are taken between frames only.
Fairness ==
    /\ WF_vars(Frame)
    /\ \A s \in Slots : SF_vars(WorkerDone(s))
    /\ SF_vars(PlaybackDone)

FairSpec == Spec /\ Fairness

-----------------------------------------------------------------------------
(* Properties of every behaviour.                                          *)

\* Some job of a kind in K is with a worker or waits in the callback queue.
Outstanding(K) ==
    \/ \E s \in Slots : workers[s] # NoJob /\ workers[s].kind \in K
    \/ \E i \in 1..Len(callbacks) : callbacks[i].kind \in K

\* The session never waits for a callback nobody will deliver: while it is
\* PROCESSING an STT or LM job is outstanding, while tts_pending_ holds a TTS
\* job is.  Otherwise push-to-talk would stay blocked for good.
NeverWedged ==
    /\ state = "PROCESSING" => Outstanding({"stt", "lm"})
    /\ tts_pending => Outstanding(TtsKinds)

\* A reply given up is rolled back exactly when nothing else mutated the
\* state machine since it was produced, and the text of the System row says
\* which of the two happened (dispatch_guarded_tts, restore_snapshot_if_gen).
GivesUp == req.valid /\ ~req'.valid /\ (tts_network_error' \/ tts_blocked')

RollbackExact ==
    [][GivesUp => \/ /\ notice' = "restored" /\ ~hist.intervened
                     /\ atc'.val = req.pre_snap /\ atc'.gen > atc.gen
                  \/ notice' = "stale" /\ hist.intervened /\ atc' = atc]_vars

\* Push-to-talk always comes back: a session that is transcribing, thinking
\* or speaking is idle later on, between two frames or when update() reaches
\* the ATIS trigger, which alone may take the radio again in that frame.
PushToTalkReturns ==
    state \in {"PROCESSING", "PLAYING"} ~>
        (state = "IDLE" /\ pc \in {"events", "atis"})

-----------------------------------------------------------------------------
(* Properties of a session that is not interrupted while work is           *)
(* outstanding: the pilot does not retune during ATIS synthesis and the    *)
(* plugin is not disabled in mid-exchange.                                 *)

Quiet == ~RetuneInFlight /\ ~ToggleInFlight

\* The pipeline is sequential: never two jobs outstanding, and tts_pending_
\* and PROCESSING say exactly which kind is.
Sequential ==
    /\ \A s, t \in Slots : workers[s] # NoJob /\ workers[t] # NoJob => s = t
    /\ Len(callbacks) <= 1
    /\ callbacks # <<>> => \A s \in Slots : workers[s] = NoJob
    /\ tts_pending <=> Outstanding(TtsKinds)
    /\ state = "PROCESSING" <=> Outstanding({"stt", "lm"})

Voice == audio \in {"dialog", "atis"}

\* Half duplex: the microphone is open only while the key is held and the
\* session records, a voice is on the air only while it is PLAYING, and an
\* ATIS voice only during an ATIS broadcast.
HalfDuplex ==
    /\ recording => key /\ state = "RECORDING"
    /\ Voice => state = "PLAYING"
    /\ audio = "atis" => atis_playing

\* Between two tries of a reply the session holds PLAYING, keeps the request
\* and has tries left, so push-to-talk stays blocked and nothing overtakes.
RetryHolds ==
    dialog_retry_timer > 0 =>
        /\ state = "PLAYING" /\ ~tts_pending /\ ~atis_playing
        /\ req.valid /\ dialog_tts_failures > 0

\* A reply the pilot hears is one whose state change still stands: the
\* request is valid while its synthesis is outstanding.
HeardIsKept == Outstanding({"guarded"}) => req.valid

\* The session implements the half-duplex radio.
Radio == INSTANCE HalfDuplexRadio
            WITH phase <- state, mic <- recording, voice <- Voice

ImplementsRadio == Radio!RSpec

\* The snapshots that the questions with the language model carry.
LmSnapshots(w, q) ==
    {w[s].snap : s \in {t \in Slots : w[t] # NoJob /\ w[t].kind = "lm"}}
    \cup {q[i].snap : i \in {j \in 1..Len(q) : q[j].kind = "lm"}}

\* The reply that is being synthesised or waits for its next try, and whether
\* somebody mutated the state machine since it was produced.
Unspoken ==
    IF req.valid THEN {[before |-> req.pre_snap,
                        moved |-> atc.gen # req.expected_gen]} ELSE {}

\* The session keeps the promise of the rollback: whatever frames, buttons and
\* retries happen between the pilot's words and the last failed synthesis,
\* the machine goes back to what it was before the pilot spoke exactly when
\* nobody else touched it since the reply (last_guarded_req_ with its
\* expected generation, restore_snapshot_if_gen).
Promise == INSTANCE UnheardReply
              WITH val <- atc.val, asked <- LmSnapshots(workers, callbacks),
                   reply <- Unspoken

SessionKeepsPromise == Promise!USpec

-----------------------------------------------------------------------------
(* What comments in the code say and an interrupted session does not keep. *)

\* The revert guard undoes "a process()-driven state transition" and nothing
\* else: a mutation "since the snapshot was taken" makes it stale.
RollbackLosesNothing ==
    [][GivesUp /\ notice' = "restored" => ~hist.foreign]_vars

=============================================================================
