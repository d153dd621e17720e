--------------------------- MODULE BackendManager ---------------------------
(***************************************************************************)
(* The inference backends: backends/manager.cpp, which owns one backend    *)
(* per stage and runs every call on a detached worker thread, and the nine *)
(* concrete backends it may hold (whisper.cpp, llama.cpp and Piper, the    *)
(* OpenAI and the Mistral clients).                                        *)
(*                                                                         *)
(* Actors: the main thread (submits requests, drains the callback queue,   *)
(* unregisters backends, stops the manager), the loader thread (registers  *)
(* backends), one worker thread per request.                               *)
(*                                                                         *)
(* A backend instance is named by its provider.  What a provider answers   *)
(* is an arbitrary member of Replies; each concrete backend is the         *)
(* operator that turns that answer into the manager's result.  A call on   *)
(* an instance that was replaced meanwhile may return any of them too.     *)
(***************************************************************************)
EXTENDS Naturals, Sequences, FiniteSets, SequencesExt

CONSTANTS
    Requests,    \* the asynchronous calls the session makes, numbered in order
    Ops,         \* the entry points used, a subset of AllOps
    Providers,   \* {"local", "openai", "mistral"} or a part of it
    Voices,      \* voice ids a role may be given
    DefaultVoice,\* default_voice_for(role) of the registered TTS
    MaxRegs      \* bound: how many instances the loader ever registers

AllOps == {"transcribe", "respond", "repair", "classify", "synthesize"}

ASSUME RequestsAssumption == Requests \subseteq Nat
ASSUME OpsAssumption == Ops \subseteq AllOps
ASSUME VoiceAssumption == DefaultVoice \in Voices
ASSUME RegsAssumption == MaxRegs \in Nat

VARIABLES
    registry,   \* g_stt, g_lm, g_tts: the instance of each stage, or None
    voices,     \* the voices the registered TTS instance has loaded
    regs,       \* how many instances were registered
    job,        \* one record per request: its worker thread and its result
    callbacks,  \* g_callbacks
    local,      \* the deque drain_callback_queue() swapped out, being run
    phase,      \* "up", "stopping" (inside stop()), "stopped"
    forced      \* stop() gave up waiting for its workers

vars == <<registry, voices, regs, job, callbacks, local, phase, forced>>

Stages == {"stt", "lm", "tts"}
None == "none"

Stage(op) == CASE op = "transcribe" -> "stt"
               [] op = "synthesize" -> "tts"
               [] OTHER             -> "lm"

(***************************************************************************)
(* What a backend can meet.  rc is the transfer (or the library call), http *)
(* the status, body what came back: for the language model an intent of the *)
(* request's list, one outside it, "_INVALID", or prose without a JSON     *)
(* object; for speech the container.                                       *)
(***************************************************************************)
LmBodies  == {"listed", "foreign", "_INVALID", "prose"}
TtsBodies == {"wav", "junk", "nodata", "oddformat", "norate",
              "json_wav", "json_pcm", "json_odd", "json_bare"}
Replies(op, provider) ==
    LET good == CASE Stage(op) = "stt" -> {"text", "empty"}
                  [] Stage(op) = "lm"  -> LmBodies \union {"empty"}
                  [] OTHER             -> IF provider = "local" THEN {"wav", "empty"} ELSE TtsBodies
        answered == [rc : {"ok"}, http : {200}, body : good]
        failed   == [rc : {"error"}, http : {0}, body : {"empty"}]
        refused  == [rc : {"ok"}, http : {400, 403, 500}, body : {"error", "policy"}]
    IN  answered \union failed \union (IF provider = "local" THEN {} ELSE refused)

HttpOk(reply) == reply.rc = "ok" /\ reply.http = 200

\* The tail of every cloud call that returns text: "" unless the transfer, the
\* status and the JSON are good.
HttpText(reply) == IF HttpOk(reply) THEN reply.body ELSE "empty"

\* OpenAiStt::transcribe: the "text" field.
OpenAiTranscribe(reply) == HttpText(reply)

\* MistralStt::transcribe: the same, with the context split into tokens.
MistralTranscribe(reply) == HttpText(reply)

\* OpenAiLm::respond and call: choices[0].message.content.
OpenAiRespond(reply) == HttpText(reply)

\* MistralLm::respond and call.
MistralRespond(reply) == HttpText(reply)

\* WhisperStt::transcribe: the joined segments, "" when whisper_full fails.
WhisperTranscribe(reply) == IF reply.rc = "ok" THEN reply.body ELSE "empty"

\* LlamaLm::respond: "" when the template, the tokenizer or a prompt chunk
\* fails, else the sampled text.
LlamaRespond(reply) == IF reply.rc = "ok" THEN reply.body ELSE "empty"

\* wav_to_pcm_int16: samples only from a RIFF/WAVE container whose data chunk
\* follows a fmt chunk of a supported format; the rate comes from the header.
wav_to_pcm_int16(body) ==
    [pcm  |-> body \in {"wav", "norate"},
     rate |-> IF body = "wav" THEN 1 ELSE 0]

Silent(fail) == [pcm |-> FALSE, rate |-> 0, fail |-> fail]

\* OpenAiTts::synthesize: Transient unless the status is 400 and the body
\* names the content policy; the answer is a WAV container.
OpenAiSynthesize(voice, reply) ==
    LET w == wav_to_pcm_int16(reply.body)
    IN  IF voice \notin Voices THEN Silent("Transient")
        ELSE IF ~HttpOk(reply)
        THEN Silent(IF reply.rc = "ok" /\ reply.http = 400 /\ reply.body = "policy"
                    THEN "ContentBlocked" ELSE "Transient")
        ELSE IF ~w.pcm \/ w.rate = 0 THEN Silent("Transient")
        ELSE [pcm |-> TRUE, rate |-> w.rate, fail |-> "None"]

\* MistralTts::synthesize: 403 is the guardrail; the answer may be wrapped in a
\* JSON envelope (without audio: json_bare; declared raw PCM: json_pcm, and
\* json_odd when the byte count is odd), otherwise it is a WAV container.
MistralSynthesize(voice, reply) ==
    LET inner == IF reply.body = "json_wav" THEN "wav" ELSE reply.body
        w     == wav_to_pcm_int16(inner)
    IN  IF voice = "" THEN Silent("Transient")
        ELSE IF ~HttpOk(reply)
        THEN Silent(IF reply.rc = "ok" /\ reply.http = 403
                    THEN "ContentBlocked" ELSE "Transient")
        ELSE IF reply.body \in {"json_bare", "json_odd"} THEN Silent("Transient")
        ELSE IF reply.body = "json_pcm" THEN [pcm |-> TRUE, rate |-> 1, fail |-> "None"]
        ELSE IF ~w.pcm \/ w.rate = 0 THEN Silent("Transient")
        ELSE [pcm |-> TRUE, rate |-> w.rate, fail |-> "None"]

\* PiperTts::synthesize: nothing without a loaded voice; a failing chunk drops
\* everything synthesized so far.  Never ContentBlocked.
PiperSynthesize(voice, reply) ==
    IF voice \notin voices \/ reply.rc # "ok" \/ reply.body = "empty"
    THEN Silent("Transient")
    ELSE [pcm |-> TRUE, rate |-> 1, fail |-> "None"]

(***************************************************************************)
(* The result handed to the caller's callback: value "none" on failure.    *)
(***************************************************************************)
Failure(v) == [ok |-> FALSE, value |-> v, blocked |-> FALSE]

\* The tail of transcribe_async's worker.
TranscriptResult(text) ==
    IF text = "empty" THEN Failure("none")
    ELSE [ok |-> TRUE, value |-> text, blocked |-> FALSE]

\* Mutant: the raw answer is handed on when it holds no intent.
ClassifyRaw(raw) == [ok |-> raw # "empty", value |-> raw, blocked |-> FALSE]

\* classify_with_repair_async's worker: json_extract_string finds the intent,
\* which must be in the enum the caller passed.
ClassifyResult(raw) ==
    IF raw \in {"empty", "prose", "foreign"} THEN Failure("_INVALID")
    ELSE [ok |-> TRUE, value |-> raw, blocked |-> FALSE]

\* classify_intent_async's worker: trim and keep the first token, whatever it is.
FirstToken(raw) ==
    IF raw = "empty" THEN Failure("_INVALID")
    ELSE [ok |-> TRUE, value |-> raw, blocked |-> FALSE]

\* The tail of synthesize_async's worker.
AudioResult(a) ==
    [ok      |-> a.pcm /\ a.rate > 0,
     value   |-> IF a.pcm /\ a.rate > 0 THEN "audio" ELSE "none",
     blocked |-> a.fail = "ContentBlocked"]

\* The call into the backend the worker holds, followed by the worker's tail.
CallResult(op, provider, voice, reply) ==
    LET text == CASE provider = "local"  -> WhisperTranscribe(reply)
                  [] provider = "openai" -> OpenAiTranscribe(reply)
                  [] OTHER               -> MistralTranscribe(reply)
        raw  == CASE provider = "local"  -> LlamaRespond(reply)
                  [] provider = "openai" -> OpenAiRespond(reply)
                  [] OTHER               -> MistralRespond(reply)
        a    == CASE provider = "local"  -> PiperSynthesize(voice, reply)
                  [] provider = "openai" -> OpenAiSynthesize(voice, reply)
                  [] OTHER               -> MistralSynthesize(voice, reply)
    IN  CASE op = "transcribe" -> TranscriptResult(text)
          [] op = "respond"    -> TranscriptResult(raw)
          [] op = "repair"     -> ClassifyResult(raw)
          [] op = "classify"   -> FirstToken(raw)
          [] OTHER             -> AudioResult(a)

\* What the caller is told when no backend is registered, at submission or when
\* the worker finds the slot empty.
NotLoaded(op) == Failure(IF op \in {"repair", "classify"} THEN "_INVALID" ELSE "none")

(***************************************************************************)
(* Job records.  pc: "idle" before the submission, "spawned" (the thread   *)
(* waits for the stage's call mutex), "calling" (it holds the mutex and a  *)
(* raw pointer, possibly null), "queued" (its callback is in g_callbacks or *)
(* in the batch being drained), "delivered", "dropped" (cleared by stop()).  *)
(***************************************************************************)
NoJob == [pc |-> "idle", op |-> "none", inst |-> None, voice |-> "",
          res |-> Failure("none"), truth |-> "none"]

\* What really happened to the call, for the property HonestVerdict: the provider
\* answered it, rejected its content, or the call failed.
Truth(reply) == IF HttpOk(reply) THEN "answered"
                ELSE IF reply.http = 403 \/ reply.body = "policy" THEN "rejected"
                ELSE "failed"

InFlight(r) == job[r].pc \in {"spawned", "calling"}
Calling(s)  == {r \in Requests : job[r].pc = "calling" /\ Stage(job[r].op) = s}
ActiveWorkers == {r \in Requests : InFlight(r)}

Init ==
    /\ registry = [s \in Stages |-> None]
    /\ voices = {}
    /\ regs = 0
    /\ job = [r \in Requests |-> NoJob]
    /\ callbacks = <<>>
    /\ local = <<>>
    /\ phase = "up"
    /\ forced = FALSE

(***************************************************************************)
(* The registry.                                                           *)
(***************************************************************************)

\* register_stt / register_lm / register_tts from the loader thread: the unique
\* pointer is replaced under g_backend_mtx, which destroys the old instance.
\* The cloud clients come with the configured voices loaded, Piper is registered
\* first and loads its voices afterwards.
Register(s, p) ==
    /\ phase = "up"
    /\ regs < MaxRegs
    /\ regs' = regs + 1
    /\ registry' = [registry EXCEPT ![s] = p]
    /\ voices' = IF s # "tts" THEN voices ELSE IF p = "local" THEN {} ELSE Voices
    /\ UNCHANGED <<job, callbacks, local, phase, forced>>

\* register_*(nullptr), from loader::stop() and clear_file_state() on the main
\* thread.
Unregister(s) ==
    /\ phase = "up"
    /\ local = <<>>
    /\ registry[s] # None
    /\ registry' = [registry EXCEPT ![s] = None]
    /\ voices' = IF s = "tts" THEN {} ELSE voices
    /\ UNCHANGED <<regs, job, callbacks, local, phase, forced>>

\* PiperTts::load_voice / unload_voice on the instance that is registered.
ChangeVoice(v) ==
    /\ phase = "up"
    /\ registry["tts"] = "local"
    /\ voices' = IF v \in voices THEN voices \ {v} ELSE voices \union {v}
    /\ UNCHANGED <<registry, regs, job, callbacks, local, phase, forced>>

(***************************************************************************)
(* Requests.                                                               *)
(***************************************************************************)
\* Mutant: the failure path of the backend reports the result a second time.
enqueue_callback_twice(r, res) ==
    callbacks' = callbacks \o <<[req |-> r, res |-> res], [req |-> r, res |-> res]>>

enqueue_callback(r, res) == callbacks' = Append(callbacks, [req |-> r, res |-> res])

\* The five *_async entry points, on the main thread (from a drained callback
\* or from the session): the readiness test, then either the failure callback
\* or spawn_worker.  The voice is resolved here, not on the worker.
Submit(r, op, v) ==
    /\ phase = "up"
    /\ job[r].pc = "idle" /\ \A q \in Requests : q < r => job[q].pc # "idle"
    /\ IF registry[Stage(op)] = None
       THEN /\ job' = [job EXCEPT ![r] = [NoJob EXCEPT !.pc = "queued", !.op = op,
                                                       !.res = NotLoaded(op)]]
            /\ enqueue_callback(r, NotLoaded(op))
       ELSE /\ job' = [job EXCEPT ![r] = [NoJob EXCEPT !.pc = "spawned", !.op = op,
                                                       !.voice = v]]
            /\ UNCHANGED callbacks
    /\ UNCHANGED <<registry, voices, regs, local, phase, forced>>

\* Mutant: a worker whose backend went away waits for the next one.
TakeBackendWhenLoaded(r) ==
    LET s    == Stage(job[r].op)
        inst == registry[s]
    IN  /\ job[r].pc = "spawned"
        /\ Calling(s) = {} /\ (inst # None \/ phase # "up")
        /\ job' = [job EXCEPT ![r].pc = "calling", ![r].inst = inst,
                              ![r].voice = IF job[r].op = "synthesize" /\ inst # None
                                              /\ job[r].voice \notin voices
                                           THEN DefaultVoice ELSE @]
        /\ UNCHANGED <<registry, voices, regs, callbacks, local, phase, forced>>

\* The worker takes the stage's call mutex, copies the raw pointer under
\* g_backend_mtx and, for speech, falls back to the default voice when the
\* configured one is not loaded.
TakeBackend(r) ==
    LET s    == Stage(job[r].op)
        inst == registry[s]
    IN  /\ job[r].pc = "spawned"
        /\ Calling(s) = {}
        /\ job' = [job EXCEPT ![r].pc = "calling", ![r].inst = inst,
                              ![r].voice = IF job[r].op = "synthesize" /\ inst # None
                                              /\ job[r].voice \notin voices
                                           THEN DefaultVoice ELSE @]
        /\ UNCHANGED <<registry, voices, regs, callbacks, local, phase, forced>>

\* The call returns (or there was no backend to call); the worker releases the
\* mutex and enqueues its one callback.
FinishCall(r) ==
    \E reply \in Replies(job[r].op, job[r].inst) :
        LET res == IF job[r].inst = None THEN NotLoaded(job[r].op)
                   ELSE CallResult(job[r].op, job[r].inst, job[r].voice, reply)
        IN  /\ job[r].pc = "calling"
            /\ job' = [job EXCEPT ![r] = [NoJob EXCEPT !.pc = "queued", !.op = job[r].op,
                                                       !.res = res,
                                                       !.truth = IF job[r].inst = None THEN "none"
                                                                 ELSE Truth(reply)]]
            /\ enqueue_callback(r, res)
            /\ UNCHANGED <<registry, voices, regs, local, phase, forced>>

\* drain_callback_queue: swap the queue out under the lock ...
SwapQueue ==
    /\ phase = "up"
    /\ local = <<>>
    /\ callbacks # <<>>
    /\ local' = callbacks
    /\ callbacks' = <<>>
    /\ UNCHANGED <<registry, voices, regs, job, phase, forced>>

\* ... and run the batch in order, outside it.
RunCallback ==
    /\ local # <<>>
    /\ local' = Tail(local)
    /\ job' = [job EXCEPT ![Head(local).req] = [NoJob EXCEPT !.pc = "delivered"]]
    /\ UNCHANGED <<registry, voices, regs, callbacks, phase, forced>>

(***************************************************************************)
(* stop(): wait for the workers, at most five seconds, then drop the       *)
(* backends and the pending callbacks regardless.                          *)
(***************************************************************************)
StopBegins ==
    /\ phase = "up"
    /\ local = <<>>
    /\ phase' = "stopping"
    /\ UNCHANGED <<registry, voices, regs, job, callbacks, local, forced>>

DropAll ==
    /\ registry' = [s \in Stages |-> None]
    /\ voices' = {}
    /\ callbacks' = <<>>
    /\ job' = [r \in Requests |-> IF job[r].pc = "queued"
                                  THEN [NoJob EXCEPT !.pc = "dropped"] ELSE job[r]]
    /\ phase' = "stopped"
    /\ UNCHANGED <<regs, local>>

\* Mutant: the workers are not waited for.
StopAtOnce == phase = "stopping" /\ DropAll /\ UNCHANGED forced

StopEnds ==
    /\ phase = "stopping"
    /\ ActiveWorkers = {}
    /\ DropAll
    /\ UNCHANGED forced

StopTimesOut ==
    /\ phase = "stopping"
    /\ ActiveWorkers # {}
    /\ DropAll
    /\ forced' = TRUE

\* The plugin is unloaded after stop(); nothing follows but a wedged worker.
Done ==
    /\ phase = "stopped"
    /\ ActiveWorkers = {}
    /\ UNCHANGED vars

Worker(r) == TakeBackend(r) \/ FinishCall(r)

Next ==
    \/ \E s \in Stages : (\E p \in Providers : Register(s, p)) \/ Unregister(s)
    \/ \E v \in Voices : ChangeVoice(v)
    \/ \E r \in Requests, op \in Ops :
           \E v \in IF op = "synthesize" THEN Voices ELSE {""} : Submit(r, op, v)
    \/ \E r \in Requests : Worker(r)
    \/ SwapQueue \/ RunCallback
    \/ StopBegins \/ StopEnds \/ StopTimesOut \/ Done

\* A call into a backend returns: the cloud clients set CURLOPT_TIMEOUT, the
\* local ones compute a bounded number of tokens or samples.  The flight loop
\* drains every frame, and stop() waits at most five seconds.
Fairness ==
    /\ \A r \in Requests : WF_vars(Worker(r))
    /\ WF_vars(SwapQueue) /\ WF_vars(RunCallback)
    /\ WF_vars(StopEnds \/ StopTimesOut)

Spec == Init /\ [][Next]_vars
LiveSpec == Spec /\ Fairness

-----------------------------------------------------------------------------

\* The request numbers in the two queues, oldest first.
Pending == [i \in 1..Len(local \o callbacks) |-> (local \o callbacks)[i].req]

\* No answer is lost and none is given twice: a request is in exactly one place,
\* and it is in the callback queue or the batch being drained exactly when its
\* worker (or its submission) enqueued the one callback it owes.
OneAnswer ==
    /\ \A r \in Requests :
         (job[r].pc = "queued") <=> (\E i \in DOMAIN Pending : Pending[i] = r)
    /\ \A i, j \in DOMAIN Pending : Pending[i] = Pending[j] => i = j

\* What the session is told about a request agrees with what the provider did:
\* success only for a call that was answered, "blocked" (which makes the session
\* give up instead of retrying) only for a rejection and never with audio, and a
\* repaired intent only from the caller's list.
HonestVerdict ==
    \A r \in Requests : job[r].pc = "queued" =>
        LET j == job[r] IN
        /\ j.res.ok => j.truth = "answered"
        /\ j.res.blocked => ~j.res.ok /\ j.truth = "rejected"
        /\ j.op = "repair" /\ j.res.ok => j.res.value \in {"listed", "_INVALID"}

\* After stop() returned without giving up, no worker is left that could enqueue
\* a callback into an unloaded plugin, and no callback is waiting.
StoppedClean ==
    phase = "stopped" /\ ~forced => ActiveWorkers = {} /\ Pending = <<>>

\* Every request the session submits is answered, unless the plugin stops.
AnsweredEventually ==
    \A r \in Requests : (job[r].pc # "idle") ~> (job[r].pc = "delivered" \/ phase # "up")

=============================================================================
