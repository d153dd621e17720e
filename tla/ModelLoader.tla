---------------------------- MODULE ModelLoader ----------------------------
(***************************************************************************)
(* The model loader (backends/loader.cpp) over the model manifest          *)
(* (persistence/model_manifest.cpp): a worker thread that verifies the     *)
(* model files on disk and brings the inference backends up.               *)
(*                                                                         *)
(* Actors: the loader's worker thread; the main thread and the downloader's *)
(* thread, which call start(), start(key), clear_file_state() and stop().  *)
(* This module has the loader's state and one operator per operation; the  *)
(* module ModelDownloader composes them with their callers.                *)
(*                                                                         *)
(* A manifest entry is one file.  A Piper voice has two (weights and       *)
(* configuration), which are verified one by one and loaded together: the  *)
(* unit of loading is a set of entries.                                    *)
(***************************************************************************)
EXTENDS Naturals, Sequences, FiniteSets, SequencesExt

CONSTANTS
    Whisper,     \* entries of Kind::WhisperModel (of the active language)
    Llama,       \* entries of Kind::LlamaModel: optional, never gating
    VoicePairs,  \* set of {onnx, json} pairs: the voices assigned to a role
    Modes,       \* values of settings::backend_mode() the user chooses from
    InitFiles    \* what the model directory may hold when the plugin starts

Entries == Whisper \union Llama \union UNION VoicePairs
Manifest == SetToSeq(Whisper) \o SetToSeq(Llama) \o SetToSeq(UNION VoicePairs)

None == "none"

ASSUME ManifestAssumption ==
    /\ IsFiniteSet(Entries) /\ None \notin Entries
    /\ \A p, q \in VoicePairs : p = q \/ p \intersect q = {}
    /\ Whisper \intersect Llama = {}
    /\ (Whisper \union Llama) \intersect UNION VoicePairs = {}
ASSUME FilesAssumption == InitFiles \subseteq {"absent", "short", "corrupt", "good"}
ASSUME ModesAssumption == Modes \subseteq {"local", "cloud", "hybrid"}

VARIABLES
    disk,       \* the file at the entry's final path: absent, short, corrupt, good
    mode,       \* backend_mode(), "hybrid" being a cloud mode with the local TTS override
    row,        \* g_status.files: the FileState of each entry
    seeded,     \* g_status.files is not empty
    running,    \* g_running
    exiting,    \* g_should_exit
    single,     \* g_single_key
    thread,     \* the worker thread: a record, or NoThread
    registered, \* stage -> what the manager holds: "none", "local", "cloud"
    voices,     \* voices loaded in g_piper
    piper,      \* g_piper is not null
    content     \* ghost: what the loaded units were read from

loaderVars == <<mode, row, seeded, running, exiting, single, thread,
                registered, voices, piper, content>>

FileStates == {"NotChecked", "Missing", "SizeMismatch", "Verifying", "HashMismatch",
               "Verified", "Loading", "Ready", "LoadError"}
Files == {"absent", "short", "corrupt", "good"}
NoThread == [pc |-> "none", plan |-> "none", todo |-> <<>>, load |-> <<>>, ok |-> {}]

\* get_voice: the two entries of a voice; a model that is not a voice stands alone.
Unit(e) == IF \E p \in VoicePairs : e \in p
           THEN CHOOSE p \in VoicePairs : e \in p ELSE {e}
Units == {Unit(e) : e \in Entries}
IsVoice(u) == u \in VoicePairs

\* size_matches: the size alone, as stat() reports it.
size_matches(e) == disk[e] \in {"corrupt", "good"}

\* backends::stt_ready and so on, and the loader's entry_loaded.
stt_ready == registered["stt"] # None
lm_ready  == registered["lm"] # None
tts_ready == registered["tts"] # None
entry_loaded(e) == CASE e \in Whisper -> stt_ready
                     [] e \in Llama   -> lm_ready
                     [] OTHER         -> piper /\ Unit(e) \in voices

\* update_state: finds no row after stop() cleared the vector.
update_state(es, s) ==
    row' = IF seeded THEN [e \in Entries |-> IF e \in es THEN s ELSE row[e]] ELSE row

LoaderInit ==
    /\ disk \in [Entries -> InitFiles]
    /\ mode \in Modes
    /\ row = [e \in Entries |-> "NotChecked"]
    /\ seeded = FALSE
    /\ running = FALSE
    /\ exiting = FALSE
    /\ single = None
    /\ thread = NoThread
    /\ registered = [s \in {"stt", "lm", "tts"} |-> None]
    /\ voices = {}
    /\ piper = FALSE
    /\ content = [u \in Units |-> "none"]

(***************************************************************************)
(* Entry points.  A caller claims the loader by the compare-exchange on     *)
(* g_running; a second caller is ignored ("a hint, not a force").           *)
(***************************************************************************)

\* start() up to the creation of the thread: rows whose backend is still
\* registered stay Ready, the others are checked again.
ClaimFull ==
    /\ running' = TRUE
    /\ exiting' = FALSE
    /\ single' = None
    /\ seeded' = TRUE
    /\ row' = [e \in Entries |->
                 IF seeded /\ row[e] = "Ready" /\ entry_loaded(e) THEN "Ready"
                 ELSE "NotChecked"]

\* start(key) up to the creation of the thread.
ClaimOne(e) ==
    /\ running' = TRUE
    /\ exiting' = FALSE
    /\ single' = e
    /\ seeded' = TRUE
    /\ row' = IF seeded THEN row ELSE [x \in Entries |-> "NotChecked"]

\* g_worker = std::thread(run_worker), after joining the previous thread.
Spawn == thread' = [NoThread EXCEPT !.pc = "begin"]

\* clear_file_state: both rows of a voice go back to NotChecked, the voice is
\* unloaded, or the stage's backend is dropped whatever its provider.
clear_file_state(e) ==
    /\ update_state(Unit(e), "NotChecked")
    /\ voices' = voices \ {Unit(e)}
    /\ registered' = [registered EXCEPT
                        !["stt"] = IF e \in Whisper THEN None ELSE @,
                        !["lm"]  = IF e \in Llama THEN None ELSE @]
    /\ content' = [content EXCEPT ![Unit(e)] = "none"]
    /\ UNCHANGED piper

\* The second half of stop(), after the join: every backend is dropped.
DropBackends ==
    /\ running' = FALSE
    /\ exiting' = FALSE
    /\ piper' = FALSE
    /\ voices' = {}
    /\ registered' = [s \in DOMAIN registered |-> None]
    /\ content' = [u \in Units |-> "none"]
    /\ seeded' = FALSE
    /\ row' = [e \in Entries |-> "NotChecked"]

(***************************************************************************)
(* The worker thread.                                                      *)
(***************************************************************************)

\* run_worker returns: its last act is to clear g_running.
Leave == /\ thread' = NoThread
         /\ running' = FALSE

\* load_openai_backends and load_mistral_backends: with a key in the keychain the
\* three clients are built, their voices named, and all three registered.
LoadCloudBackends ==
    \/ registered' = [s \in DOMAIN registered |-> "cloud"]
    \/ UNCHANGED registered

\* run_worker up to the first verification: take the single key, else look at the
\* mode.  A targeted run processes the entry and its sibling (process_one); a local
\* run verifies the manifest; a cloud run registers the three clients (when a key is
\* in the keychain) and verifies the voice files, again when they override the TTS.
VoiceFiles == SelectSeq(Manifest, LAMBDA e : IsVoice(Unit(e)))

BeginRun ==
    /\ thread.pc = "begin"
    /\ single' = None
    /\ LET full == CASE mode = "local" -> Manifest
                     [] mode = "cloud" -> VoiceFiles
                     [] OTHER          -> VoiceFiles \o VoiceFiles
       IN  thread' = [thread EXCEPT
             !.pc = "verify",
             !.plan = IF single # None THEN "one" ELSE mode,
             !.todo = IF single = None THEN full
                      ELSE SelectSeq(Manifest, LAMBDA e : e \in Unit(single))]
    /\ \/ (single # None \/ mode = "local") /\ UNCHANGED registered
       \/ /\ single = None /\ mode # "local"
          /\ LoadCloudBackends
    /\ UNCHANGED <<disk, mode, row, seeded, running, exiting, voices, piper, content>>

\* Inside bring_up_local_tts_override, the second walk over the voice files: it
\* does not look at g_should_exit between files, and loads what verified so far.
InOverride == thread.plan = "hybrid" /\ Len(thread.todo) <= Len(VoiceFiles)

\* verify_one leaves with false because g_should_exit is set: the run ends, except
\* in the override, where it only counts as one file that did not verify.
VerifyAborted ==
    /\ IF InOverride
       THEN /\ thread' = [thread EXCEPT !.pc = "verify", !.todo = Tail(@)]
            /\ UNCHANGED running
       ELSE Leave
    /\ UNCHANGED row

\* verify_one up to the hash: the early exit, then the size check.
VerifySize ==
    /\ thread.pc = "verify"
    /\ thread.todo # <<>>
    /\ LET e == Head(thread.todo) IN
       \/ exiting /\ VerifyAborted
       \/ /\ ~exiting
          /\ UNCHANGED running
          /\ IF size_matches(e)
             THEN /\ update_state({e}, "Verifying")
                  /\ thread' = [thread EXCEPT !.pc = "hash"]
             ELSE /\ update_state({e}, IF disk[e] = "absent" THEN "Missing"
                                       ELSE "SizeMismatch")
                  /\ thread' = [thread EXCEPT !.todo = Tail(@)]
    /\ UNCHANGED <<disk, mode, seeded, exiting, single, registered, voices, piper, content>>

\* Mutant: the size alone decides.
MismatchBySize(e) == disk[e] \in {"absent", "short"}

\* verify_one from the hash on: the SHA256 of what is on disk now (sha256_file is
\* not interrupted by g_should_exit; the result is dropped).
Mismatch(e) == disk[e] # "good"

VerifyHash ==
    /\ thread.pc = "hash"
    /\ LET e == Head(thread.todo)
           counted == thread.plan # "hybrid" \/ InOverride
       IN  \/ exiting /\ VerifyAborted
           \/ /\ ~exiting
              /\ UNCHANGED running
              /\ thread' = [thread EXCEPT
                              !.pc = "verify", !.todo = Tail(@),
                              !.ok = IF ~Mismatch(e) /\ counted THEN @ \union {e} ELSE @]
              /\ update_state({e}, CASE disk[e] = "absent" -> "Missing"
                                     [] ~Mismatch(e)       -> "Verified"
                                     [] OTHER              -> "HashMismatch")
    /\ UNCHANGED <<disk, mode, seeded, exiting, single, registered, voices, piper, content>>

\* What is loaded once the files are verified.  verify_files gates on everything
\* but the Llama; a targeted run loads its unit when every file of it verified; the
\* TTS override loads the voices that verified; a plain cloud run loads nothing.
ToLoad ==
    LET seq(us)  == SetToSeq(us)
        complete == {u \in Units : u \subseteq thread.ok}
    IN  CASE thread.plan = "one"    -> seq(complete)
          [] thread.plan = "hybrid" -> seq(complete \intersect VoicePairs)
          [] thread.plan = "local" /\ Entries \ Llama \subseteq thread.ok ->
               seq({{e} : e \in Whisper}) \o seq({{e} : e \in Llama}) \o seq(VoicePairs)
          [] OTHER -> <<>>

VerifyDone ==
    /\ thread.pc = "verify"
    /\ thread.todo = <<>>
    /\ IF ToLoad = <<>> \/ (exiting /\ thread.plan = "local")
       THEN Leave
       ELSE /\ thread' = [thread EXCEPT !.pc = "load", !.load = ToLoad]
            /\ UNCHANGED running
    /\ UNCHANGED <<disk, mode, row, seeded, exiting, single, registered, voices, piper, content>>

\* load_backends looks at g_should_exit before every model but the first, and skips
\* a Llama whose file is not there in full; it never asks whether its hash matched.
Skipped(u) == thread.plan = "local" /\ u \subseteq Llama /\ \E e \in u : ~size_matches(e)
AlreadyLoaded(u) == \A e \in u : entry_loaded(e)

\* ensure_piper_init fails: without espeak-ng-data or piper.dll every voice row says
\* LoadError, when Piper itself refuses the rows stay as they are.
ensure_piper_init_fails ==
    /\ ~piper
    /\ update_state(UNION VoicePairs, "LoadError") \/ UNCHANGED row
    /\ thread' = [thread EXCEPT !.pc = "next"]
    /\ UNCHANGED <<piper, registered, running>>

\* load_whisper, load_llama, load_piper_voice up to the call that opens the model:
\* a backend that is already there is only marked again (LoadMark); otherwise the
\* rows say Loading.  The first voice creates Piper and registers it as the TTS.
LoadBegin ==
    /\ thread.pc = "load"
    /\ LET u == Head(thread.load) IN
       \/ /\ exiting /\ thread.plan = "local" /\ ~(u \subseteq Whisper)
          /\ Leave
          /\ UNCHANGED <<row, piper, registered>>
       \/ /\ ~(exiting /\ thread.plan = "local" /\ ~(u \subseteq Whisper))
          /\ \/ /\ Skipped(u) \/ AlreadyLoaded(u)
                /\ thread' = [thread EXCEPT !.pc = IF Skipped(u) THEN "next" ELSE "mark"]
                /\ UNCHANGED <<row, piper, registered, running>>
             \/ ~AlreadyLoaded(u) /\ IsVoice(u) /\ ensure_piper_init_fails
             \/ /\ ~Skipped(u) /\ ~AlreadyLoaded(u)
                /\ piper' = (piper \/ IsVoice(u))
                /\ registered' = IF IsVoice(u) /\ ~piper
                                 THEN [registered EXCEPT !["tts"] = "local"] ELSE registered
                /\ update_state(u, "Loading")
                /\ thread' = [thread EXCEPT !.pc = "opening"]
                /\ UNCHANGED running
    /\ UNCHANGED <<disk, mode, seeded, exiting, single, voices, content>>

\* The library opens the file that is on disk now, or rejects it; on success the
\* backend is registered, respectively the voice is added to Piper.
LoadEnd ==
    /\ thread.pc = "opening"
    /\ LET u    == Head(thread.load)
           gone == \E e \in u : disk[e] \in {"absent", "short"}
           bad  == \E e \in u : disk[e] # "good"
       IN  \/ /\ ~gone
              /\ registered' = [registered EXCEPT
                                  !["stt"] = IF u \subseteq Whisper THEN "local" ELSE @,
                                  !["lm"]  = IF u \subseteq Llama THEN "local" ELSE @]
              /\ voices' = IF IsVoice(u) THEN voices \union {u} ELSE voices
              /\ content' = [content EXCEPT ![u] = IF bad THEN "corrupt" ELSE "good"]
              /\ update_state(u, "Ready")
           \/ /\ update_state(u, "LoadError")
              /\ UNCHANGED <<registered, voices, content>>
    /\ thread' = [thread EXCEPT !.pc = "next"]
    /\ UNCHANGED <<disk, mode, seeded, running, exiting, single, piper>>

\* The rows of a backend that was found loaded: set without looking again.
LoadMark ==
    /\ thread.pc = "mark"
    /\ update_state(Head(thread.load), "Ready")
    /\ thread' = [thread EXCEPT !.pc = "next"]
    /\ UNCHANGED <<disk, mode, seeded, running, exiting, single, registered, voices, piper, content>>

LoadNext ==
    /\ thread.pc = "next"
    /\ IF Len(thread.load) = 1 THEN Leave
       ELSE /\ thread' = [thread EXCEPT !.pc = "load", !.load = Tail(@)]
            /\ UNCHANGED running
    /\ UNCHANGED <<disk, mode, row, seeded, exiting, single, registered, voices, piper, content>>

Loader == \/ BeginRun \/ VerifySize \/ VerifyHash \/ VerifyDone
          \/ LoadBegin \/ LoadEnd \/ LoadMark \/ LoadNext

LoaderTypeOK ==
    /\ disk \in [Entries -> Files]
    /\ mode \in Modes
    /\ row \in [Entries -> FileStates]
    /\ seeded \in BOOLEAN /\ running \in BOOLEAN /\ exiting \in BOOLEAN /\ piper \in BOOLEAN
    /\ single \in Entries \union {None}
    /\ thread.pc \in {"none", "begin", "verify", "hash", "load", "opening", "mark", "next"}
    /\ thread.plan \in {"none", "one"} \union Modes
    /\ thread.todo \in Seq(Entries) /\ thread.ok \subseteq Entries
    /\ thread.load \in Seq(Units)
    /\ registered \in [{"stt", "lm", "tts"} -> {None, "local", "cloud"}]
    /\ voices \subseteq VoicePairs
    /\ content \in [Units -> {"none", "corrupt", "good"}]
=============================================================================
