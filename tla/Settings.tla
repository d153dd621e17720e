------------------------------ MODULE Settings ------------------------------
(***************************************************************************)
(* The settings file and the API keys, with what hangs on them:            *)
(*   src/src/persistence/settings.cpp       the JSON object "cfg", loaded  *)
(*        and migrated by init(), edited by setters, written by save();    *)
(*   src/src/persistence/keychain.cpp       the keys themselves;           *)
(*   src/src/persistence/models_catalog.cpp and model_manifest.cpp         *)
(*        the voices a role can speak with;                                *)
(*   src/src/ui/atc_ui.cpp                  the Settings tab.              *)
(* Of cfg the model keeps the keys other code depends on; "toggles" stands *)
(* for the plain switches and numbers, which no code derives from.         *)
(***************************************************************************)
EXTENDS Integers, Sequences, FiniteSets, SequencesExt

CONSTANTS
    Catalogs,      \* voice catalogs an installation may have
    OldFiles,      \* settings.json files earlier versions may have left
    MaxEdits,      \* bound: what the pilot changes in the Settings tab
    MaxStarts      \* bound: starts of the plugin

VARIABLES
    cfg,           \* settings in memory
    file,          \* settings.json
    keychain,      \* providers whose key the system keeps
    saving,        \* save() has opened, and so emptied, the file
    running,
    catalog,       \* g_cat.local_piper
    loaded,        \* Piper voices the loader has loaded
    edits, starts,
    excused        \* history: providers whose flag may be out of step

settings_vars == <<cfg, file, keychain, saving, running, catalog,
                   loaded, edits, starts, excused>>

Languages == {"de", "en"}
Modes == {"local", "openai", "mistral"}
Providers == {"openai", "mistral"}
Roles == {"Atis", "Tower", "Ground", "Unicom"}

\* Position of a role's default in a catalog, all_roles() order.
RoleIndex == [Atis |-> 1, Tower |-> 2, Ground |-> 3, Unicom |-> 4]

\* A settings object: the values an earlier version or a text editor left under
\* the keys are anything, but the flags are Boolean.
SettingsObject(c) ==
    /\ DOMAIN c = {"language", "profile", "ui", "mode", "override", "stt", "lm",
                   "saved", "voices", "toggles"}
    /\ c.saved \in [Providers -> BOOLEAN]

\* Rows of a catalog: a voice speaks one language however often it is listed.
VoiceList(rows) ==
    /\ rows \in Seq(ToSet(rows))
    /\ \A i, j \in DOMAIN rows :
          rows[i].id = rows[j].id => rows[i].language = rows[j].language

ASSUME SettingsAssumption ==
    /\ \A c \in Catalogs : VoiceList(c)
    /\ \A f \in OldFiles :
          /\ DOMAIN f = {"kind", "has_ui", "legacy", "cfg"}
          /\ SettingsObject(f.cfg)

-----------------------------------------------------------------------------
(* models_catalog and model_manifest                                       *)

\* ensure_defaults_locked: the built-in rows.
BuiltIn == <<[id |-> "thorsten", language |-> "de"],
             [id |-> "alan", language |-> "en"]>>

\* init(): a catalog file replaces the list only if it names a voice.
parse_piper_voices(listed) == IF listed = <<>> THEN BuiltIn ELSE listed

voice_ids == {catalog[i].id : i \in DOMAIN catalog}

voice_language(id) ==
    IF id \in voice_ids
    THEN (CHOOSE v \in ToSet(catalog) : v.id = id).language ELSE ""

\* default_voice_for(role): the row of the role, else the first one.
default_voice_for_role(role) ==
    LET i == RoleIndex[role]
    IN  IF catalog = <<>> THEN ""
        ELSE catalog[IF i <= Len(catalog) THEN i ELSE 1].id

\* default_voice_for(role, language): the first row of the language.
default_voice_for(role, language) ==
    LET rows == {i \in DOMAIN catalog : catalog[i].language = language}
    IN  IF rows = {} THEN default_voice_for_role(role)
        ELSE catalog[CHOOSE i \in rows : \A j \in rows : i <= j].id

-----------------------------------------------------------------------------
(* Reading cfg.                                                            *)

\* The getters fall back to a default for a value they do not know.
atc_language(c) == IF c.language \in Languages THEN c.language ELSE "de"

backend_mode(c) == IF c.mode \in Modes THEN c.mode ELSE "local"

\* Mutant: a stored voice is used whatever its language.
voice_for_role_kept(c, role) ==
    IF c.voices[role] # "" /\ c.voices[role] \in voice_ids
    THEN c.voices[role] ELSE default_voice_for(role, atc_language(c))

\* voice_for_role, of the Piper slots: the stored voice if there is one, it is
\* still shipped and it speaks the active language.  In the cloud modes
\* without the TTS override the voice is the provider's business.
voice_for_role(c, role) ==
    IF /\ c.voices[role] # "" /\ c.voices[role] \in voice_ids
       /\ voice_language(c.voices[role]) = atc_language(c)
    THEN c.voices[role] ELSE default_voice_for(role, atc_language(c))

\* Speech comes from Piper.
LocalVoice(c) == backend_mode(c) = "local" \/ c.override

\* The loader's assigned_voice_ids, all of whose files are on disk.
Assigned(c) ==
    IF LocalVoice(c) THEN {voice_for_role(c, r) : r \in Roles} ELSE {}

-----------------------------------------------------------------------------
(* init(), save()                                                          *)

Profile(language) == IF language = "en" THEN "EN" ELSE "DE"

default_config ==
    [language |-> "de", profile |-> "DE", ui |-> "en",
     mode |-> "local", override |-> FALSE,
     stt |-> "transcribe", lm |-> "large",
     saved |-> [p \in Providers |-> FALSE],
     voices |-> [r \in Roles |-> default_voice_for(r, "de")],
     toggles |-> 0]

\* A file without ui_language gets the ATC language, not the default.
UiLanguage(f, language) ==
    IF ~f.has_ui THEN language
    ELSE IF f.cfg.ui \in Languages THEN f.cfg.ui ELSE "de"

\* The slugs of v3.0, and the one the endpoint rejects, are replaced.
MigratedStt(s) == IF s \in {"mini", "small"} THEN "transcribe" ELSE s

MigratedLm(s) == IF s = "small-latest" THEN "large" ELSE s

\* What init() makes of a file that parses.
Migrated(f) ==
    LET language == atc_language(f.cfg)
    IN  [f.cfg EXCEPT !.language = language, !.profile = Profile(language),
                      !.ui = UiLanguage(f, language),
                      !.stt = MigratedStt(@), !.lm = MigratedLm(@)]

Loads(f) == IF f.kind = "json" THEN Migrated(f) ELSE default_config

\* The file on disk as save() leaves it.
Written(c) == [kind |-> "json", has_ui |-> TRUE, legacy |-> FALSE, cfg |-> c]

\* needs_save: a key was dropped, changed or missing.
NeedsSave(f) ==
    f.kind # "json" \/ f.legacy \/ ~f.has_ui \/ Migrated(f) # f.cfg

\* save() opens the file, which empties it, ...
save == saving' = TRUE /\ file' = [file EXCEPT !.kind = "torn"]

\* ... and writes it out.
SaveWrites ==
    /\ saving
    /\ saving' = FALSE /\ file' = Written(cfg)
    /\ UNCHANGED <<cfg, keychain, running, catalog, loaded, edits,
                   starts, excused>>

\* XPluginStart and XPluginEnable: settings::init, the bundles, the loader.
Start ==
    /\ ~running /\ starts < MaxStarts
    /\ starts' = starts + 1 /\ running' = TRUE
    /\ cfg' = Loads(file)
    /\ loaded' = Assigned(cfg')
    /\ \/ NeedsSave(file) /\ save
       \/ ~NeedsSave(file) /\ UNCHANGED <<saving, file>>
    /\ UNCHANGED <<keychain, catalog, edits, excused>>

\* The plugin ends: in good order (stop() saves nothing), or in a crash that
\* leaves the file as it is.
Ends ==
    /\ running
    /\ running' = FALSE /\ saving' = FALSE
    /\ UNCHANGED <<cfg, file, keychain, catalog, loaded, edits, starts,
                   excused>>

-----------------------------------------------------------------------------
(* The Settings tab.                                                       *)

Idle == running /\ ~saving

Editing == Idle /\ edits < MaxEdits /\ edits' = edits + 1

\* A key that is set and saved, with no other effect.
Set(c) ==
    /\ Editing
    /\ cfg' = c /\ save
    /\ UNCHANGED <<keychain, running, catalog, loaded, starts, excused>>

set_atc_language ==
    \E l \in Languages :
        Set([cfg EXCEPT !.language = l, !.profile = Profile(l)])

set_ui_language == \E l \in Languages : Set([cfg EXCEPT !.ui = l])

\* The Mistral model lists of the catalog, the former defaults included.
set_mistral_models ==
    \/ \E s \in {"transcribe", "mini"} : Set([cfg EXCEPT !.stt = s])
    \/ \E s \in {"large", "medium", "small-latest"} : Set([cfg EXCEPT !.lm = s])

\* The voice list shows the loaded voices of the active language.
set_voice_for_role ==
    \E r \in Roles, v \in loaded :
        /\ voice_language(v) = atc_language(cfg)
        /\ Set([cfg EXCEPT !.voices[r] = v])

\* Backend mode and TTS override: saved, then the loader starts over.
set_backend_mode ==
    /\ Editing
    /\ \/ \E m \in Modes : cfg' = [cfg EXCEPT !.mode = m]
       \/ backend_mode(cfg) # "local" /\ cfg' = [cfg EXCEPT !.override = ~@]
    /\ save
    /\ loaded' = Assigned(cfg')
    /\ UNCHANGED <<keychain, running, catalog, starts, excused>>

\* A plain switch: in memory at once, on disk with the next save.
SetToggle ==
    /\ Editing
    /\ cfg' = [cfg EXCEPT !.toggles = 1 - @]
    /\ UNCHANGED <<file, keychain, saving, running, catalog, loaded,
                   starts, excused>>

\* Save Settings, or the geometry timer.
SaveSettings == Set(cfg)

-----------------------------------------------------------------------------
(* Keys.  On macOS an existing item is deleted before the new one is added.*)

\* keychain::save succeeds.
KeySaved(p) ==
    /\ keychain' = keychain \cup {p}
    /\ cfg' = [cfg EXCEPT !.saved[p] = TRUE]
    /\ excused' = excused \ {p}
    /\ save /\ loaded' = Assigned(cfg)

\* It fails, and the item that was there is gone: the flag stays.
KeyLost(p) ==
    /\ keychain' \in {keychain, keychain \ {p}}
    /\ excused' = excused \cup (keychain \ keychain')
    /\ UNCHANGED <<cfg, saving, file, loaded>>

save_api_key(p) ==
    /\ Editing
    /\ KeySaved(p) \/ KeyLost(p)
    /\ UNCHANGED <<running, catalog, starts>>

\* Mutant: the flag is forgotten.
delete_api_key_flag_kept(p) ==
    /\ Editing
    /\ keychain' \in {keychain, keychain \ {p}}
    /\ save /\ UNCHANGED cfg
    /\ loaded' = Assigned(cfg')
    /\ UNCHANGED <<running, catalog, starts, excused>>

\* keychain::remove may be denied; the flag is cleared either way.
delete_api_key(p) ==
    /\ Editing
    /\ keychain' \in {keychain, keychain \ {p}}
    /\ cfg' = [cfg EXCEPT !.saved[p] = FALSE]
    /\ save
    /\ loaded' = Assigned(cfg')
    /\ UNCHANGED <<running, catalog, starts, excused>>

-----------------------------------------------------------------------------

SettingsInit ==
    /\ catalog \in {parse_piper_voices(c) : c \in Catalogs}
    /\ file \in OldFiles
    /\ cfg = default_config
    /\ keychain = {p \in Providers : file.cfg.saved[p]}
    /\ saving = FALSE /\ running = FALSE
    /\ loaded = {} /\ edits = 0 /\ starts = 0
    /\ excused = {}

SettingsNext ==
    \/ Start
    \/ SaveWrites
    \/ Ends
    \/ set_atc_language
    \/ set_ui_language
    \/ set_mistral_models
    \/ set_voice_for_role
    \/ set_backend_mode
    \/ SetToggle
    \/ SaveSettings
    \/ \E p \in Providers : save_api_key(p)
    \/ \E p \in Providers : delete_api_key(p)

SettingsSpec == SettingsInit /\ [][SettingsNext]_settings_vars

-----------------------------------------------------------------------------
(* Properties.                                                             *)

\* The "key saved" flag is never true without a key in the keychain, across
\* restarts, torn files and refused deletions, unless an overwrite has failed
\* after the old key was deleted.
FlagHonest ==
    running =>
        {p \in Providers : cfg.saved[p]} \subseteq keychain \cup excused

\* Whatever was stored, by whatever version and under whatever catalog, every
\* role is given a voice of the catalog, and one that speaks the language of
\* the replies whenever the catalog has one.
VoiceFitsLanguage ==
    running => \A r \in Roles :
        /\ voice_for_role(cfg, r) \in voice_ids
        /\ (\E i \in DOMAIN catalog : catalog[i].language = atc_language(cfg))
              => voice_language(voice_for_role(cfg, r)) = atc_language(cfg)

=============================================================================
