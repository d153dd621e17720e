------------------------- MODULE PersistenceProofs -------------------------
(***************************************************************************)
(* Proofs about what outlives the process: the settings file with the API  *)
(* keys, for every catalog and every file earlier versions may have left,  *)
(* and the logbook, for any number of flights, transmissions and faults.   *)
(***************************************************************************)
EXTENDS Settings, FlightLog, FiniteSetTheorems, SequenceTheorems, WellFoundedInduction, TLAPS

\* A nonempty set of natural numbers has a least element.
LEMMA LeastOf ==
    ASSUME NEW T \in SUBSET Nat, T # {}
    PROVE  \E i \in T : \A j \in T : i <= j
  <1>1. PICK i \in T : \A j \in T : <<j, i>> \notin OpToRel(<, Nat)
    BY WFMin, NatLessThanWellFounded
  <1>2. \A j \in T : ~(j < i)
    BY <1>1 DEF OpToRel
  <1> QED BY <1>2

(***************************************************************************)
(* The voices.                                                             *)
(***************************************************************************)

\* init() leaves a catalog that names a voice.
CatalogInv == VoiceList(catalog) /\ catalog # <<>>

LEMMA CatalogShape ==
    ASSUME CatalogInv
    PROVE  /\ Len(catalog) \in Nat /\ 1 \in DOMAIN catalog
           /\ DOMAIN catalog = 1 .. Len(catalog)
           /\ \A i \in DOMAIN catalog : catalog[i].id \in voice_ids
  <1>1. catalog \in Seq(ToSet(catalog)) /\ catalog # <<>>
    BY DEF CatalogInv, VoiceList
  <1>2. Len(catalog) \in Nat /\ DOMAIN catalog = 1 .. Len(catalog)
    BY <1>1
  <1>3. Len(catalog) # 0
    BY <1>1, EmptySeq
  <1> QED BY <1>2, <1>3 DEF voice_ids

\* default_voice_for(role): some row's voice.
LEMMA RoleDefault ==
    ASSUME CatalogInv, NEW role \in Roles
    PROVE  \E i \in DOMAIN catalog : default_voice_for_role(role) = catalog[i].id
  <1> DEFINE n == RoleIndex[role]
  <1>1. n \in 1 .. 4
    BY DEF Roles, RoleIndex
  <1> HIDE DEF n
  <1>2. CASE n <= Len(catalog)
    BY <1>1, <1>2, CatalogShape DEF default_voice_for_role, n, CatalogInv
  <1>3. CASE ~(n <= Len(catalog))
    BY <1>1, <1>3, CatalogShape DEF default_voice_for_role, n, CatalogInv
  <1> QED BY <1>2, <1>3

\* default_voice_for(role, language): some row's voice, of the language if any is.
LEMMA LanguageDefault ==
    ASSUME CatalogInv, NEW role \in Roles, NEW language
    PROVE  \E i \in DOMAIN catalog :
             /\ default_voice_for(role, language) = catalog[i].id
             /\ (\E j \in DOMAIN catalog : catalog[j].language = language)
                   => catalog[i].language = language
  <1> DEFINE rows == {i \in DOMAIN catalog : catalog[i].language = language}
             first == CHOOSE i \in rows : \A j \in rows : i <= j
  <1>1. CASE rows = {}
    <2>1. default_voice_for(role, language) = default_voice_for_role(role)
      BY <1>1 DEF default_voice_for
    <2> QED BY <1>1, <2>1, RoleDefault
  <1>2. CASE rows # {}
    <2>1. rows \in SUBSET Nat
      BY CatalogShape
    <2> HIDE DEF rows
    <2>2. \E i \in rows : \A j \in rows : i <= j
      BY <1>2, <2>1, LeastOf
    <2>3. first \in rows
      BY <2>2
    <2>4. default_voice_for(role, language) = catalog[first].id
      BY <1>2 DEF default_voice_for, rows
    <2> HIDE DEF first
    <2> QED BY <2>3, <2>4 DEF rows
  <1> QED BY <1>1, <1>2

\* A voice of the catalog speaks the language of each of its rows.
LEMMA LanguageOfRow ==
    ASSUME CatalogInv, NEW i \in DOMAIN catalog
    PROVE  voice_language(catalog[i].id) = catalog[i].language
  <1> DEFINE v == CHOOSE v \in ToSet(catalog) : v.id = catalog[i].id
  <1>1. catalog[i] \in ToSet(catalog)
    BY DEF ToSet
  <1>2. v \in ToSet(catalog) /\ v.id = catalog[i].id
    BY <1>1
  <1>3. voice_language(catalog[i].id) = v.language
    BY CatalogShape DEF voice_language
  <1> HIDE DEF v
  <1>4. PICK j \in DOMAIN catalog : catalog[j] = v
    BY <1>2 DEF ToSet
  <1>5. catalog[j].language = catalog[i].language
    BY <1>2, <1>4 DEF CatalogInv, VoiceList
  <1> QED BY <1>3, <1>4, <1>5

LEMMA VoiceForRole ==
    ASSUME CatalogInv, NEW role \in Roles
    PROVE  /\ voice_for_role(cfg, role) \in voice_ids
           /\ (\E i \in DOMAIN catalog : catalog[i].language = atc_language(cfg))
                 => voice_language(voice_for_role(cfg, role)) = atc_language(cfg)
  <1> DEFINE l == atc_language(cfg)
  <1> HIDE DEF l
  <1>1. PICK i \in DOMAIN catalog :
             /\ default_voice_for(role, l) = catalog[i].id
             /\ (\E j \in DOMAIN catalog : catalog[j].language = l) => catalog[i].language = l
    BY LanguageDefault
  <1>2. /\ default_voice_for(role, l) \in voice_ids
        /\ voice_language(default_voice_for(role, l)) = catalog[i].language
    BY <1>1, CatalogShape, LanguageOfRow
  <1>3. CASE voice_for_role(cfg, role) = default_voice_for(role, l)
    BY <1>1, <1>2, <1>3 DEF l
  <1>4. CASE /\ cfg.voices[role] \in voice_ids /\ voice_language(cfg.voices[role]) = l
             /\ voice_for_role(cfg, role) = cfg.voices[role]
    BY <1>4 DEF l
  <1> QED BY <1>3, <1>4 DEF voice_for_role, l

\* Whatever was stored, by whatever version and under whatever catalog, every role is
\* given a voice of the catalog, one that speaks the language of the replies whenever
\* the catalog has one (voice_for_role).
THEOREM EveryRoleHasAVoice == SettingsSpec => []VoiceFitsLanguage
  <1>1. SettingsInit => CatalogInv
    <2> SUFFICES ASSUME SettingsInit PROVE CatalogInv
      OBVIOUS
    <2>1. PICK c \in Catalogs : catalog = parse_piper_voices(c)
      BY DEF SettingsInit
    <2>2. VoiceList(BuiltIn) /\ BuiltIn # <<>>
      <3>1. DOMAIN BuiltIn = 1 .. 2 /\ BuiltIn # <<>>
        BY DEF BuiltIn
      <3>2. BuiltIn[1].id = "thorsten" /\ BuiltIn[2].id = "alan"
        BY DEF BuiltIn
      <3>3. \A T : \A r1, r2 \in T : <<r1, r2>> \in Seq(T)
        OBVIOUS
      <3>4. BuiltIn = <<BuiltIn[1], BuiltIn[2]>> /\ {BuiltIn[1], BuiltIn[2]} \subseteq ToSet(BuiltIn)
        BY <3>1 DEF BuiltIn, ToSet
      <3>5. BuiltIn \in Seq(ToSet(BuiltIn))
        BY <3>3, <3>4
      <3> QED BY <3>1, <3>2, <3>5 DEF VoiceList
    <2> QED BY <2>1, <2>2, SettingsAssumption DEF CatalogInv, parse_piper_voices
  <1>2. CatalogInv /\ [SettingsNext]_settings_vars => CatalogInv'
    <2> SUFFICES ASSUME CatalogInv, [SettingsNext]_settings_vars PROVE catalog' = catalog
      BY DEF CatalogInv, VoiceList
    <2> QED BY DEF SettingsNext, settings_vars, Start, SaveWrites, Ends, set_atc_language,
              set_ui_language, set_mistral_models, set_voice_for_role, set_backend_mode,
              SetToggle, SaveSettings, Set, save_api_key, delete_api_key
  <1>3. CatalogInv => VoiceFitsLanguage
    BY VoiceForRole DEF VoiceFitsLanguage
  <1> QED BY <1>1, <1>2, <1>3, PTL DEF SettingsSpec

(***************************************************************************)
(* The keys.                                                               *)
(***************************************************************************)

Flags(c) == {p \in Providers : c.saved[p]}

\* Memory and any file that would load say of no provider that its key is saved
\* unless it is, or its overwriting failed.
FlagsInv ==
    /\ SettingsObject(cfg)
    /\ DOMAIN file = {"kind", "has_ui", "legacy", "cfg"} /\ SettingsObject(file.cfg)
    /\ Flags(cfg) \subseteq keychain \cup excused
    /\ file.kind = "json" => Flags(file.cfg) \subseteq keychain \cup excused

\* What a fresh installation starts with.
LEMMA DefaultObject == SettingsObject(default_config) /\ Flags(default_config) = {}
  <1>1. DOMAIN default_config = {"language", "profile", "ui", "mode", "override", "stt", "lm",
                                 "saved", "voices", "toggles"}
    BY DEF default_config
  <1>2. default_config.saved = [p \in Providers |-> FALSE]
    BY DEF default_config
  <1> QED BY <1>1, <1>2 DEF SettingsObject, Flags

\* The keys init() migrates are not the flags.
LEMMA MigratedObject ==
    ASSUME NEW f, SettingsObject(f.cfg)
    PROVE  SettingsObject(Migrated(f)) /\ Flags(Migrated(f)) = Flags(f.cfg)
  <1>1. DOMAIN Migrated(f) = DOMAIN f.cfg
    BY DEF Migrated
  <1>2. Migrated(f).saved = f.cfg.saved
    BY DEF Migrated, SettingsObject
  <1> QED BY <1>1, <1>2 DEF SettingsObject, Flags

\* save() leaves a file that will not load until it is written out.
LEMMA SaveTears ==
    ASSUME save, DOMAIN file = {"kind", "has_ui", "legacy", "cfg"}
    PROVE  DOMAIN file' = DOMAIN file /\ file'.kind = "torn" /\ file'.cfg = file.cfg
  BY DEF save

\* A save of settings whose flags are honest.
LEMMA SaveKeepsFlags ==
    ASSUME FlagsInv, save, SettingsObject(cfg)', Flags(cfg)' \subseteq keychain' \cup excused'
    PROVE  FlagsInv'
  <1>1. DOMAIN file' = {"kind", "has_ui", "legacy", "cfg"} /\ file'.kind # "json" /\ file'.cfg = file.cfg
    BY SaveTears DEF FlagsInv
  <1>2. SettingsObject(file.cfg)'
    BY <1>1 DEF FlagsInv, SettingsObject
  <1> QED BY <1>1, <1>2 DEF FlagsInv

\* A setting other than a flag.
LEMMA OtherKey ==
    ASSUME FlagsInv, save, DOMAIN cfg' = DOMAIN cfg, cfg'.saved = cfg.saved,
           UNCHANGED <<keychain, excused>>
    PROVE  FlagsInv'
  <1>1. SettingsObject(cfg)' /\ Flags(cfg)' = Flags(cfg)
    BY DEF FlagsInv, SettingsObject, Flags
  <1> QED BY <1>1, SaveKeepsFlags DEF FlagsInv

LEMMA FlagsNext == FlagsInv /\ [SettingsNext]_settings_vars => FlagsInv'
  <1> SUFFICES ASSUME FlagsInv, [SettingsNext]_settings_vars PROVE FlagsInv'
    OBVIOUS
  <1>0. ASSUME UNCHANGED <<cfg, file>>, keychain \cup excused \subseteq keychain' \cup excused'
        PROVE  FlagsInv'
    BY <1>0 DEF FlagsInv, SettingsObject, Flags
  <1>1. CASE Start
    <2>1. cfg' = Loads(file) /\ UNCHANGED <<keychain, excused>>
      BY <1>1 DEF Start
    <2>2. SettingsObject(Loads(file)) /\ Flags(Loads(file)) \subseteq keychain \cup excused
      BY DefaultObject, MigratedObject DEF Loads, FlagsInv
    <2>3. SettingsObject(cfg)' /\ Flags(cfg)' \subseteq keychain' \cup excused'
      BY <2>1, <2>2 DEF SettingsObject, Flags
    <2>4. CASE save
      BY <2>3, <2>4, SaveKeepsFlags
    <2>5. CASE UNCHANGED file
      BY <2>1, <2>3, <2>5 DEF FlagsInv, SettingsObject, Flags
    <2> QED BY <1>1, <2>4, <2>5 DEF Start
  <1>2. CASE SaveWrites
    <2>1. file' = Written(cfg) /\ UNCHANGED <<cfg, keychain, excused>>
      BY <1>2 DEF SaveWrites
    <2>2. DOMAIN file' = {"kind", "has_ui", "legacy", "cfg"} /\ file'.cfg = cfg
      BY <2>1 DEF Written
    <2> QED BY <2>1, <2>2 DEF FlagsInv, SettingsObject, Flags
  <1>3. CASE Ends \/ UNCHANGED settings_vars
    BY <1>0, <1>3 DEF Ends, settings_vars
  <1>4. ASSUME NEW c, Set(c), DOMAIN c = DOMAIN cfg, c.saved = cfg.saved PROVE FlagsInv'
    BY <1>4, OtherKey DEF Set
  <1>5. CASE set_atc_language \/ set_ui_language \/ set_mistral_models \/ SaveSettings
    <2>1. "saved" \in DOMAIN cfg
      BY DEF FlagsInv, SettingsObject
    <2>2. CASE set_atc_language
      <3>1. PICK l : Set([cfg EXCEPT !.language = l, !.profile = Profile(l)])
        BY <2>2 DEF set_atc_language
      <3> QED BY <1>4, <2>1, <3>1
    <2>3. CASE set_ui_language
      <3>1. PICK l : Set([cfg EXCEPT !.ui = l])
        BY <2>3 DEF set_ui_language
      <3> QED BY <1>4, <2>1, <3>1
    <2>4. CASE set_mistral_models
      <3>1. PICK s : Set([cfg EXCEPT !.stt = s]) \/ Set([cfg EXCEPT !.lm = s])
        BY <2>4 DEF set_mistral_models
      <3> QED BY <1>4, <2>1, <3>1
    <2> QED BY <1>4, <1>5, <2>2, <2>3, <2>4 DEF SaveSettings
  <1>6. CASE set_voice_for_role
    <2>1. PICK r, v : Set([cfg EXCEPT !.voices[r] = v])
      BY <1>6 DEF set_voice_for_role
    <2>2. "saved" \in DOMAIN cfg
      BY DEF FlagsInv, SettingsObject
    <2> QED BY <1>4, <2>1, <2>2
  <1>7. CASE set_backend_mode \/ SetToggle
    <2>1. DOMAIN cfg' = DOMAIN cfg /\ cfg'.saved = cfg.saved /\ UNCHANGED <<keychain, excused>>
      BY <1>7 DEF set_backend_mode, SetToggle, FlagsInv, SettingsObject
    <2>2. CASE save
      BY <2>1, <2>2, OtherKey
    <2>3. CASE UNCHANGED file
      BY <2>1, <2>3 DEF FlagsInv, SettingsObject, Flags
    <2> QED BY <1>7, <2>2, <2>3 DEF set_backend_mode, SetToggle
  <1>8. ASSUME NEW p \in Providers, save_api_key(p) PROVE FlagsInv'
    <2>1. CASE KeySaved(p)
      <3>1. /\ save /\ cfg' = [cfg EXCEPT !.saved[p] = TRUE]
            /\ keychain' = keychain \cup {p} /\ excused' = excused \ {p}
        BY <2>1 DEF KeySaved
      <3>2. DOMAIN cfg' = DOMAIN cfg /\ cfg'.saved = [cfg.saved EXCEPT ![p] = TRUE]
        BY <3>1 DEF FlagsInv, SettingsObject
      <3>3. SettingsObject(cfg)' /\ Flags(cfg)' \subseteq Flags(cfg) \cup {p}
        BY <3>2 DEF FlagsInv, SettingsObject, Flags
      <3>4. Flags(cfg) \cup {p} \subseteq keychain' \cup excused'
        BY <3>1 DEF FlagsInv
      <3> QED BY <3>1, <3>3, <3>4, SaveKeepsFlags
    <2>2. CASE KeyLost(p)
      BY <1>0, <2>2 DEF KeyLost
    <2> QED BY <1>8, <2>1, <2>2 DEF save_api_key
  <1>9. ASSUME NEW p \in Providers, delete_api_key(p) PROVE FlagsInv'
    <2>1. /\ save /\ cfg' = [cfg EXCEPT !.saved[p] = FALSE]
          /\ keychain \ {p} \subseteq keychain' /\ excused' = excused
      BY <1>9 DEF delete_api_key
    <2>2. DOMAIN cfg' = DOMAIN cfg /\ cfg'.saved = [cfg.saved EXCEPT ![p] = FALSE]
      BY <2>1 DEF FlagsInv, SettingsObject
    <2>3. SettingsObject(cfg)' /\ Flags(cfg)' = Flags(cfg) \ {p}
      BY <2>2 DEF FlagsInv, SettingsObject, Flags
    <2>4. Flags(cfg) \ {p} \subseteq keychain' \cup excused'
      BY <2>1 DEF FlagsInv
    <2> QED BY <2>1, <2>3, <2>4, SaveKeepsFlags
  <1> QED BY <1>1, <1>2, <1>3, <1>5, <1>6, <1>7, <1>8, <1>9 DEF SettingsNext

\* The "key saved" flag of a running plugin is never true without a key in the
\* keychain, across restarts, torn files, migrations and refused deletions, unless an
\* overwrite failed after the old key was deleted (save_api_key, delete_api_key).
THEOREM KeyFlagsAreHonest == SettingsSpec => []FlagHonest
  <1>1. SettingsInit => FlagsInv
    <2> SUFFICES ASSUME SettingsInit PROVE FlagsInv
      OBVIOUS
    <2>1. DOMAIN file = {"kind", "has_ui", "legacy", "cfg"} /\ SettingsObject(file.cfg)
      BY SettingsAssumption DEF SettingsInit
    <2>2. cfg = default_config /\ keychain = Flags(file.cfg)
      BY DEF SettingsInit, Flags
    <2> QED BY <2>1, <2>2, DefaultObject DEF FlagsInv
  <1>2. FlagsInv => FlagHonest
    BY DEF FlagsInv, Flags, FlagHonest
  <1> QED BY <1>1, <1>2, FlagsNext, PTL DEF SettingsSpec

(***************************************************************************)
(* The logbook.                                                            *)
(***************************************************************************)

\* The probe ends: among one more name than there are files, one is free.
LEMMA SomeNameFree ==
    ASSUME IsFiniteSet(DOMAIN disk), NEW stamp, NEW part
    PROVE  /\ Cardinality(DOMAIN disk) \in Nat
           /\ \E n \in 1 .. Cardinality(DOMAIN disk) + 1 : <<stamp, part, n>> \notin DOMAIN disk
  <1> DEFINE c == Cardinality(DOMAIN disk)
             names == [n \in 1 .. c + 1 |-> <<stamp, part, n>>]
  <1>1. c \in Nat
    BY FS_CardinalityType
  <1> HIDE DEF c
  <1>2. IsFiniteSet(1 .. c + 1) /\ Cardinality(1 .. c + 1) = c + 1
    BY <1>1, FS_Interval
  <1>3. ASSUME \A n \in 1 .. c + 1 : <<stamp, part, n>> \in DOMAIN disk PROVE FALSE
    <2>1. names \in [1 .. c + 1 -> DOMAIN disk] /\ c < Cardinality(1 .. c + 1)
      BY <1>1, <1>2, <1>3
    <2> HIDE DEF names
    <2>2. PICK x, y \in 1 .. c + 1 : x # y /\ names[x] = names[y]
      BY <1>2, <2>1, FS_PigeonHole DEF c
    <2> QED BY <2>2 DEF names
  <1> QED BY <1>1, <1>3 DEF c

\* pick_flight_path returns the name it was told to ignore or one that is free.
LEMMA PickedIsFree ==
    ASSUME IsFiniteSet(DOMAIN disk), NEW stamp, NEW part, NEW ignore
    PROVE  LET path == pick_flight_path(stamp, part, ignore)
           IN  /\ path = ignore \/ path \notin DOMAIN disk
               /\ path # <<>>
  <1> DEFINE N == 1 .. Cardinality(DOMAIN disk) + 1
             Free(n) == <<stamp, part, n>> = ignore \/ ~file_exists(<<stamp, part, n>>)
             First(n) == Free(n) /\ \A k \in 1 .. n - 1 : ~Free(k)
             free == {n \in N : Free(n)}
             m == CHOOSE n \in N : First(n)
  <1>1. free \in SUBSET Nat /\ free # {}
    BY SomeNameFree DEF file_exists
  <1>2. PICK n \in free : \A k \in free : n <= k
    BY <1>1, LeastOf
  <1>3. \A k \in 1 .. n - 1 : k \in N /\ ~(n <= k)
    BY SomeNameFree
  <1>4. n \in N /\ First(n)
    BY <1>2, <1>3
  <1>5. Free(m)
    BY <1>4
  <1>6. pick_flight_path(stamp, part, ignore) = <<stamp, part, m>>
    BY DEF pick_flight_path
  <1>7. <<stamp, part, m>> # <<>>
    OBVIOUS
  <1> QED BY <1>5, <1>6, <1>7 DEF file_exists

Outcomes == {entry_to_json(e) : e \in Entries}

\* A document whose summary counts its transmissions.
Document(d) ==
    /\ DOMAIN d = {"flight", "destination", "missing", "summary", "transmissions"}
    /\ d.flight \in Nat
    /\ d.transmissions \in Seq(Outcomes)
    /\ d.summary.transmissions = Len(d.transmissions)

LogTypes ==
    /\ IsFiniteSet(DOMAIN disk) /\ flights \in Nat
    /\ failed \in BOOLEAN /\ g_flight_open \in BOOLEAN
    /\ Document(g_flight)
    /\ \A p \in DOMAIN disk : Document(disk[p]) /\ disk[p].flight <= flights

\* The open flight is the youngest.  A file under its name is an earlier state of it;
\* while no file operation of it was refused there is no other file of it; and
\* between two transmissions the file is the flight.
FlightInv ==
    g_flight_open =>
        /\ g_flight.flight = flights
        /\ g_flight_path \in DOMAIN disk =>
             /\ disk[g_flight_path].flight = flights
             /\ Len(disk[g_flight_path].transmissions) <= Len(g_flight.transmissions)
        /\ ~failed => \A p \in DOMAIN disk \ {g_flight_path} : disk[p].flight # flights
        /\ ~failed /\ writing = "out" =>
             g_flight_path \in DOMAIN disk /\ disk[g_flight_path] = g_flight

LogInv == LogTypes /\ FlightInv /\ (~g_flight_open => writing = "out")

\* The document write() puts in memory.
LEMMA LongerDocument ==
    ASSUME NEW d, Document(d), NEW e \in Entries, NEW log, NEW new,
           log = Append(d.transmissions, entry_to_json(e)),
           DOMAIN new = DOMAIN d, new.flight = d.flight, new.transmissions = log,
           new.summary = compute_summary(log)
    PROVE  Document(new) /\ Len(new.transmissions) = Len(d.transmissions) + 1
  <1>1. entry_to_json(e) \in Outcomes /\ d.transmissions \in Seq(Outcomes) /\ d.flight \in Nat
    BY DEF Outcomes, Document
  <1>2. log \in Seq(Outcomes) /\ Len(log) = Len(d.transmissions) + 1
    BY <1>1
  <1>3. compute_summary(log).transmissions = Len(log)
    BY DEF compute_summary
  <1> QED BY <1>1, <1>2, <1>3 DEF Document

LEMMA FirstDocument ==
    ASSUME NEW n \in Nat
    PROVE  Document(NewDocument(n)) /\ NewDocument(n).flight = n
  <1>1. /\ DOMAIN NewDocument(n) = {"flight", "destination", "missing", "summary", "transmissions"}
        /\ NewDocument(n).flight = n /\ NewDocument(n).transmissions = <<>>
        /\ NewDocument(n).summary = compute_summary(<<>>)
    BY DEF NewDocument
  <1>2. compute_summary(<<>>).transmissions = Len(<<>>)
    BY DEF compute_summary
  <1> QED BY <1>1, <1>2 DEF Document

\* What write() does to the open flight and its name, before rename_flight_file.
LEMMA WriteFacts ==
    ASSUME LogInv, NEW e \in Entries, write(e)
    PROVE  \E from, to, before :
             /\ rename_flight_file(from, to, before) /\ g_flight_path' = to
             /\ to = from \/ to \notin DOMAIN disk
             /\ Document(g_flight)' /\ flights' = g_flight'.flight
             /\ \/ flights' = flights + 1 /\ from \notin DOMAIN disk /\ before = FALSE
                \/ /\ flights' = flights /\ g_flight_open /\ from = g_flight_path
                   /\ before = failed
                   /\ Len(g_flight'.transmissions) = Len(g_flight.transmissions) + 1
  <1> DEFINE f == Opened(e)
             new == NewDestination(f, e)
             dest == IF new THEN sanitize_airport(e.airport) ELSE f.dest
             to == IF new THEN pick_flight_path(f.stamp, AirportPart(f.dep, dest), f.path) ELSE f.path
             before == failed /\ ~NeedNew(e)
             saw == f.saw \/ is_any_initial_call(e)
             ctrl == IF f.airborne THEN f.ctrl ELSE f.ctrl \/ e.controlled
             log == Append(f.doc.transmissions, entry_to_json(e))
  <1>1. /\ rename_flight_file(f.path, to, before) /\ g_flight_path' = to
        /\ g_flight' = [f.doc EXCEPT !.missing = Missing(f, saw, ctrl, e), !.destination = dest,
                                     !.transmissions = log, !.summary = compute_summary(log)]
        /\ flights' = f.doc.flight
    BY DEF write
  <1>2. to = f.path \/ to \notin DOMAIN disk
    BY PickedIsFree DEF LogInv, LogTypes
  <1>3. ASSUME Document(f.doc)
        PROVE  /\ Document(g_flight') /\ g_flight'.flight = f.doc.flight
               /\ Len(g_flight'.transmissions) = Len(f.doc.transmissions) + 1
    <2> DEFINE missing == Missing(f, saw, ctrl, e)
    <2>1. g_flight' = [f.doc EXCEPT !.missing = missing, !.destination = dest,
                                    !.transmissions = log, !.summary = compute_summary(log)]
      BY <1>1
    <2> HIDE DEF missing, dest, f
    <2>2. log = Append(f.doc.transmissions, entry_to_json(e))
      OBVIOUS
    <2> HIDE DEF log
    <2>3. /\ DOMAIN g_flight' = DOMAIN f.doc /\ g_flight'.flight = f.doc.flight
          /\ g_flight'.transmissions = log /\ g_flight'.summary = compute_summary(log)
      BY <1>3, <2>1 DEF Document
    <2> DEFINE d == f.doc
               n == g_flight'
    <2>4. /\ Document(d) /\ log = Append(d.transmissions, entry_to_json(e))
          /\ DOMAIN n = DOMAIN d /\ n.flight = d.flight /\ n.transmissions = log
          /\ n.summary = compute_summary(log)
      BY <1>3, <2>2, <2>3
    <2> HIDE DEF d, n
    <2>5. Document(n) /\ Len(n.transmissions) = Len(d.transmissions) + 1
      BY <2>4, LongerDocument
    <2> QED BY <2>4, <2>5 DEF d, n
  <1>4. ASSUME Document(g_flight') PROVE Document(g_flight)'
    BY <1>4 DEF Document
  <1>5. CASE NeedNew(e)
    <2>1. /\ f.doc = NewDocument(flights + 1)
          /\ f.path = pick_flight_path(minute, AirportPart(sanitize_airport(e.airport), NoField), <<>>)
      BY <1>5 DEF Opened
    <2>2. Document(f.doc) /\ f.doc.flight = flights + 1
      BY <2>1, FirstDocument DEF LogInv, LogTypes
    <2>3. f.path \notin DOMAIN disk /\ before = FALSE
      BY <1>5, <2>1, PickedIsFree DEF LogInv, LogTypes
    <2>4. Document(g_flight)' /\ flights' = flights + 1 /\ flights' = g_flight'.flight
      BY <1>1, <1>3, <1>4, <2>2
    <2> HIDE DEF f, to, before
    <2> QED BY <1>1, <1>2, <2>3, <2>4
  <1>6. CASE ~NeedNew(e)
    <2>1. f.doc = g_flight /\ f.path = g_flight_path /\ g_flight_open /\ before = failed
      BY <1>6 DEF Opened, NeedNew, LogInv, LogTypes
    <2>2. Document(f.doc) /\ g_flight.flight = flights
      BY <2>1 DEF LogInv, LogTypes, FlightInv
    <2>3. /\ Document(g_flight)' /\ flights' = flights /\ flights' = g_flight'.flight
          /\ Len(g_flight'.transmissions) = Len(g_flight.transmissions) + 1
      BY <1>1, <1>3, <1>4, <2>1, <2>2
    <2> HIDE DEF f, to, before
    <2> QED BY <1>1, <1>2, <2>1, <2>3
  <1> QED BY <1>5, <1>6

\* write() up to flush_flight: no file is lost, and the invariant holds of the flight
\* with its new transmission.
LEMMA WriteKeepsLog ==
    ASSUME LogInv, NEW e \in Entries, write(e)
    PROVE  /\ LogInv'
           /\ \A p \in DOMAIN disk : \E q \in DOMAIN disk' : disk'[q] = disk[p]
  <1>0. LogTypes /\ FlightInv
    BY DEF LogInv
  <1>1. PICK from, to, before :
             /\ rename_flight_file(from, to, before) /\ g_flight_path' = to
             /\ to = from \/ to \notin DOMAIN disk
             /\ Document(g_flight)' /\ flights' = g_flight'.flight
             /\ \/ flights' = flights + 1 /\ from \notin DOMAIN disk /\ before = FALSE
                \/ /\ flights' = flights /\ g_flight_open /\ from = g_flight_path
                   /\ before = failed
                   /\ Len(g_flight'.transmissions) = Len(g_flight.transmissions) + 1
    BY WriteFacts
  <1>2. writing' = "flush" /\ g_flight_open' = TRUE
    BY DEF write
  <1>3. flights' \in Nat /\ flights <= flights' /\ before \in BOOLEAN
    <2>1. flights \in Nat /\ failed \in BOOLEAN /\ flights' \in {flights, flights + 1}
      BY <1>0, <1>1 DEF LogTypes
    <2>2. before = FALSE \/ before = failed
      BY <1>1
    <2>3. before \in BOOLEAN
      BY <2>1, <2>2, Zenon
    <2> QED BY <2>1, <2>3
  <1>4. ASSUME \A p \in DOMAIN disk' : \E q \in DOMAIN disk : disk'[p] = disk[q],
               IsFiniteSet(DOMAIN disk'), failed' \in BOOLEAN
        PROVE  LogTypes'
    <2>1. \A p \in DOMAIN disk' : Document(disk'[p]) /\ disk'[p].flight <= flights'
      BY <1>0, <1>3, <1>4 DEF LogTypes, Document
    <2>2. \A p \in DOMAIN disk' : Document(disk[p])'
      BY <2>1 DEF Document
    <2> QED BY <1>1, <1>2, <1>3, <1>4, <2>1 DEF LogTypes, Document
  <1>5. \A p \in DOMAIN disk : disk[p].flight # flights + 1
    BY <1>0 DEF LogTypes, Document
  <1>6. CASE disk' = disk /\ failed' \in BOOLEAN /\ (to = from \/ from \notin DOMAIN disk \/ failed')
             /\ (~failed' => ~before)
    <2>1. LogTypes'
      BY <1>0, <1>4, <1>6 DEF LogTypes
    <2>2. FlightInv'
      <3>1. CASE flights' = flights + 1 /\ from \notin DOMAIN disk
        BY <1>1, <1>2, <1>5, <1>6, <3>1 DEF FlightInv
      <3>2. CASE /\ flights' = flights /\ g_flight_open /\ from = g_flight_path
                 /\ before = failed
                 /\ Len(g_flight'.transmissions) = Len(g_flight.transmissions) + 1
        <4>1. to \in DOMAIN disk =>
                 /\ disk[to].flight = flights
                 /\ Len(disk[to].transmissions) <= Len(g_flight'.transmissions)
          BY <1>0, <1>1, <3>2 DEF FlightInv, LogTypes, Document
        <4>2. ~failed' => \A p \in DOMAIN disk \ {to} : disk[p].flight # flights
          BY <1>0, <1>1, <1>6, <3>2 DEF FlightInv
        <4> QED BY <1>1, <1>2, <1>6, <3>2, <4>1, <4>2 DEF FlightInv
      <3> QED BY <1>1, <3>1, <3>2
    <2> QED BY <1>2, <1>6, <2>1, <2>2 DEF LogInv
  <1>7. CASE from # to /\ file_exists(from) /\ disk' = Renamed(from, to) /\ failed' = before
    <2>1. /\ flights' = flights /\ g_flight_open /\ from = g_flight_path /\ from \in DOMAIN disk
          /\ before = failed /\ to \notin DOMAIN disk
          /\ Len(g_flight'.transmissions) = Len(g_flight.transmissions) + 1
      BY <1>1, <1>7 DEF file_exists
    <2>2. /\ DOMAIN disk' = (DOMAIN disk \ {from}) \cup {to} /\ disk'[to] = disk[from]
          /\ \A p \in DOMAIN disk \ {from} : disk'[p] = disk[p]
      BY <1>7, <2>1 DEF Renamed
    <2>3. IsFiniteSet(DOMAIN disk')
      <3>1. IsFiniteSet(DOMAIN disk \ {from})
        BY <1>0, FS_RemoveElement DEF LogTypes
      <3> QED BY <2>2, <3>1, FS_AddElement
    <2>4. LogTypes'
      BY <1>3, <1>4, <1>7, <2>1, <2>2, <2>3
    <2>5. FlightInv'
      <3>1. disk'[to].flight = flights /\ Len(disk'[to].transmissions) <= Len(g_flight'.transmissions)
        BY <1>0, <2>1, <2>2 DEF FlightInv, LogTypes, Document
      <3>2. ~failed' => \A p \in DOMAIN disk' \ {to} : disk'[p].flight # flights
        BY <1>0, <1>7, <2>1, <2>2 DEF FlightInv
      <3> QED BY <1>1, <1>2, <2>1, <2>2, <3>1, <3>2 DEF FlightInv
    <2> QED BY <1>2, <2>1, <2>2, <2>4, <2>5 DEF LogInv
  <1> QED BY <1>0, <1>1, <1>3, <1>6, <1>7 DEF rename_flight_file, CanRename, file_exists, LogTypes

\* The temporary file takes the flight's name.
LEMMA SwapKeepsLog ==
    ASSUME LogInv, FlushSwap
    PROVE  /\ LogInv'
           /\ \A p \in DOMAIN disk : \E q \in DOMAIN disk' :
                 /\ disk'[q].flight = disk[p].flight
                 /\ disk'[q].summary.transmissions >= disk[p].summary.transmissions
  <1>0. /\ LogTypes /\ FlightInv /\ g_flight_open
        /\ writing' = "out" /\ UNCHANGED <<g_flight_open, g_flight, g_flight_path, flights>>
    BY DEF LogInv, FlushSwap, memory
  <1>1. CASE disk' = disk /\ failed' = TRUE
    <2>1. LogInv'
      BY <1>0, <1>1 DEF LogInv, LogTypes, FlightInv, Document
    <2>2. \A p \in DOMAIN disk : disk[p].summary.transmissions \in Nat
      BY <1>0 DEF LogTypes, Document
    <2> QED BY <1>1, <2>1, <2>2
  <1>2. CASE /\ failed' = failed
             /\ disk' = [p \in DOMAIN disk \cup {g_flight_path} |->
                            IF p = g_flight_path THEN g_flight ELSE disk[p]]
    <2>1. /\ DOMAIN disk' = DOMAIN disk \cup {g_flight_path} /\ disk'[g_flight_path] = g_flight
          /\ \A p \in DOMAIN disk \ {g_flight_path} : disk'[p] = disk[p]
      BY <1>2
    <2>2. Document(g_flight) /\ g_flight.flight = flights /\ flights \in Nat
      BY <1>0 DEF LogTypes, FlightInv
    <2>3. IsFiniteSet(DOMAIN disk')
      BY <1>0, <2>1, FS_AddElement DEF LogTypes
    <2>4. LogTypes'
      BY <1>0, <1>2, <2>1, <2>2, <2>3 DEF LogTypes, Document
    <2>5. FlightInv'
      BY <1>0, <1>2, <2>1, <2>2 DEF FlightInv, Document
    <2>6. ASSUME NEW p \in DOMAIN disk
          PROVE  /\ p \in DOMAIN disk' /\ disk'[p].flight = disk[p].flight
                 /\ disk'[p].summary.transmissions >= disk[p].summary.transmissions
      <3>1. disk[p].summary.transmissions = Len(disk[p].transmissions) /\ Len(disk[p].transmissions) \in Nat
        BY <1>0, <2>6 DEF LogTypes, Document
      <3>2. g_flight.summary.transmissions = Len(g_flight.transmissions) /\ Len(g_flight.transmissions) \in Nat
        BY <2>2 DEF Document
      <3>3. CASE p = g_flight_path
        BY <1>0, <2>1, <2>2, <3>1, <3>2, <3>3 DEF FlightInv
      <3>4. CASE p # g_flight_path
        BY <2>1, <3>1, <3>4
      <3> QED BY <3>3, <3>4
    <2> QED BY <1>0, <2>4, <2>5, <2>6 DEF LogInv
  <1> QED BY <1>1, <1>2 DEF FlushSwap

LEMMA LogNextKeeps ==
    ASSUME LogInv, [LogNext]_log_vars
    PROVE  /\ LogInv'
           /\ \A p \in DOMAIN disk : \E q \in DOMAIN disk' :
                 /\ disk'[q].flight = disk[p].flight
                 /\ disk'[q].summary.transmissions >= disk[p].summary.transmissions
  <1>0. LogTypes /\ FlightInv
    BY DEF LogInv
  <1>1. \A p \in DOMAIN disk : disk[p].summary.transmissions \in Nat
    BY <1>0 DEF LogTypes, Document
  <1>2. CASE \E e \in Entries : write(e)
    BY <1>1, <1>2, WriteKeepsLog
  <1>3. CASE FlushSwap
    BY <1>3, SwapKeepsLog
  <1>4. CASE FlushTemporary \/ begin_new_flight \/ NextMinute \/ UNCHANGED log_vars
    <2>1. /\ UNCHANGED <<g_flight_open, g_flight, g_flight_path, flights, disk>>
          /\ \/ UNCHANGED <<writing, failed>>
             \/ writing = "flush" /\ writing' = "swap" /\ failed' = failed
             \/ writing = "flush" /\ writing' = "out" /\ failed' = TRUE
      BY <1>4 DEF FlushTemporary, begin_new_flight, NextMinute, log_vars, memory
    <2>2. LogTypes'
      BY <1>0, <2>1 DEF LogTypes, Document
    <2>3. FlightInv' /\ (~g_flight_open' => writing' = "out")
      BY <1>0, <2>1 DEF FlightInv, LogInv
    <2> QED BY <1>1, <2>1, <2>2, <2>3 DEF LogInv
  <1>5. CASE SimulatorRestarts
    <2>1. /\ g_flight_open' = FALSE /\ g_flight' = NewDocument(0) /\ writing' = "out"
          /\ failed' = FALSE /\ UNCHANGED <<disk, flights>>
      BY <1>5 DEF SimulatorRestarts
    <2>2. LogTypes'
      BY <1>0, <2>1, FirstDocument DEF LogTypes, Document
    <2> QED BY <1>1, <2>1, <2>2 DEF LogInv, FlightInv
  <1> QED BY <1>2, <1>3, <1>4, <1>5 DEF LogNext

LEMMA LogStarts == LogInit => LogInv
  <1> SUFFICES ASSUME LogInit PROVE LogInv
    OBVIOUS
  <1>1. /\ g_flight_open = FALSE /\ g_flight = NewDocument(0) /\ writing = "out"
        /\ failed = FALSE /\ DOMAIN disk = {} /\ flights = 0
    BY DEF LogInit
  <1>2. LogTypes
    <2>1. IsFiniteSet(DOMAIN disk)
      BY <1>1, FS_EmptySet
    <2>2. Document(g_flight)
      BY <1>1, FirstDocument
    <2> QED BY <1>1, <2>1, <2>2 DEF LogTypes
  <1> QED BY <1>1, <1>2 DEF LogInv, FlightInv

\* Between two transmissions the open flight's file is up to date under its current
\* name, and no copy under a former name is left behind, unless a file operation was
\* refused (write, rename_flight_file, flush_flight).
THEOREM LogIsComplete == LogSpec => []LogComplete
  <1>1. LogInv => LogComplete
    BY DEF LogInv, FlightInv, LogComplete, file_exists
  <1> QED BY <1>1, LogStarts, LogNextKeeps, PTL DEF LogSpec

\* No flight ever leaves the logbook or loses a transmission there: a second flight of
\* the same minute, a rename to the destination's name, a refused file operation or a
\* crash between two of them overwrite nobody's file (pick_flight_path, flush_flight).
THEOREM FlightsAreKept == LogSpec => NoFlightOverwritten
  <1>1. LogInv /\ [LogNext]_log_vars =>
          [\A p \in DOMAIN disk : \E q \in DOMAIN disk' :
              /\ disk'[q].flight = disk[p].flight
              /\ disk'[q].summary.transmissions >= disk[p].summary.transmissions]_log_vars
    BY LogNextKeeps
  <1> QED BY <1>1, LogStarts, LogNextKeeps, PTL DEF LogSpec, NoFlightOverwritten
=============================================================================
