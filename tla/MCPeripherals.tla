---------------------------- MODULE MCPeripherals ----------------------------
(***************************************************************************)
(* The parts at the edge of the plugin: sound devices, settings, logbook,  *)
(* the parser of the pilot's words and the check of readbacks.  They share *)
(* no state, so one behaviour exercises one of them ("subject") and the    *)
(* others stay where they start; their product would say nothing more.     *)
(***************************************************************************)
EXTENDS AudioDevices, Settings, FlightLog, DeIntentRules, EnIntentRules, ReadbackCheck

VARIABLE subject

Subjects == {"audio", "settings", "log", "radio", "readback"}

\* Transmissions of flights between two fields: calls on the ground and in the
\* air, a frequency without a field, a field that is not controlled.
MCEntries ==
    LET E(a, i, p, idle, c, o) ==
            [airport |-> a, intent |-> i, phase |-> p, idle |-> idle,
             controlled |-> c, outcome |-> o]
    IN  {E("EDNY", "departure", "ground", TRUE, TRUE, "classified"),
         E("EDNY", "other", "airborne", FALSE, TRUE, "unknown"),
         E("EDTM", "inbound", "airborne", FALSE, TRUE, "classified"),
         E("EDNY", "inbound", "airborne", FALSE, TRUE, "classified"),
         E("EDTM", "departure", "ground", TRUE, FALSE, "classified"),
         E("", "other", "ground", TRUE, FALSE, "unknown")}

\* Voice lists: none, as shipped, English only, two voices of a language.
MCCatalogs ==
    LET V(i, l) == [id |-> i, language |-> l]
    IN  {<<>>,
         <<V("alan", "en"), V("cori", "en")>>,
         <<V("thorsten", "de"), V("alan", "en"), V("kerstin", "de")>>}

\* No file yet; a torn one; files of earlier versions, with an unknown
\* language, the slugs of v3.0 and voices that may no longer be shipped.
MCOldFiles ==
    LET C(l, s, m, v, saved) ==
            [language |-> l, profile |-> "DE", ui |-> l, mode |-> "local",
             override |-> FALSE, stt |-> s, lm |-> m,
             saved |-> [p \in Providers |-> p = saved],
             voices |-> [r \in Roles |-> v], toggles |-> 0]
        F(k, ui, legacy, c) ==
            [kind |-> k, has_ui |-> ui, legacy |-> legacy, cfg |-> c]
    IN  {F("absent", TRUE, FALSE, C("de", "transcribe", "large", "", "")),
         F("torn", TRUE, FALSE, C("de", "transcribe", "large", "", "openai")),
         F("json", FALSE, TRUE, C("fr", "mini", "small-latest", "amy", "openai")),
         F("json", TRUE, FALSE, C("en", "small", "medium", "alan", "mistral"))}

\* D-EWLY, as spoken.
MCCallsign == <<"delta", "echo", "whiskey", "lima", "yankee">>

\* A call: the station, what is said, the callsign or a correction.
MCUtterances ==
    LET stations == {<<>>, <<"turm">>, <<"boden">>, <<"kempten information">>, <<"tower">> \o MCCallsign}
        cores == {<<w>> : w \in DOMAIN DeNeedles \ {"correction", "no", "runway", "via", "richtung"}}
            \union {
             <<"rollhalt", "piste", "zwo", "vier", "abflugbereit", "nach", "echo", "delta", "november", "yankee">>,
             <<"rollhalt", "runway", "twentysix", "abflugbereit">>,
             <<"piste", "null", "sechs", "rechts", "starte">>, <<"piste", "acht", "start frei">>,
             <<"bisten", "eins", "drei", "frei">>, <<"piste", "verlassen">>, <<"piste", "2", "4", "landung frei">>,
             <<"rollen sie", "rollhalt", "piste", "zwo", "vier">>, <<"rollen sie", "ueber", "alpha">>,
             <<"gegenanflug", "piste", "zwo", "vier">>, <<"gegenanflug", "melden sie">>,
             <<"ueber", "whiskey", "zur landung">>, <<"qnh", "eins", "null", "eins", "drei", "neun">>,
             <<"freigegeben", "landung frei">>, <<"fahrfeld", "ueber", "alpha">>,
             <<"via", "echo", "erbitte landung">>, <<"richtung", "echo", "delta", "mike">>}
        tails == {<<"delta", "lima", "yankee">>, <<"delta", "lima", "bravo">>, <<"correction", "erbitte rollen">>,
                  <<"no", "correction", "landung frei">>}
    IN  {s \o c : s \in stations, c \in cores} \union {c \o t : c \in cores, t \in tails}

MCCircumstances ==
    {c \in [ground : BOOLEAN, towered : BOOLEAN, pending : BOOLEAN, airborne : BOOLEAN, landed : BOOLEAN] :
        c.landed => c.ground}

\* D-EWLY and a registration that ends in a digit; runways with and without a
\* letter; a pressure that contains a runway's figures.
MCRegistrations == {MCCallsign, <<"delta", "echo", "alpha", "eins">>}
MCRunways == {<<"0", "6">>, <<"2", "4", "l">>, <<"0", "6", "c">>}
MCQnhs == {<<"1", "0", "0", "6">>, <<"9", "9", "8">>}

-----------------------------------------------------------------------------

Init ==
    /\ subject \in Subjects
    /\ AudioInit /\ SettingsInit /\ LogInit /\ ParserInit /\ ReadbackInit
    \* the starting points of a subsystem that will not move are all alike
    /\ subject # "audio" => joins /\ initialized
    /\ subject # "settings" =>
           /\ file.kind = "absent" /\ catalog = BuiltIn
    /\ subject # "log" => replaces
    /\ subject # "radio" => rules_loaded
    /\ subject # "readback" => strict

AudioStep ==
    /\ subject = "audio" /\ AudioNext
    /\ UNCHANGED <<subject, settings_vars, log_vars, parserVars, readbackVars>>

SettingsStep ==
    /\ subject = "settings" /\ SettingsNext
    /\ UNCHANGED <<subject, audio_vars, log_vars, parserVars, readbackVars>>

LogStep ==
    /\ subject = "log" /\ LogNext
    /\ UNCHANGED <<subject, audio_vars, settings_vars, parserVars, readbackVars>>

RadioStep ==
    /\ subject = "radio" /\ ParserNext
    /\ UNCHANGED <<subject, audio_vars, settings_vars, log_vars, readbackVars>>

ReadbackStep ==
    /\ subject = "readback" /\ ReadbackNext
    /\ UNCHANGED <<subject, audio_vars, settings_vars, log_vars, parserVars>>

Next == AudioStep \/ SettingsStep \/ LogStep \/ RadioStep \/ ReadbackStep

vars == <<subject, audio_vars, settings_vars, log_vars, parserVars, readbackVars>>

Spec == Init /\ [][Next]_vars

=============================================================================
