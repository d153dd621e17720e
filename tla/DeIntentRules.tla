--------------------------- MODULE DeIntentRules ----------------------------
(***************************************************************************)
(* The German profile's src/data/atc_profiles/de/intent_rules.json as values*)
(* of the tables of IntentRules.  Of the synonyms a rule lists, those that  *)
(* occur in the vocabulary below are kept; confidences are in percent.     *)
(***************************************************************************)
EXTENDS IntentRules, TLC

Has(n) == [kind |-> "contains", value |-> n]
Starts(n) == [kind |-> "starts_with", value |-> n]
Ending(n) == [kind |-> "ends_with", value |-> n]
Calls(f) == [kind |-> "has_facility", value |-> f]
EndsWithRunway == [kind |-> "ends_with_runway_token"]
Nested(any, all, none) == [kind |-> "compound", any |-> any, all |-> all, none |-> none]
AllOf(a, b) == Nested(<<>>, <<a, b>>, <<>>)
AnyOf(ps) == Nested(ps, <<>>, <<>>)
R(intent, confidence, any, all, none) ==
    [intent |-> intent, confidence |-> confidence, any |-> any, all |-> all, none |-> none]
Says(intent, confidence, any) == R(intent, confidence, any, <<>>, <<>>)

Holding == AnyOf(<<Has("abflug"), Has("warteposition"), Has("rollhalt")>>)

DeRules == <<
    Says("INAPPROPRIATE_LANGUAGE", 99, <<Has("verdammte")>>),
    R("NEGATIVE_CORRECTION", 95, <<Starts("negativ"), Has(", negativ"), Has("ich meinte")>>, <<>>,
        <<Has("negativer kontakt"), Has("kein kontakt")>>),
    Says("UNABLE", 95, <<Has("nicht moeglich")>>),
    Says("RADIO_CHECK", 95, <<Has("funkprobe")>>),
    Says("REQUEST_REPEAT", 95, <<Has("wiederholen sie")>>),
    Says("GO_AROUND", 95, <<Has("durchstart"), Has("fehlanflug")>>),
    Says("RMZ_ENTER", 90, <<Has("rmz einfliegen")>>),
    Says("RMZ_LEAVE", 90, <<Has("verlasse rmz")>>),
    Says("LEAVING_FREQUENCY", 85,
        <<Has("verlasse ihre frequenz"),
          Nested(<<Has("frequenzwechsel")>>, <<>>, <<Has("erbitte"), Has("genehmigt")>>)>>),
    Says("TRAFFIC_IN_SIGHT", 92, <<Has("in sicht")>>),
    Says("TRAFFIC_NEGATIVE_CONTACT", 92, <<Has("negativer kontakt"), Has("kein kontakt"), Has("kein verkehr")>>),
    Says("SELF_ANNOUNCE", 90, <<Has("verkehr")>>),
    Says("READBACK", 90,
        <<Has("verstanden"), Has("qnh"), Has("landung frei"), Has("start frei"),
          AllOf(Has("rollen sie"), Has("ueber")), AllOf(Has("rollen sie"), Has("rollhalt")),
          AllOf(Has("freigegeben"), AnyOf(<<Has("start"), Has("landung")>>)),
          AllOf(Has("frequenzwechsel"), Has("genehmigt")), AllOf(Has("abflug"), Has("melden sie")),
          AllOf(AnyOf(<<Has("gegenanflug"), Has("queranflug"), Has("endanflug")>>), Has("melden sie")),
          Ending("links"), Ending("rechts"), Ending("mitte"), EndsWithRunway>>),
    R("READY_FOR_DEPARTURE_VFR", 92, <<>>, <<Has("bereit"), Holding, Has("nach")>>, <<>>),
    R("READY_FOR_DEPARTURE", 90, <<>>, <<Has("bereit"), Holding>>, <<>>),
    R("SELF_ANNOUNCE_DEPARTURE", 88, <<AllOf(Has("piste"), AnyOf(<<Has("starte"), Has("abflug")>>))>>, <<>>,
        <<Has("erbitte"), Has("rollen")>>),
    R("REQUEST_TOUCH_AND_GO", 90, <<Has("durchstartlandung"), Has("aufsetzen und durchstarten")>>, <<>>,
        <<Has("rollen")>>),
    Says("REQUEST_TAXI_PARKING", 90, <<Has("rollen zum vorfeld")>>),
    Says("RUNWAY_VACATED", 90,
        <<Nested(<<>>, <<Has("piste"), Has("frei")>>, <<Has("landung"), Has("start")>>),
          Nested(<<>>, <<Has("piste"), Has("verlassen")>>, <<Has("landung"), Has("start")>>)>>),
    R("REQUEST_TAXI", 90, <<Has("rollen")>>, <<>>,
        <<AllOf(Has("rollen sie"), Has("rollhalt")), AllOf(Has("rollen sie"), Has("ueber")),
          AllOf(Has("rollen"), Has("qnh"))>>),
    R("REPORT_POSITION_DOWNWIND", 90, <<>>, <<Has("gegenanflug")>>, <<Has("abflug"), Has("melden sie")>>),
    R("REPORT_POSITION_BASE", 90, <<>>, <<Has("queranflug")>>, <<Has("melden sie")>>),
    R("REPORT_POSITION_FINAL", 93, <<>>, <<Has("endanflug")>>, <<Has("voller halt"), Has("melden sie")>>),
    R("REQUEST_LANDING", 93, <<Has("zur landung"), Has("voller halt")>>, <<>>,
        <<Has("durchstartlandung"), Calls("tower"), Calls("turm"), Calls("information")>>),
    Says("REQUEST_FREQUENCY", 80, <<Has("erbitte frequenz")>>),
    Says("INITIAL_CALL_GROUND", 85, <<Calls("boden")>>),
    R("INITIAL_CALL_INBOUND", 85, <<Has("zur landung"), Has("voller halt")>>,
        <<AnyOf(<<Calls("turm"), Calls("information")>>)>>, <<>>),
    Says("INITIAL_CALL_TOWER", 85, <<Calls("turm")>>),
    Says("INITIAL_CALL_GROUND", 85, <<Calls("information")>>),
    Says("INITIAL_CALL", 80, <<Calls("boden"), Calls("turm")>>),
    Says("TRAFFIC_LOOKING", 70, <<Has("halte ausschau")>>)>>

Calling == {"INITIAL_CALL", "INITIAL_CALL_TOWER", "INITIAL_CALL_INBOUND"}

DeAdjustments == <<
    [Adjustment EXCEPT !.intents = {"INITIAL_CALL_INBOUND"}, !.vrp = {TRUE},
                       !.set_intent = "INITIAL_CALL_INBOUND_VRP"],
    [Adjustment EXCEPT !.airborne_only = {TRUE}, !.ground = {TRUE}, !.set_intent = "READBACK", !.set_confidence = 85],
    [Adjustment EXCEPT !.ground_only = {TRUE}, !.ground = {FALSE}, !.set_confidence = 30],
    [Adjustment EXCEPT !.intents = {"SELF_ANNOUNCE"}, !.towered = {TRUE}, !.set_confidence = 30],
    [Adjustment EXCEPT !.intents = Calling, !.towered = {FALSE}, !.text = "tower", !.set_confidence = 40],
    [Adjustment EXCEPT !.intents = Calling, !.towered = {FALSE}, !.text = "turm", !.set_confidence = 40],
    [Adjustment EXCEPT !.intents = {"REQUEST_TAXI"}, !.landed = {TRUE}, !.set_intent = "REQUEST_TAXI_PARKING"],
    [Adjustment EXCEPT !.intents = {"UNKNOWN"}, !.text = "vorfeld", !.landed = {TRUE},
                       !.set_intent = "READBACK", !.set_confidence = 90],
    [Adjustment EXCEPT !.intents = {"UNKNOWN"}, !.text = "parking", !.landed = {TRUE},
                       !.set_intent = "READBACK", !.set_confidence = 90],
    [Adjustment EXCEPT !.intents = {"UNKNOWN"}, !.text = "abstellpos", !.landed = {TRUE},
                       !.set_intent = "READBACK", !.set_confidence = 90],
    [Adjustment EXCEPT !.intents = {"READBACK"}, !.text = "landung frei", !.landed = {TRUE},
                       !.set_intent = "RUNWAY_VACATED"],
    [Adjustment EXCEPT !.intents = {"RUNWAY_VACATED"}, !.airborne = {FALSE}, !.pending = {TRUE},
                       !.set_intent = "READBACK"],
    [Adjustment EXCEPT !.intents = {"RUNWAY_VACATED"}, !.airborne = {FALSE}, !.pending = {FALSE},
                       !.set_confidence = 0]>>

\* No entry of the shipped table brings back a call that an earlier one ruled out.
ASSUME GermanTableChecked == CheckedTable(DeAdjustments)

DeNormalizations == [fahrfeld |-> "vorfeld", bisten |-> "piste"]

(***************************************************************************)
(* Vocabulary.                                                             *)
(***************************************************************************)

Bare(words) == [w \in words |-> {}]
DeNeedles ==
    Bare(DOMAIN GermanDigits \union DOMAIN EnglishNumbers \union DOMAIN RunwaySides \union Phonetic
         \union {GermanDigits[d] : d \in DOMAIN GermanDigits}
         \union {"runway", "no", "correction", "boden", "via", "richtung", "oscar", "fahrfeld", "bisten",
                 "kempten information"})
 @@ "tower" :> {"tower"} @@ "turm" :> {"turm"}
 @@ "kempten verkehr" :> {"verkehr"} @@ "verkehr in sicht" :> {"verkehr", "in sicht"}
 @@ "kein verkehr in sicht" :> {"kein verkehr", "verkehr", "in sicht"}
 @@ "negativ" :> {"negativ"} @@ "negative" :> {"negativ"} @@ "negativer kontakt" :> {"negativ", "negativer kontakt"}
 @@ "nicht moeglich" :> {"nicht moeglich"} @@ "funkprobe" :> {"funkprobe"} @@ "wiederholen sie" :> {"wiederholen sie"}
 @@ "verdammte" :> {"verdammte"} @@ "durchstart" :> {"durchstart", "start"}
 @@ "aufsetzen und durchstarten" :> {"aufsetzen und durchstarten", "durchstart", "start"}
 @@ "durchstartlandung" :> {"durchstartlandung", "durchstart", "start", "landung"}
 @@ "rmz einfliegen" :> {"rmz einfliegen"} @@ "verlasse rmz" :> {"verlasse rmz"}
 @@ "verlasse ihre frequenz" :> {"verlasse ihre frequenz"} @@ "frequenzwechsel" :> {"frequenzwechsel"}
 @@ "erbitte frequenzwechsel" :> {"erbitte", "erbitte frequenz", "frequenzwechsel"}
 @@ "verstanden" :> {"verstanden"} @@ "qnh" :> {"qnh"}
 @@ "landung frei" :> {"landung frei", "landung", "frei"} @@ "start frei" :> {"start frei", "start", "frei"}
 @@ "rollen sie" :> {"rollen sie", "rollen"} @@ "ueber" :> {"ueber"} @@ "rollhalt" :> {"rollhalt"}
 @@ "am rollhalt" :> {"rollhalt", "am rollhalt"}
 @@ "freigegeben" :> {"freigegeben", "frei"} @@ "melden sie" :> {"melden sie"}
 @@ "abflugbereit" :> {"abflug", "bereit"} @@ "nach" :> {"nach"}
 @@ "piste" :> {"piste"} @@ "starte" :> {"starte", "start"} @@ "frei" :> {"frei"} @@ "verlassen" :> {"verlassen"}
 @@ "rollen zum vorfeld" :> {"rollen zum vorfeld", "rollen", "vorfeld"} @@ "vorfeld" :> {"vorfeld"}
 @@ "erbitte rollen" :> {"erbitte", "rollen"} @@ "gegenanflug" :> {"gegenanflug"} @@ "queranflug" :> {"queranflug"}
 @@ "endanflug" :> {"endanflug"} @@ "zur landung" :> {"zur landung", "landung"}
 @@ "erbitte landung" :> {"erbitte", "landung"} @@ "halte ausschau" :> {"halte ausschau"}

DeFacilities ==
    [w \in DOMAIN DeNeedles |->
        CASE w = "tower" -> {"tower"} [] w = "turm" -> {"turm"} [] w = "boden" -> {"boden"}
          [] w = "kempten information" -> {"information"} [] OTHER -> {}]
=============================================================================
