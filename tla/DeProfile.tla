----------------------------- MODULE DeProfile -----------------------------
(***************************************************************************)
(* The German profile: src/data/atc_profiles/de/atc_templates.json and     *)
(* flight_rules.json, as values for the tables of AtcStateMachine.  The    *)
(* English profile has the same structure and other texts.                 *)
(***************************************************************************)
EXTENDS AtcStateMachine, TLC

Cs == {"Callsign"}
CsRwy == {"Callsign", "Runway"}
CsFreq == {"Callsign", "Frequency"}
CsRwyQnh == {"Callsign", "Runway", "QNH"}

\* A template that only tells, one that demands a readback, an empty one.
Tell(next, issued) ==
    [next |-> next, readback |-> FALSE, said |-> TRUE, issued |-> issued]
Clear(next, issued) ==
    [next |-> next, readback |-> TRUE, said |-> TRUE, issued |-> issued]
Silent(next) ==
    [next |-> next, readback |-> FALSE, said |-> FALSE, issued |-> {}]

\* Every intent of set is to act like e.
Each(set, e) == [i \in set |-> e]

Idle ==
    "INITIAL_CALL_GROUND" :> Tell("GROUND_CONTACT", CsRwyQnh)
 @@ "INITIAL_CALL_TOWER" :> Tell("TOWER_CONTACT", Cs)
 @@ Each({"INITIAL_CALL_INBOUND", "INITIAL_CALL_INBOUND_VRP"},
         Clear("PATTERN_ENTRY", CsRwy))
 @@ "REQUEST_TAXI" :> Clear("TAXI_CLEARED", CsRwyQnh)
 @@ "REQUEST_TAXI_PARKING" :> Clear("IDLE", Cs)
 @@ "READBACK" :> Silent("IDLE")
 @@ Each({"READY_FOR_DEPARTURE", "READY_FOR_DEPARTURE_VFR"},
         Clear("DEPARTURE_CLEARED", CsRwy))
 @@ "RUNWAY_VACATED" :> Tell("IDLE", CsFreq)
 @@ Each({"RADIO_CHECK", "LEAVING_FREQUENCY", "_INVALID"}, Tell("IDLE", Cs))

GroundContact ==
    "REQUEST_TAXI" :> Clear("TAXI_CLEARED", CsRwyQnh)
 @@ "READBACK" :> Silent("GROUND_CONTACT")
 @@ "_INVALID" :> Tell("GROUND_CONTACT", Cs)

TaxiCleared ==
    Each({"READY_FOR_DEPARTURE", "READY_FOR_DEPARTURE_VFR"},
         Tell("TOWER_CONTACT", CsFreq))
 @@ "INITIAL_CALL_TOWER" :> Tell("TOWER_CONTACT", CsRwy)
 @@ "READBACK" :> Silent("TAXI_CLEARED")
 @@ "_INVALID" :> Tell("TAXI_CLEARED", Cs)

TowerContact ==
    Each({"READY_FOR_DEPARTURE", "READY_FOR_DEPARTURE_VFR"},
         Clear("DEPARTURE_CLEARED", CsRwy))
 @@ "REQUEST_TAXI" :> Tell("IDLE", Cs)
 @@ Each({"REQUEST_LANDING", "REPORT_POSITION"}, Tell("PATTERN_ENTRY", CsRwy))
 @@ "REQUEST_TOUCH_AND_GO" :> Clear("TOUCH_AND_GO_CLEARED", CsRwy)
 @@ "READBACK" :> Silent("TOWER_CONTACT")
 @@ "_INVALID" :> Tell("TOWER_CONTACT", Cs)

PatternDeparture ==
    "READBACK" :> Silent("DEPARTURE_CLEARED")
 @@ Each({"REPORT_POSITION_DOWNWIND", "REPORT_POSITION_BASE",
          "REPORT_POSITION"}, Tell("PATTERN_ENTRY", CsRwy))
 @@ "REPORT_POSITION_FINAL" :> Clear("LANDING_CLEARED", CsRwy)
 @@ "_INVALID" :> Tell("DEPARTURE_CLEARED", Cs)

XcDeparture ==
    "READBACK" :> Silent("DEPARTURE_CLEARED")
 @@ Each({"REQUEST_FREQUENCY", "LEAVING_FREQUENCY"}, Tell("EN_ROUTE", Cs))
 @@ "_INVALID" :> Tell("DEPARTURE_CLEARED", Cs)

PatternEntry ==
    "READBACK" :> Silent("PATTERN_ENTRY")
 @@ Each({"REPORT_POSITION_DOWNWIND", "REPORT_POSITION_BASE"},
         Tell("PATTERN_ENTRY", CsRwy))
 @@ Each({"REPORT_POSITION_FINAL", "REQUEST_LANDING"},
         Clear("LANDING_CLEARED", CsRwy))
 @@ "REQUEST_TOUCH_AND_GO" :> Clear("TOUCH_AND_GO_CLEARED", CsRwy)
 @@ "GO_AROUND" :> Clear("PATTERN_ENTRY", CsRwy)
 @@ "_INVALID" :> Tell("PATTERN_ENTRY", Cs)

TouchAndGoCleared ==
    "READBACK" :> Silent("TOUCH_AND_GO_CLEARED")
 @@ Each({"REPORT_POSITION_DOWNWIND", "REPORT_POSITION_BASE"},
         Tell("PATTERN_ENTRY", CsRwy))
 @@ Each({"REPORT_POSITION_FINAL", "REQUEST_LANDING"},
         Clear("LANDING_CLEARED", CsRwy))
 @@ "REQUEST_TOUCH_AND_GO" :> Clear("TOUCH_AND_GO_CLEARED", CsRwy)
 @@ Each({"RUNWAY_VACATED", "REQUEST_TAXI"}, Tell("IDLE", CsFreq))
 @@ "GO_AROUND" :> Clear("PATTERN_ENTRY", CsRwy)
 @@ "_INVALID" :> Tell("TOUCH_AND_GO_CLEARED", Cs)

LandingCleared ==
    "RUNWAY_VACATED" :> Tell("IDLE", CsFreq)
 @@ "REQUEST_TAXI_PARKING" :> Tell("IDLE", Cs)
 @@ "GO_AROUND" :> Clear("PATTERN_ENTRY", CsRwy)
 @@ "READBACK" :> Silent("LANDING_CLEARED")
 @@ "_INVALID" :> Tell("LANDING_CLEARED", CsRwy)

DeTemplates ==
    "IDLE" :> Idle @@ "GROUND_CONTACT" :> GroundContact
 @@ "TAXI_CLEARED" :> TaxiCleared @@ "TOWER_CONTACT" :> TowerContact
 @@ "Pattern/DEPARTURE_CLEARED" :> PatternDeparture
 @@ "XC/DEPARTURE_CLEARED" :> XcDeparture
 @@ "PATTERN_ENTRY" :> PatternEntry
 @@ "TOUCH_AND_GO_CLEARED" :> TouchAndGoCleared
 @@ "LANDING_CLEARED" :> LandingCleared
 @@ "EN_ROUTE" :> ("_INVALID" :> Silent("EN_ROUTE"))

DeTowerOnlyTemplates ==
    [n \in {"IDLE", "TOUCH_AND_GO_CLEARED", "LANDING_CLEARED"} |->
        "RUNWAY_VACATED" :> Clear("IDLE", Cs)]
 @@ "TOWER_CONTACT" :> ("REQUEST_TAXI" :> Clear("TAXI_CLEARED", CsRwyQnh))

\* Only RMZ_LEAVE leads anywhere but to IDLE.
DeInfoTemplates ==
    Each({"INITIAL_CALL_INBOUND", "INITIAL_CALL_GROUND", "SELF_ANNOUNCE",
          "REPORT_POSITION_DOWNWIND", "REPORT_POSITION_BASE",
          "REPORT_POSITION_FINAL", "RMZ_ENTER", "LEAVING_FREQUENCY",
          "RADIO_CHECK", "_INVALID"}, Tell("IDLE", Cs))
 @@ "SELF_ANNOUNCE_DEPARTURE" :> Silent("IDLE")
 @@ "RMZ_LEAVE" :> Tell("EN_ROUTE", Cs)

DeRadioTemplates ==
    Each({"INITIAL_CALL_INBOUND", "INITIAL_CALL_GROUND", "SELF_ANNOUNCE",
          "REPORT_POSITION_DOWNWIND", "REPORT_POSITION_BASE",
          "REPORT_POSITION_FINAL", "LEAVING_FREQUENCY", "RADIO_CHECK",
          "_INVALID"}, Tell("IDLE", Cs))
 @@ "SELF_ANNOUNCE_DEPARTURE" :> Silent("IDLE")

DeUncontrolledTemplates ==
    Each({"INITIAL_CALL_INBOUND", "SELF_ANNOUNCE", "RADIO_CHECK", "_INVALID"},
         Tell("IDLE", Cs))

DePreconditions ==
    Each({"INITIAL_CALL_GROUND", "INITIAL_CALL_TOWER", "REQUEST_TAXI",
          "READY_FOR_DEPARTURE", "READY_FOR_DEPARTURE_VFR"},
         {"PARKED", "TAXI"})
 @@ "REQUEST_TAXI_PARKING" :> {"PARKED", "TAXI", "LANDING_ROLL"}
 @@ Each({"INITIAL_CALL_INBOUND", "INITIAL_CALL_INBOUND_VRP",
          "REPORT_POSITION", "REPORT_POSITION_DOWNWIND",
          "REPORT_POSITION_BASE", "REPORT_POSITION_FINAL",
          "REQUEST_LANDING", "REQUEST_TOUCH_AND_GO"},
         {"CLIMB", "PATTERN", "FINAL_APPROACH", "CRUISE"})
 @@ "GO_AROUND" :> {"PATTERN", "FINAL_APPROACH", "LANDING_ROLL"}
 @@ "RUNWAY_VACATED" :> {"LANDING_ROLL", "TAXI", "PARKED"}
 @@ "LEAVING_FREQUENCY" :> {"CLIMB", "PATTERN", "CRUISE"}

\* Every entry of the file has a rejection text.
DeIntentFrequency ==
    "INITIAL_CALL_GROUND" :> {"GROUND", "INFO", "RADIO"}
 @@ Each({"REQUEST_TAXI", "REQUEST_TAXI_PARKING"}, {"GROUND"})
 @@ Each({"INITIAL_CALL_TOWER", "INITIAL_CALL_INBOUND_VRP",
          "REPORT_POSITION", "REQUEST_LANDING", "REQUEST_TOUCH_AND_GO",
          "GO_AROUND", "RUNWAY_VACATED"}, {"TOWER"})
 @@ Each({"INITIAL_CALL_INBOUND", "REPORT_POSITION_DOWNWIND",
          "REPORT_POSITION_BASE", "REPORT_POSITION_FINAL",
          "LEAVING_FREQUENCY"}, {"TOWER", "INFO", "RADIO"})
 @@ Each({"READY_FOR_DEPARTURE", "READY_FOR_DEPARTURE_VFR", "READBACK",
          "REQUEST_FREQUENCY"}, {"TOWER", "GROUND"})
 @@ "RADIO_CHECK" :> {"GROUND", "TOWER", "INFO", "RADIO"}
 @@ "SELF_ANNOUNCE" :> {"UNICOM", "CTAF"}
 @@ "SELF_ANNOUNCE_DEPARTURE" :> {"INFO", "RADIO"}

DeFrequencyValidity ==
    "GROUND" :> {"IDLE", "GROUND_CONTACT", "TAXI_CLEARED"}
 @@ "TOWER" :> {"IDLE", "TAXI_CLEARED", "TOWER_CONTACT",
                "Pattern/DEPARTURE_CLEARED", "XC/DEPARTURE_CLEARED",
                "PATTERN_ENTRY", "LANDING_CLEARED", "TOUCH_AND_GO_CLEARED"}

DeFrequencyAutoCorrections ==
    Each({"TAXI_CLEARED", "GROUND_CONTACT"},
         [freqs |-> {"TOWER"}, next |-> "TOWER_CONTACT"])

DeIdleRedirects ==
    {[intents |-> {"REQUEST_TAXI", "REQUEST_TAXI_PARKING"},
      freq |-> "TOWER", unless_tower_only |-> TRUE],
     [intents |-> {"READY_FOR_DEPARTURE", "READY_FOR_DEPARTURE_VFR"},
      freq |-> "GROUND", unless_tower_only |-> FALSE]}

DeStateReverts ==
    {[in |-> n, intents |-> {"READY_FOR_DEPARTURE", "READY_FOR_DEPARTURE_VFR"},
      to |-> "TOWER_CONTACT", reset_departure_type |-> TRUE] :
        n \in {"Pattern/DEPARTURE_CLEARED", "XC/DEPARTURE_CLEARED"}}

DeTowerOnlyAutoAdvance == "TAXI_CLEARED" :> "TOWER_CONTACT"

\* Delays in frames of the model: 3 s is one, 5 s two, 90 s three.  Only
\* their order and that they are not zero matters to the properties.
OnGround(phases, delay) == [phases |-> phases, next |-> "IDLE", delay |-> delay]
InAir(phases, next, delay) == [phases |-> phases, next |-> next, delay |-> delay]

DeAutoCorrections ==
    "Pattern/DEPARTURE_CLEARED" :>
        <<InAir(Airborne, "PATTERN_ENTRY", 2)>>
 @@ "PATTERN_ENTRY" :> <<OnGround({"LANDING_ROLL", "TAXI", "PARKED"}, 1)>>
 @@ "LANDING_CLEARED" :> <<OnGround({"TAXI", "PARKED"}, 3)>>
 @@ "TOUCH_AND_GO_CLEARED" :>
        <<InAir({"CLIMB", "PATTERN"}, "PATTERN_ENTRY", 1),
          OnGround({"TAXI", "PARKED"}, 1)>>
 @@ Each({"GROUND_CONTACT", "TAXI_CLEARED"},
         <<InAir(Airborne \cup {"TAKEOFF_ROLL"}, "IDLE", 2)>>)
 @@ "EN_ROUTE" :> <<OnGround({"TAXI", "PARKED"}, 1)>>
=============================================================================
