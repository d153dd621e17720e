--------------------------- MODULE EnIntentRules ----------------------------
(***************************************************************************)
(* The adjustments of the English profile's                                *)
(* src/data/atc_profiles/en/intent_rules.json.  Its rules are not modelled; *)
(* what the parser promises about impossible calls rests on the            *)
(* adjustments alone.                                                      *)
(***************************************************************************)
EXTENDS IntentParser

EnAdjustments ==
    LET Landed(place) ==
            [Adjustment EXCEPT !.intents = {"UNKNOWN"}, !.text = place, !.landed = {TRUE},
                               !.set_intent = "READBACK", !.set_confidence = 90]
    IN  <<[Adjustment EXCEPT !.intents = {"INITIAL_CALL_INBOUND"}, !.vrp = {TRUE},
                             !.set_intent = "INITIAL_CALL_INBOUND_VRP"],
          [Adjustment EXCEPT !.airborne_only = {TRUE}, !.ground = {TRUE},
                             !.set_intent = "READBACK", !.set_confidence = 85],
          [Adjustment EXCEPT !.ground_only = {TRUE}, !.ground = {FALSE}, !.set_confidence = 30],
          [Adjustment EXCEPT !.intents = {"SELF_ANNOUNCE"}, !.towered = {TRUE}, !.set_confidence = 30],
          [Adjustment EXCEPT !.intents = {"INITIAL_CALL", "INITIAL_CALL_TOWER", "INITIAL_CALL_INBOUND"},
                             !.towered = {FALSE}, !.text = "tower", !.set_confidence = 40],
          [Adjustment EXCEPT !.intents = {"REQUEST_TAXI"}, !.landed = {TRUE}, !.set_intent = "REQUEST_TAXI_PARKING"],
          Landed("apron"), Landed("parking"), Landed("ramp"),
          [Adjustment EXCEPT !.intents = {"RUNWAY_VACATED"}, !.airborne = {FALSE}, !.pending = {TRUE},
                             !.set_intent = "READBACK"],
          [Adjustment EXCEPT !.intents = {"RUNWAY_VACATED"}, !.airborne = {FALSE}, !.pending = {FALSE},
                             !.set_confidence = 0]>>

\* No entry of the shipped table brings back a call that an earlier one ruled out.
ASSUME EnglishTableChecked == CheckedTable(EnAdjustments)
=============================================================================
