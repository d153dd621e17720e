--------------------------- MODULE MCSurroundings ---------------------------
(***************************************************************************)
(* Instance of what the plugin senses of its surroundings.  The five parts  *)
(* share no state but the traffic picture; a behaviour watches one of them  *)
(* and leaves the others at rest.                                          *)
(***************************************************************************)
EXTENDS RunwayWatch, TrafficAdvisor, AirportContext, AtisLetter, FlightPhase

VARIABLE watched

(***************************************************************************)
(* Traffic.                                                                *)
(***************************************************************************)
S(agl, gs, vs, track, along, lateral, nm10) ==
    [agl |-> agl, gs |-> gs, vs |-> vs, track |-> track, along |-> along,
     lateral |-> lateral, nm10 |-> nm10]
MCStages ==
    [downwind |-> S(1000, 90, 0, 180, 500, 1500, 8),
     final    |-> S(500, 70, -500, 0, -3000, 0, 16),
     flare    |-> S(15, 60, -150, 0, 200, 0, 2),
     rollout  |-> S(0, 55, 0, 0, 500, 0, 3),
     slow     |-> S(0, 20, 0, 0, 900, 0, 5),
     standing |-> S(0, 0, 0, 0, 100, 5, 1),
     rotate   |-> S(100, 70, 500, 0, 900, 0, 5),
     taxiway  |-> S(0, 10, 0, 180, 700, 150, 4)]
MCCourse ==
    {<<"downwind", "final">>, <<"final", "flare">>, <<"final", "downwind">>, <<"flare", "rollout">>,
     <<"rollout", "slow">>, <<"slow", "standing">>, <<"slow", "taxiway">>, <<"standing", "taxiway">>,
     <<"standing", "rotate">>, <<"rotate", "downwind">>, <<"rotate", "gone">>,
     <<"taxiway", "standing">>, <<"taxiway", "gone">>, <<"gone", "downwind">>}
MCFirst == {"downwind", "taxiway"}

G(nm10, clock, vert, closing, cone) ==
    [nm10 |-> nm10, clock |-> clock, vert |-> vert, closing |-> closing, cone |-> cone]
Ahead30 == G(30, 12, 500, TRUE, FALSE)   \* three miles ahead, closing
Ahead60 == G(60, 2, 1500, TRUE, FALSE)   \* six miles to the right, closing
Behind  == G(30, 6, 0, TRUE, FALSE)      \* outside the forward arc
Nose    == G(1, 11, 0, FALSE, TRUE)      \* on the ground, in front of the nose
MCGeometries == {Ahead30, Ahead60, Behind, Nose}

MCUser(atc, freq, ground, taxi) == [atc |-> atc, freq |-> freq, ground |-> ground, taxi |-> taxi]
InFlight == MCUser("CONTACT", TRUE, FALSE, FALSE)
MCUserStates == {InFlight, MCUser("CONTACT", TRUE, TRUE, TRUE), MCUser("IDLE", TRUE, FALSE, FALSE)}

(***************************************************************************)
(* Airports: a towered one, an information field that shares a frequency    *)
(* with it but for one kilohertz of rounding, a glider strip without a      *)
(* frequency, and open sea.                                                *)
(***************************************************************************)
R(khz, type) == [khz |-> khz, type |-> type]
MCTable == ("EDNY" :> <<R(118200, "UNICOM"), R(118200, "TOWER"), R(121855, "GROUND"), R(126005, "ATIS")>>)
        @@ ("EDMK" :> <<R(126500, "INFO")>>)
        @@ ("LSPO" :> <<>>)
MCNearestAt == ("friedrichshafen" :> "EDNY") @@ ("kempten" :> "EDMK") @@ ("olten" :> "LSPO") @@ ("sea" :> NoAirport)
MCDistanceNm ==
    ("friedrichshafen" :> [EDNY |-> 1, EDMK |-> 35, LSPO |-> 60])
 @@ ("kempten" :> [EDNY |-> 35, EDMK |-> 1, LSPO |-> 95])
 @@ ("olten" :> [EDNY |-> 60, EDMK |-> 19, LSPO |-> 1])
 @@ ("sea" :> [EDNY |-> 300, EDMK |-> 300, LSPO |-> 300])

(***************************************************************************)
(* Weather: a wind that turns, the same in a calm, low visibility, low QNH. *)
(***************************************************************************)
W(dir, speed, qnh, vis) == [dir |-> dir, speed |-> speed, qnh |-> qnh, vis |-> vis]
MCWeathers == {W(350, 10, 101300, 10000), W(15, 10, 101300, 10000), W(30, 2, 101300, 9999),
               W(40, 10, 101401, 10000)}

(***************************************************************************)
(* The own aircraft: on the apron, taxiing, rolling, just off the runway,   *)
(* on final, on base, climbing away.                                       *)
(***************************************************************************)
P(ground, gs, agl, vs, hdg, nm, rwy) ==
    [ground |-> ground, gs |-> gs, agl |-> agl, vs |-> vs, hdg |-> hdg, nm |-> nm, rwy |-> rwy]
MCApron == P(TRUE, 0, 0, 0, 240, 0, 240)
MCSamples == {MCApron, P(TRUE, 12, 0, 0, 150, 0, 240), P(TRUE, 60, 0, 0, 240, 0, 240),
              P(FALSE, 65, 30, 400, 240, 0, 240), P(FALSE, 65, 500, -500, 255, 2, 240),
              P(FALSE, 75, 900, -300, 330, 3, 240), P(FALSE, 90, 3500, 500, 240, 6, 240),
              P(FALSE, 100, 2500, 0, 10, 8, -1)}
\* flight_rules.json as shipped, or a file that asks for a longer landing delay.
MCThresholds == {DefaultThresholds, [DefaultThresholds EXCEPT !.to_landing = 10]}

(***************************************************************************)
(* The specification.                                                      *)
(***************************************************************************)
AtRest(part) ==
    /\ part # "runway"  => userDist = 30
    /\ part # "advisor" => user = InFlight
    /\ part \notin {"runway", "advisor"} =>
         life = [a \in Aircraft |-> "downwind"] /\ field = {}
    /\ part = "runway" => field \in {{}, {"elevation", "runway"}}
    /\ part = "advisor" => field = {"elevation", "runway"}
    /\ part # "airport" => place = "sea" /\ com_khz = 118201
    /\ part # "phase" => sensed = MCApron /\ thresholds = DefaultThresholds
    /\ part # "atis" => weather = W(350, 10, 101300, 10000) /\ active_runway = NoRunway

Init ==
    /\ watched \in {"runway", "advisor", "airport", "atis", "phase"}
    /\ PictureInit /\ RunwayInit /\ AdvisorInit /\ ContextInit /\ AtisInit /\ PhaseInit
    /\ AtRest(watched)

\* The geometry relative to the user plays no part on the runway, the roll-out
\* none in the advisories.
Next ==
    /\ UNCHANGED watched
    /\ \/ /\ watched = "runway"
          /\ RunwayNext
          /\ \A t \in snapshot' : t.geo = Behind
          /\ UNCHANGED <<advisorVars, contextVars, atisVars, phaseVars>>
       \/ /\ watched = "advisor"
          /\ AdvisorNext
          /\ life' \in [Aircraft -> {"downwind", "taxiway", "gone"}]
          /\ \A t \in snapshot' : t.geo = Nose <=> t.stage = "taxiway"
          /\ UNCHANGED <<runwayVars, contextVars, atisVars, phaseVars>>
       \/ /\ watched = "airport"
          /\ ContextNext
          /\ UNCHANGED <<pictureVars, runwayVars, advisorVars, atisVars, phaseVars>>
       \/ /\ watched = "atis"
          /\ AtisNext
          /\ UNCHANGED <<pictureVars, runwayVars, advisorVars, contextVars, phaseVars>>
       \/ /\ watched = "phase"
          /\ PhaseNext
          /\ UNCHANGED <<pictureVars, runwayVars, advisorVars, contextVars, atisVars>>

vars == <<watched, pictureVars, runwayVars, advisorVars, contextVars, atisVars, phaseVars>>

Spec == Init /\ [][Next]_vars

\* The flight loop keeps calling: update twice a second, the polls in every
\* frame with an idle radio (a snapshot lives for thirty frames, so one with a
\* call-out due is polled), check_for_update once a second, the phase detector in every
\* frame; and time passes.
\* Nothing is assumed of the pilot or of the other aircraft.
LiveSpec ==
    /\ Spec
    /\ WF_<<pictureVars, runwayVars>>(watched = "runway" /\ UNCHANGED pictureVars /\ poll_go_around)
    /\ WF_<<pictureVars, runwayVars>>(watched = "runway" /\ UNCHANGED pictureVars /\ Second)
    /\ WF_<<pictureVars, runwayVars>>(watched = "runway" /\ UNCHANGED <<userDist, cleared, gaAge>>
          /\ towerSays' = "none" /\ update /\ \A t \in snapshot' : t.geo = Behind)
    /\ SF_<<pictureVars, advisorVars>>(watched = "advisor" /\ UNCHANGED pictureVars /\ poll_traffic_advisory)
    /\ SF_<<pictureVars, advisorVars>>(watched = "advisor" /\ UNCHANGED pictureVars /\ PassTime)
    /\ WF_atisVars(watched = "atis" /\ check_for_update)
    /\ WF_atisVars(watched = "atis" /\ Wait)
    /\ WF_phaseVars(watched = "phase" /\ PhaseFrame)

=============================================================================
