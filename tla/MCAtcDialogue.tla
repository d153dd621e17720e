--------------------------- MODULE MCAtcDialogue ---------------------------
(* Small instances of AtcDialogue with the German profile for TLC.         *)
EXTENDS AtcDialogue, DeProfile

CONSTANTS home, away, r1, r2, cs

Say(intent) == [intent |-> intent, sure |-> TRUE, runway |-> None, callsign |-> cs,
                read |-> {}, complete |-> TRUE, declares |-> "none"]
Repeating(intent, read) == [Say(intent) EXCEPT !.read = read]
Wanting(intent, runway) == [Say(intent) EXCEPT !.runway = runway]
Mumbling(intent) == [Say(intent) EXCEPT !.sure = FALSE]
Declaring(intent, what) == [Say(intent) EXCEPT !.declares = what]

\* At home, a field with ground and tower, on the ground.
At(freq) == [freq |-> freq, towered |-> TRUE, tower_only |-> FALSE,
             on_ground |-> TRUE, airport |-> home, active |-> r1,
             traffic |-> "none"]
InFlight(c) == [c EXCEPT !.on_ground = FALSE]
TowerOnly(c) == [c EXCEPT !.tower_only = TRUE]
Uncontrolled(freq) == [At(freq) EXCEPT !.towered = FALSE, !.airport = away]

\* The theorems on ClearedByTower and XcHonoured apply to this profile.
ASSUME GermanProfileGuards == GuardedProfile /\ XcProfile

\* Every intent once, readbacks that are complete, partial and empty, an
\* incomplete initial call, a runway of the pilot's own, both declarations.
EveryCall ==
    {Say(i) : i \in Intents}
    \cup {Repeating("READBACK", r) : r \in {CsRwy, CsRwyQnh}}
    \cup {[Say("INITIAL_CALL_GROUND") EXCEPT !.complete = FALSE],
          Wanting("REQUEST_TAXI", r2), Wanting("READY_FOR_DEPARTURE", r2),
          Declaring("REQUEST_TAXI", "xc"), Declaring("UNKNOWN", "pattern"),
          [Say("UNKNOWN") EXCEPT !.callsign = None]}

EverySurrounding ==
    {At("GROUND"), At("TOWER"), InFlight(At("TOWER")),
     TowerOnly(At("TOWER")), InFlight(TowerOnly(At("TOWER"))),
     [InFlight(At("TOWER")) EXCEPT !.traffic = "on_runway"],
     [InFlight(At("TOWER")) EXCEPT !.traffic = "ahead"],
     At("UNKNOWN"), At("DELIVERY"), InFlight(At("INFO")),
     Uncontrolled("RADIO"), Uncontrolled("CTAF"), Uncontrolled("TOWER")}

\* From the stand to the runway, called clearly or not, and read back in
\* full, in part or in words that only the model makes out.
DepartureCalls ==
    {Say("REQUEST_TAXI"), Declaring("REQUEST_TAXI", "xc"),
     Repeating("READBACK", CsRwyQnh), Repeating("UNKNOWN", Cs),
     Say("READY_FOR_DEPARTURE"),
     [Mumbling("READY_FOR_DEPARTURE") EXCEPT !.read = CsRwy]}
GroundAndTower == {At("GROUND"), At("TOWER")}
DeparturePhases == {"PARKED", "TAXI", "CLIMB"}

\* From the runway round the pattern and back, and away.
PatternCalls ==
    {Say("READY_FOR_DEPARTURE"), Say("READY_FOR_DEPARTURE_VFR"),
     Say("REPORT_POSITION_FINAL"), Say("REQUEST_TOUCH_AND_GO"),
     Say("REQUEST_LANDING"), Say("GO_AROUND"), Say("LEAVING_FREQUENCY"),
     Say("RUNWAY_VACATED"),
     Repeating("READBACK", CsRwy)}
TowerFrequencies == {At("TOWER"), InFlight(At("TOWER"))}
PatternPhases == {"PARKED", "TAXI", "CLIMB", "PATTERN", "LANDING_ROLL"}

BothModes == {"engines_running", "ready_for_takeoff"}
AtRunway == {"ready_for_takeoff"}
SomeRepairs == {CsRwy}
NoRepairs == {}
EveryPhase == Phases
Fields == {home, away}
OneField == {home}
OneRunway == {r1}
TwoRunways == {r1, r2}
OneCallsign == {cs}
=============================================================================
