---------------------------- MODULE FlightPhase -----------------------------
(***************************************************************************)
(* The flight phase detector: atc/flight_phase.cpp.  flight_loop_cb calls   *)
(* update(ctx, dt) in every frame; the raw phase of the frame becomes the   *)
(* current one at once or, for the changes that jitter, once it has stood   *)
(* for a while.                                                            *)
(***************************************************************************)
EXTENDS Naturals, Integers

CONSTANTS
    Samples,    \* what a frame can sense: [ground, gs, agl, vs, hdg, nm, rwy]
    Durations,  \* lengths of a frame, in 0.1 s
    Thresholds  \* the contents of flight_rules.json the detector can run with

ASSUME PhaseAssumption ==
    /\ Samples \subseteq [ground : BOOLEAN, gs : Nat, agl : Nat, vs : Int,
                          hdg : 0 .. 359, nm : Nat, rwy : -1 .. 359]
    /\ Durations \subseteq Nat \ {0}
    /\ \A t \in Thresholds : t.to_airborne \in Int

VARIABLES
    thresholds,       \* thresholds_ and hysteresis_
    sensed,           \* the context of the last frame
    current_phase,
    candidate_phase,
    candidate_timer,  \* in 0.1 s
    was_airborne_,
    session_airborne, \* atc_state_machine's was_airborne
    offGround         \* history: 0.1 s in a row off the ground, up to the hysteresis

phaseVars == <<thresholds, sensed, current_phase, candidate_phase, candidate_timer,
               was_airborne_, session_airborne, offGround>>

(***************************************************************************)
(* The raw phase.                                                          *)
(***************************************************************************)

is_airborne(p) == p \in {"CLIMB", "PATTERN", "FINAL_APPROACH", "CRUISE"}
is_on_ground(p) == p \in {"PARKED", "TAXI", "TAKEOFF_ROLL", "LANDING_ROLL"}

angle_diff(a, b) ==
    LET d == ((a - b + 540) % 360) - 180 IN IF d < 0 THEN -d ELSE d

\* The values a missing file, section or key leaves in force.
DefaultThresholds ==
    [taxi_gs |-> 5, roll_gs |-> 40, climb_vs |-> 300, pattern_agl |-> 3000, near_nm |-> 5,
     aligned |-> 30, descent |-> -200, to_airborne |-> 5, to_landing |-> 3]

DetectGround(c) ==
    IF c.gs >= thresholds.roll_gs THEN IF was_airborne_ THEN "LANDING_ROLL" ELSE "TAKEOFF_ROLL"
    ELSE IF c.gs >= thresholds.taxi_gs THEN "TAXI"
    ELSE "PARKED"

\* rwy is active_runway_heading: -1 where no runway of the airport bears the
\* number of the effective runway.
OnFinal(c) == /\ c.rwy >= 0
              /\ c.vs < thresholds.descent
              /\ angle_diff(c.hdg, c.rwy) < thresholds.aligned

detect_raw(c) ==
    IF c.ground THEN DetectGround(c)
    ELSE IF c.nm < thresholds.near_nm /\ c.agl < thresholds.pattern_agl
    THEN IF OnFinal(c) THEN "FINAL_APPROACH" ELSE "PATTERN"
    ELSE IF c.vs > thresholds.climb_vs THEN "CLIMB" ELSE "CRUISE"

(***************************************************************************)
(* Hysteresis.                                                             *)
(***************************************************************************)

LiftOff(from, to) == is_on_ground(from) /\ ~is_on_ground(to)
TouchDown(from, to) == ~is_on_ground(from) /\ to = "LANDING_ROLL"
Jitter(from, to) == {from, to} = {"PATTERN", "FINAL_APPROACH"}

needs_hysteresis(from, to) == LiftOff(from, to) \/ TouchDown(from, to) \/ Jitter(from, to)

hysteresis_duration(from, to) ==
    CASE LiftOff(from, to) -> thresholds.to_airborne
      [] TouchDown(from, to) -> thresholds.to_landing
      [] Jitter(from, to) -> 30
      [] OTHER -> 0

\* Mutant: the time counts from the last frame only.
Timed_last(raw, dt) == IF needs_hysteresis(current_phase, raw) THEN dt ELSE 0

\* The candidate's time with this frame: a new candidate starts from zero, and
\* a change that needs no delay adds nothing.
Timed(raw, dt) ==
    LET t == IF raw # candidate_phase THEN 0 ELSE candidate_timer
    IN  IF needs_hysteresis(current_phase, raw) THEN t + dt ELSE t

DelayOver(raw, dt) ==
    \/ ~needs_hysteresis(current_phase, raw)
    \/ Timed(raw, dt) >= hysteresis_duration(current_phase, raw)

(***************************************************************************)
(* Steps.                                                                  *)
(***************************************************************************)

\* init, or a restart of the plugin after stop.
PhaseInit ==
    /\ thresholds \in Thresholds
    /\ sensed \in {c \in Samples : c.ground /\ c.gs = 0}
    /\ current_phase = "PARKED" /\ candidate_phase = "PARKED"
    /\ candidate_timer = 0
    /\ was_airborne_ = FALSE /\ session_airborne = FALSE
    /\ offGround = 0

\* Mutant: a frame that confirms the phase leaves the candidate and its time.
Steady_kept(raw) ==
    /\ raw = current_phase
    /\ UNCHANGED <<current_phase, candidate_phase, candidate_timer, was_airborne_>>

\* The raw phase confirms the current one.
Steady(raw) ==
    /\ raw = current_phase
    /\ candidate_phase' = raw
    /\ candidate_timer' = 0
    /\ UNCHANGED <<current_phase, was_airborne_>>

Hold(raw, dt) ==
    /\ raw # current_phase
    /\ ~DelayOver(raw, dt)
    /\ candidate_phase' = raw
    /\ candidate_timer' = Timed(raw, dt)
    /\ UNCHANGED <<current_phase, was_airborne_>>

\* On the runway the flag is kept: it tells the landing roll from the take-off.
Transition(raw, dt) ==
    /\ raw # current_phase
    /\ DelayOver(raw, dt)
    /\ candidate_phase' = raw
    /\ candidate_timer' = Timed(raw, dt)
    /\ current_phase' = raw
    /\ was_airborne_' = (is_airborne(raw) \/ (was_airborne_ /\ raw \notin {"PARKED", "TAXI"}))

PhaseUpdate(c, dt) ==
    LET raw == detect_raw(c)
    IN  /\ sensed' = c
        /\ Steady(raw) \/ Hold(raw, dt) \/ Transition(raw, dt)
        /\ session_airborne' = (session_airborne \/ is_airborne(current_phase) \/ is_airborne(current_phase'))
        /\ offGround' = IF c.ground THEN 0
                        ELSE IF offGround + dt > thresholds.to_airborne THEN thresholds.to_airborne
                        ELSE offGround + dt
        /\ UNCHANGED thresholds

PhaseFrame == \E c \in Samples, dt \in Durations : PhaseUpdate(c, dt)

\* The pilot's disregard, or the roll-back of an exchange, takes back the
\* state machine's flag.
SessionReverted ==
    /\ session_airborne' = FALSE
    /\ session_airborne
    /\ UNCHANGED <<thresholds, sensed, current_phase, candidate_phase, candidate_timer,
                   was_airborne_, offGround>>

\* XPluginStop and the next start.
PhaseStop ==
    /\ thresholds' \in Thresholds
    /\ current_phase' = "PARKED" /\ candidate_phase' = "PARKED"
    /\ candidate_timer' = 0
    /\ was_airborne_' = FALSE /\ session_airborne' = FALSE
    /\ offGround' = 0
    /\ UNCHANGED sensed

PhaseNext == PhaseFrame \/ SessionReverted \/ PhaseStop

PhaseSpec == PhaseInit /\ [][PhaseNext]_phaseVars

(***************************************************************************)
(* Properties.                                                             *)
(***************************************************************************)

\* A bounce is not a take-off: whatever the frames looked like before, and
\* however often the raw phase changed in the air, the phase leaves the ground
\* only after the aircraft was off it, without a touch, for the whole of
\* ground_to_airborne_sec.
BounceIgnored ==
    [][ is_on_ground(current_phase) /\ is_airborne(current_phase')
        => offGround' = thresholds.to_airborne ]_phaseVars

\* The detector does not stick: if the aircraft keeps doing the same thing the
\* phase becomes the one detect_raw reads from it, frames being as short as they
\* may.
PhaseSettles ==
    \/ []<>(current_phase = detect_raw(sensed))
    \/ []<><<sensed' # sensed \/ PhaseStop>>_phaseVars
=============================================================================
