--------------------------- MODULE TrafficPicture ---------------------------
(***************************************************************************)
(* The picture the plugin has of other aircraft: data/traffic_context.cpp,  *)
(* traffic_context_runtime.cpp and traffic_phase_classifier.cpp.            *)
(*                                                                         *)
(* Twice a second traffic_context::update reads the simulator's TCAS slots, *)
(* gives every target a phase of flight and replaces the snapshot that the  *)
(* advisor, the landing sequence and the go-around trigger read between     *)
(* updates.  What an aircraft really does is an external, nondeterministic  *)
(* walk through the stages of a flight; the classifier's thresholds are     *)
(* applied to the numbers of a stage.                                      *)
(***************************************************************************)
EXTENDS Naturals, Integers, FiniteSets

CONSTANTS
    Aircraft,    \* Mode S ids of the other aircraft
    Stages,      \* name of a stage -> the numbers a target reports in it
    Course,      \* pairs <<from, to>> of stages that may follow each other
    FirstStages, \* stages an aircraft may be in when first seen
    Geometries   \* how a target may lie relative to the user

VARIABLES
    life,         \* stage of each aircraft, or "gone" (no TCAS slot)
    field,        \* subset of {"elevation", "runway"}: what is known of the nearest field
    traffic_on,   \* settings::traffic_features_enabled
    was_disabled, \* the static of update()
    prev_phase,   \* the static map of update(), by aircraft
    snapshot      \* g_snapshot_.targets

pictureVars == <<life, field, traffic_on, was_disabled, prev_phase, snapshot>>

Gone == "gone"
TrafficPhase == {"Unknown", "OnGround", "Taxi", "Takeoff", "Climb", "Cruise",
                 "Descend", "Final", "Pattern", "Landed"}

ASSUME StagesAssumption ==
    /\ Gone \notin DOMAIN Stages
    /\ Course \subseteq (DOMAIN Stages \union {Gone}) \X (DOMAIN Stages \union {Gone})
    /\ FirstStages \subseteq DOMAIN Stages
    /\ \A s \in DOMAIN Stages :
         Stages[s] \in [agl : Nat, gs : Nat, vs : Int, track : 0 .. 180,
                        along : Int, lateral : Nat, nm10 : Nat]

\* A TrafficTarget: what is left of it once positions are geometries.
TrafficTarget == [id : Aircraft, stage : DOMAIN Stages, geo : Geometries, phase : TrafficPhase]

\* Aircraft that occupy the runway, whatever the program thinks of them.
OnRunway(s) == /\ Stages[s].agl < 50
               /\ Stages[s].lateral <= 30
               /\ Stages[s].along \in 0 .. 1500

(***************************************************************************)
(* traffic_phase_classifier.                                               *)
(***************************************************************************)

was_airborne(prev) == prev \in {"Climb", "Cruise", "Descend", "Final", "Pattern"}

\* track is the angle between the target's track and the landing heading.
near_heading(t)       == t.track <= 10
near_opposite(t)      == 180 - t.track <= 30
near_perpendicular(t) == t.track \in 60 .. 120

classify_airborne_near_airport(t) ==
    IF near_heading(t) /\ t.vs < -200 /\ t.nm10 <= 50 /\ t.along <= 0 THEN "Final"
    ELSE IF t.nm10 <= 50 /\ (near_opposite(t) \/ near_perpendicular(t)) THEN "Pattern"
    ELSE "Unknown"

classify(t, prev, hints) ==
    IF was_airborne(prev) /\ t.agl < 50 /\ t.gs < 80 THEN "Landed"
    ELSE IF t.agl < 50 /\ t.gs < 5 THEN "OnGround"
    ELSE IF t.agl < 50 /\ t.gs < 40 THEN "Taxi"
    ELSE IF t.agl < 200 /\ t.gs >= 40 /\ t.vs > 200 THEN "Takeoff"
    ELSE IF hints /\ t.agl < 3000 /\ t.nm10 <= 80 THEN classify_airborne_near_airport(t)
    ELSE "Unknown"

(***************************************************************************)
(* traffic_context.                                                        *)
(***************************************************************************)

PictureInit ==
    /\ life \in [Aircraft -> FirstStages]
    /\ field \in SUBSET {"elevation", "runway"}
    /\ traffic_on = TRUE
    /\ was_disabled = FALSE
    /\ prev_phase = [a \in Aircraft |-> "none"]
    /\ snapshot = {}

Seen == {a \in Aircraft : life[a] # Gone}

\* Without a field elevation the height above ground means nothing.
PhaseOf(a) ==
    IF "elevation" \notin field THEN "Unknown"
    ELSE classify(Stages[life[a]],
                  IF prev_phase[a] = "none" THEN "Unknown" ELSE prev_phase[a],
                  "runway" \in field)

\* The master switch is off: the snapshot is dropped once, prev_phase is kept.
UpdateDisabled ==
    /\ ~traffic_on
    /\ was_disabled' = TRUE
    /\ snapshot' = IF was_disabled THEN snapshot ELSE {}
    /\ UNCHANGED <<life, field, traffic_on, prev_phase>>

\* A new snapshot; phases of targets that are gone are collected.
UpdateEnabled ==
    /\ traffic_on
    /\ was_disabled' = FALSE
    /\ prev_phase' = [a \in Aircraft |-> IF a \in Seen THEN PhaseOf(a) ELSE "none"]
    /\ \E geo \in [Seen -> Geometries] :
         snapshot' = {[id |-> a, stage |-> life[a], geo |-> geo[a], phase |-> PhaseOf(a)] :
                        a \in Seen}
    /\ UNCHANGED <<life, field, traffic_on>>

update == UpdateDisabled \/ UpdateEnabled

\* The snapshot is as fresh as the half-second between two updates allows:
\* a stage of flight lasts longer than that.
Fresh(a) == IF traffic_on /\ ~was_disabled
            THEN IF life[a] = Gone THEN \A t \in snapshot : t.id # a
                 ELSE \E t \in snapshot : t.id = a /\ t.stage = life[a]
            ELSE traffic_on \/ was_disabled

\* The simulator moves an aircraft on.
Move(a) ==
    /\ Fresh(a)
    /\ \E to \in DOMAIN Stages \union {Gone} :
         /\ <<life[a], to>> \in Course
         /\ life' = [life EXCEPT ![a] = to]
    /\ UNCHANGED <<field, traffic_on, was_disabled, prev_phase, snapshot>>

\* The user changes the setting.
ToggleTraffic ==
    /\ traffic_on' = ~traffic_on
    /\ UNCHANGED <<life, field, was_disabled, prev_phase, snapshot>>
=============================================================================
