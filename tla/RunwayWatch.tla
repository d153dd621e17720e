---------------------------- MODULE RunwayWatch -----------------------------
(***************************************************************************)
(* The tower's watch over the landing runway: atc/landing_sequence.cpp, the *)
(* overlay pattern_flow::apply_landing_sequence lays over a landing         *)
(* clearance, and engine::poll_go_around, which atc_session::update calls   *)
(* in every frame in which the radio is idle.                              *)
(***************************************************************************)
EXTENDS TrafficPicture

CONSTANTS
    UserDistances,    \* distances of the user to the threshold, in 0.1 NM
    GoAroundCooldown  \* kGoAroundCooldownSec, in the time unit of Second

ASSUME RunwayAssumption ==
    UserDistances \subseteq Nat /\ GoAroundCooldown \in Nat \ {0}

VARIABLES
    userDist, \* distance of the user to the threshold
    cleared,  \* the ATC state is LANDING_CLEARED
    gaAge,    \* now - last_go_around_emit_secs_, up to the cooldown
    towerSays \* what the tower says in this step, or "none"

runwayVars == <<userDist, cleared, gaAge, towerSays>>

\* resolve_active_runway: the active runway has a known threshold.
resolved == "runway" \in field

(***************************************************************************)
(* landing_sequence.                                                       *)
(***************************************************************************)

is_ground_phase(p) == p \in {"OnGround", "Takeoff", "Landed"}

\* is_on_runway_centerline with kRunwayOccupiedReachM and -LateralM.
is_on_runway_centerline(s) ==
    Stages[s].lateral <= 30 /\ Stages[s].along \in 0 .. 1500

runway_occupied ==
    \E t \in snapshot : is_ground_phase(t.phase) /\ is_on_runway_centerline(t.stage)

\* Targets on final that are ahead of the user or level with it.
Ahead == {t \in snapshot : t.phase = "Final" /\ Stages[t.stage].nm10 <= userDist}
user_position == Cardinality(Ahead) + 1

\* What the pilot is answered where the state machine granted a landing.
Clearance ==
    IF ~resolved THEN "cleared"
    ELSE IF runway_occupied THEN "continue"
    ELSE IF user_position >= 2 THEN "follow"
    ELSE "cleared"

(***************************************************************************)
(* Steps.                                                                  *)
(***************************************************************************)

RunwayInit ==
    /\ userDist \in UserDistances
    /\ cleared = FALSE
    /\ gaAge = GoAroundCooldown
    /\ towerSays = "none"

\* The pilot's call is granted; the overlay chooses the words, the ATC state
\* is LANDING_CLEARED whichever they are.
GrantLanding ==
    /\ cleared' = TRUE
    /\ towerSays' = Clearance
    /\ UNCHANGED <<userDist, gaAge>>

\* Any exchange that leaves LANDING_CLEARED: touchdown, go-around, disregard.
LeaveLanding ==
    /\ cleared
    /\ cleared' = FALSE
    /\ towerSays' = "none"
    /\ UNCHANGED <<userDist, gaAge>>

Fly ==
    /\ userDist' \in UserDistances \ {userDist}
    /\ towerSays' = "none"
    /\ UNCHANGED <<cleared, gaAge>>

\* Mutant: only one target is scanned, the first of the snapshot.
GoAroundDueFirst ==
    /\ cleared
    /\ gaAge >= GoAroundCooldown
    /\ resolved
    /\ userDist <= 10
    /\ snapshot # {}
    /\ LET t == CHOOSE u \in snapshot : TRUE
       IN  is_ground_phase(t.phase) /\ is_on_runway_centerline(t.stage)

GoAroundDue ==
    /\ cleared
    /\ gaAge >= GoAroundCooldown
    /\ resolved
    /\ userDist <= 10
    /\ runway_occupied

\* The frame's poll, the radio being idle.
poll_go_around ==
    /\ GoAroundDue
    /\ gaAge' = 0
    /\ towerSays' = "goaround"
    /\ UNCHANGED <<userDist, cleared>>

\* Time passes.
Second ==
    /\ gaAge < GoAroundCooldown
    /\ gaAge' = gaAge + 1
    /\ towerSays' = "none"
    /\ UNCHANGED <<userDist, cleared>>

RunwayNext ==
    \/ UNCHANGED pictureVars /\ (GrantLanding \/ LeaveLanding \/ Fly \/ poll_go_around \/ Second)
    \/ UNCHANGED <<userDist, cleared, gaAge>> /\ towerSays' = "none"
       /\ (update \/ ToggleTraffic \/ \E a \in Aircraft : Move(a))

(***************************************************************************)
(* Properties.                                                             *)
(***************************************************************************)

\* Types of the picture and of the runway watch.
RunwayTypeOK ==
    /\ life \in [Aircraft -> DOMAIN Stages \union {Gone}]
    /\ field \subseteq {"elevation", "runway"}
    /\ traffic_on \in BOOLEAN /\ was_disabled \in BOOLEAN
    /\ prev_phase \in [Aircraft -> TrafficPhase \union {"none"}]
    /\ snapshot \subseteq TrafficTarget
    /\ userDist \in UserDistances /\ cleared \in BOOLEAN
    /\ gaAge \in 0 .. GoAroundCooldown
    /\ towerSays \in {"none", "cleared", "continue", "follow", "goaround"}

\* An aircraft at rest on the runway.
Standing(s) == OnRunway(s) /\ Stages[s].gs < 5

\* While the user, cleared to land, stays within a mile of a runway on which an
\* aircraft stands, the tower calls the go-around again and again.
Stuck == /\ cleared /\ resolved /\ userDist <= 10
         /\ "elevation" \in field /\ traffic_on
         /\ \E a \in Aircraft : life[a] # Gone /\ Standing(life[a])
GoAroundRepeats == <>[]Stuck => []<>(towerSays = "goaround")
=============================================================================
