--------------------------- MODULE TrafficAdvisor ---------------------------
(***************************************************************************)
(* Traffic information: atc/traffic_advisor.cpp (which target to call out), *)
(* atc/traffic_dialog.cpp (the pilot's answer), engine::poll_traffic_advisory *)
(* and try_traffic_dialog, over the traffic picture.                       *)
(*                                                                         *)
(* The history keeps times; the model keeps ages, up to the longest         *)
(* lockout, beyond which they no longer matter.                            *)
(***************************************************************************)
EXTENDS TrafficPicture, FiniteSetsExt

CONSTANTS
    GlobalCooldown,          \* kGlobalCooldownSec
    PerTargetCooldown,       \* kPerTargetCooldownSec
    VisualAckLockout,        \* kVisualAckLockoutSec
    GroundGlobalCooldown,    \* kGroundGlobalCooldownSec
    GroundPerTargetCooldown, \* kGroundPerTargetCooldownSec
    UserStates               \* records [atc, freq, ground, taxi] of the user

ASSUME CooldownAssumption ==
    /\ {GlobalCooldown, PerTargetCooldown, GroundGlobalCooldown,
        GroundPerTargetCooldown} \subseteq 1 .. VisualAckLockout
    /\ VisualAckLockout \in Nat
    /\ UserStates \subseteq [atc : {"IDLE", "UNICOM_ACTIVE", "CONTACT"},
                             freq : BOOLEAN, ground : BOOLEAN, taxi : BOOLEAN]

VARIABLES
    user,      \* UserState of the advisor
    issued,    \* age of last_issued_secs, per aircraft
    acked,     \* age of acknowledged_visual_secs, per aircraft
    lastEmit,  \* age of last_global_emit_secs
    pending,   \* pending_target_id_ while AWAITING_ACK, else NoTarget
    callout    \* the last advisory: its target and template

advisorVars == <<user, issued, acked, lastEmit, pending, callout>>

NoTarget == "no target"
Never == VisualAckLockout
NoCallout == [id |-> NoTarget, template |-> "none"]

AdvisoryHistory == [Aircraft -> 0 .. Never]

AdvisorInit ==
    /\ user \in UserStates
    /\ issued = [a \in Aircraft |-> Never]
    /\ acked = [a \in Aircraft |-> Never]
    /\ lastEmit = Never
    /\ pending = NoTarget
    /\ callout = NoCallout

(***************************************************************************)
(* traffic_advisor::evaluate.                                              *)
(***************************************************************************)

gating_passes == user.atc \notin {"IDLE", "UNICOM_ACTIVE"} /\ user.freq

in_forward_arc(clock) == clock \in 9 .. 12 \union 1 .. 3

\* closing stands for closure_kts > 0 or laterally_converging.
target_qualifies(t) ==
    /\ t.geo.nm10 \in 20 .. 80
    /\ t.geo.vert <= 1500
    /\ in_forward_arc(t.geo.clock)
    /\ user.ground = (Stages[t.stage].agl <= 200)
    /\ t.geo.closing

\* cone stands for path_intersects_cone.
ground_target_qualifies(t) ==
    /\ t.geo.nm10 < 3
    /\ t.phase \in {"Taxi", "Takeoff", "Landed"}
    /\ t.geo.cone

ground_template_for(t) ==
    IF t.geo.clock >= 11 \/ t.geo.clock <= 1 THEN "taxi_hold_position"
    ELSE IF Stages[t.stage].gs >= 15 THEN "taxi_give_way"
    ELSE "taxi_caution"

GroundConflicts ==
    {t \in snapshot : /\ user.taxi
                      /\ lastEmit >= GroundGlobalCooldown
                      /\ ground_target_qualifies(t)
                      /\ issued[t.id] >= GroundPerTargetCooldown}

\* Mutant: the per-target cooldown is forgotten.
AirborneAny ==
    {t \in snapshot : /\ gating_passes
                      /\ lastEmit >= GlobalCooldown
                      /\ target_qualifies(t)
                      /\ acked[t.id] >= VisualAckLockout}

Airborne ==
    {t \in snapshot : /\ gating_passes
                      /\ lastEmit >= GlobalCooldown
                      /\ target_qualifies(t)
                      /\ issued[t.id] >= PerTargetCooldown
                      /\ acked[t.id] >= VisualAckLockout}

\* The snapshot is sorted by distance: the nearest qualifying target wins.
Nearest(ts) == {t \in ts : \A u \in ts : t.geo.nm10 <= u.geo.nm10}

mark_emitted(a) ==
    /\ issued' = [issued EXCEPT ![a] = 0]
    /\ lastEmit' = 0

(***************************************************************************)
(* engine::poll_traffic_advisory.                                          *)
(***************************************************************************)

\* Mutant: a surface conflict does not wait for the answer to the last call-out.
CallGroundAnytime ==
    /\ \E t \in Nearest(GroundConflicts) :
         /\ mark_emitted(t.id)
         /\ callout' = [id |-> t.id, template |-> ground_template_for(t)]
    /\ UNCHANGED <<user, acked, pending>>

\* A surface conflict comes first, needs no contact and expects no answer.
CallGround ==
    /\ pending = NoTarget
    /\ \E t \in Nearest(GroundConflicts) :
         /\ mark_emitted(t.id)
         /\ callout' = [id |-> t.id, template |-> ground_template_for(t)]
    /\ UNCHANGED <<user, acked, pending>>

\* traffic_dialog::on_advisory_emitted.
CallAirborne ==
    /\ pending = NoTarget
    /\ GroundConflicts = {}
    /\ \E t \in Nearest(Airborne) :
         /\ mark_emitted(t.id)
         /\ callout' = [id |-> t.id, template |-> "traffic_advisory"]
         /\ pending' = t.id
    /\ UNCHANGED <<user, acked>>

poll_traffic_advisory == CallGround \/ CallAirborne

(***************************************************************************)
(* traffic_dialog and its caller try_traffic_dialog.                       *)
(***************************************************************************)

\* TRAFFIC_IN_SIGHT: the lockout of the pending target starts.
InSight ==
    /\ pending # NoTarget
    /\ acked' = [acked EXCEPT ![pending] = 0]
    /\ pending' = NoTarget
    /\ UNCHANGED <<user, issued, lastEmit, callout>>

\* TRAFFIC_NEGATIVE_CONTACT, TRAFFIC_LOOKING: the target is called out once
\* more in the answer, with no stamp.  A disregard resets the dialog the same way.
NotInSight ==
    /\ pending # NoTarget
    /\ pending' = NoTarget
    /\ UNCHANGED <<user, issued, acked, lastEmit, callout>>

ChangeUser ==
    /\ user' \in UserStates \ {user}
    /\ UNCHANGED <<issued, acked, lastEmit, pending, callout>>

Older(age) == Min({age + 1, Never})

\* A unit of time passes (about GlobalCooldown): long enough for a frame with
\* an idle radio, so a call-out that is due has been made.
PassTime ==
    /\ pending = NoTarget => GroundConflicts \union Airborne = {}
    /\ issued' = [a \in Aircraft |-> Older(issued[a])]
    /\ acked' = [a \in Aircraft |-> Older(acked[a])]
    /\ lastEmit' = Older(lastEmit)
    /\ callout' = NoCallout
    /\ UNCHANGED <<user, pending>>

AdvisorNext ==
    \/ UNCHANGED pictureVars /\
         (poll_traffic_advisory \/ InSight \/ NotInSight \/ ChangeUser \/ PassTime)
    \/ UNCHANGED advisorVars /\ (update \/ \E a \in Aircraft : Move(a))

AdvisorSpec ==
    PictureInit /\ AdvisorInit /\ [][AdvisorNext]_<<pictureVars, advisorVars>>

(***************************************************************************)
(* Properties.                                                             *)
(***************************************************************************)

\* Types of the advisor.
AdvisorTypeOK ==
    /\ user \in UserStates
    /\ issued \in AdvisoryHistory /\ acked \in AdvisoryHistory
    /\ lastEmit \in 0 .. Never
    /\ pending \in Aircraft \union {NoTarget}

\* The answer the dialog waits for is about the target called out last, so a
\* "traffic in sight" locks out the aircraft the pilot was told about: no later
\* call-out, on the ground or in the air, slips in between.
PendingIsLastIssued ==
    pending # NoTarget =>
      /\ issued[pending] = lastEmit
      /\ \A a \in Aircraft \ {pending} : issued[a] >= lastEmit

\* A near aircraft never hides a farther one for good: a target that qualifies
\* from some time on is called out again and again, whatever the other targets
\* do, if the pilot answers within the global cooldown and never reports it in
\* sight.  (With more targets than PerTargetCooldown / GlobalCooldown, three in
\* the code, the nearest ones do starve the others.)
Due(a) == /\ \E t \in snapshot : t.id = a /\ target_qualifies(t)
          /\ gating_passes /\ ~user.taxi /\ acked[a] = Never
PromptPilot == pending # NoTarget => lastEmit < GlobalCooldown
EveryTargetCalled ==
    \A a \in Aircraft :
      <>[](Due(a) /\ PromptPilot) => []<>(callout.id = a)
=============================================================================
