------------------------- MODULE SurroundingsProofs -------------------------
(***************************************************************************)
(* Proofs about what the plugin senses: the traffic advisor, the airport   *)
(* context and the flight phase detector, each for every value of its      *)
(* constants.                                                              *)
(***************************************************************************)
EXTENDS TrafficAdvisor, AirportContext, FlightPhase, TLAPS

(***************************************************************************)
(* The traffic advisor.                                                    *)
(***************************************************************************)

\* Every target of the snapshot is one of the aircraft.
KnownTargets == \A t \in snapshot : t.id \in Aircraft

AdvisorInv == AdvisorTypeOK /\ KnownTargets /\ PendingIsLastIssued

\* An age grows by one up to the longest lockout, and keeps the order of ages.
LEMMA OlderAge ==
    ASSUME NEW age \in 0 .. Never
    PROVE  Older(age) = IF age < Never THEN age + 1 ELSE Never
  <1> DEFINE S == {age + 1, Never}
             least == IF age < Never THEN age + 1 ELSE Never
  <1>1. Never \in Nat /\ age \in Nat
    BY CooldownAssumption DEF Never
  <1>2. least \in S /\ \A y \in S : least <= y
    BY <1>1
  <1>3. \A x \in S : (\A y \in S : x <= y) => x = least
    BY <1>1
  <1>4. Min(S) = least
    BY <1>2, <1>3 DEF Min
  <1> QED BY <1>4 DEF Older

LEMMA AdvisorInitInv == PictureInit /\ AdvisorInit => AdvisorInv
  BY CooldownAssumption DEF PictureInit, AdvisorInit, AdvisorInv, AdvisorTypeOK, KnownTargets,
     PendingIsLastIssued, AdvisoryHistory, Never

LEMMA AdvisorNextInv ==
    AdvisorInv /\ [AdvisorNext]_<<pictureVars, advisorVars>> => AdvisorInv'
  <1> SUFFICES ASSUME AdvisorInv, [AdvisorNext]_<<pictureVars, advisorVars>>
               PROVE  AdvisorInv'
    OBVIOUS
  <1>0. Never \in Nat
    BY CooldownAssumption DEF Never
  <1>1. CASE UNCHANGED pictureVars /\ CallGround
    <2>1. PICK t \in snapshot : mark_emitted(t.id)
      BY <1>1 DEF CallGround, Nearest, GroundConflicts
    <2>2. t.id \in Aircraft /\ issued \in [Aircraft -> 0 .. Never]
      BY DEF AdvisorInv, KnownTargets, AdvisorTypeOK, AdvisoryHistory
    <2>3. issued' \in [Aircraft -> 0 .. Never] /\ lastEmit' = 0
      BY <2>1, <2>2, <1>0 DEF mark_emitted
    <2> QED
      BY <1>0, <1>1, <2>3 DEF CallGround, AdvisorInv, AdvisorTypeOK, KnownTargets, AdvisoryHistory,
         PendingIsLastIssued, pictureVars
  <1>2. CASE UNCHANGED pictureVars /\ CallAirborne
    <2>1. PICK t \in snapshot : mark_emitted(t.id) /\ pending' = t.id
      BY <1>2 DEF CallAirborne, Nearest, Airborne
    <2>2. t.id \in Aircraft /\ issued \in [Aircraft -> 0 .. Never]
      BY DEF AdvisorInv, KnownTargets, AdvisorTypeOK, AdvisoryHistory
    <2>3. /\ issued' \in [Aircraft -> 0 .. Never] /\ lastEmit' = 0
          /\ issued'[t.id] = 0
      BY <2>1, <2>2, <1>0 DEF mark_emitted
    <2>4. PendingIsLastIssued'
      BY <1>0, <2>1, <2>2, <2>3 DEF PendingIsLastIssued
    <2> QED
      BY <1>0, <1>2, <2>1, <2>2, <2>3, <2>4 DEF CallAirborne, AdvisorInv, AdvisorTypeOK, KnownTargets,
         AdvisoryHistory, pictureVars
  <1>3. CASE UNCHANGED pictureVars /\ (InSight \/ NotInSight \/ ChangeUser)
    BY <1>0, <1>3 DEF InSight, NotInSight, ChangeUser, AdvisorInv, AdvisorTypeOK, KnownTargets,
       AdvisoryHistory, PendingIsLastIssued, pictureVars
  <1>4. CASE UNCHANGED pictureVars /\ PassTime
    <2>1. /\ issued \in [Aircraft -> 0 .. Never] /\ acked \in [Aircraft -> 0 .. Never]
          /\ lastEmit \in 0 .. Never
      BY DEF AdvisorInv, AdvisorTypeOK, AdvisoryHistory
    <2>2. \A x \in 0 .. Never : Older(x) \in 0 .. Never
      BY <1>0, OlderAge
    <2>3. \A x, y \in 0 .. Never : x >= y => Older(x) >= Older(y)
      BY <1>0, OlderAge
    <2>4. AdvisorTypeOK'
      BY <1>4, <2>1, <2>2 DEF PassTime, AdvisorInv, AdvisorTypeOK, AdvisoryHistory
    <2>5. PendingIsLastIssued'
      BY <1>4, <2>1, <2>3 DEF PassTime, AdvisorInv, AdvisorTypeOK, PendingIsLastIssued
    <2> QED BY <1>4, <2>4, <2>5 DEF AdvisorInv, KnownTargets, pictureVars
  <1>5. CASE UNCHANGED advisorVars /\ (update \/ \E a \in Aircraft : Move(a))
    <2>1. KnownTargets'
      <3>1. CASE UpdateDisabled \/ \E a \in Aircraft : Move(a)
        BY <3>1 DEF UpdateDisabled, Move, AdvisorInv, KnownTargets
      <3>2. CASE UpdateEnabled
        <4>1. PICK geo : snapshot' = {[id |-> a, stage |-> life[a], geo |-> geo[a], phase |-> PhaseOf(a)] :
                                        a \in Seen}
          BY <3>2 DEF UpdateEnabled
        <4>2. \A a \in Seen : a \in Aircraft
          BY DEF Seen
        <4> QED BY <4>1, <4>2 DEF KnownTargets
      <3> QED BY <1>5, <3>1, <3>2 DEF update
    <2> QED
      BY <1>5, <2>1 DEF advisorVars, AdvisorInv, AdvisorTypeOK, PendingIsLastIssued
  <1>6. CASE UNCHANGED <<pictureVars, advisorVars>>
    BY <1>6 DEF pictureVars, advisorVars, AdvisorInv, AdvisorTypeOK, KnownTargets, PendingIsLastIssued
  <1> QED
    BY <1>1, <1>2, <1>3, <1>4, <1>5, <1>6 DEF AdvisorNext, poll_traffic_advisory

\* The dialog always waits for an answer about the target that was called out
\* last, for every number of aircraft, every geometry and every choice of the
\* cooldowns: no poll of the flight loop slips a second call-out in between.
THEOREM AnswerIsAboutLastCallout == AdvisorSpec => []PendingIsLastIssued
  <1>1. AdvisorInv => PendingIsLastIssued
    BY DEF AdvisorInv
  <1> QED BY <1>1, AdvisorInitInv, AdvisorNextInv, PTL DEF AdvisorSpec

(***************************************************************************)
(* The flight phase detector.                                              *)
(***************************************************************************)

\* While the phase is on the ground and the candidate in the air, the aircraft has
\* been off the ground at least as long as the candidate's timer says.
TimerIsAirtime ==
    is_on_ground(current_phase) /\ is_airborne(candidate_phase) =>
        candidate_timer <= offGround \/ offGround = thresholds.to_airborne

PhaseInv ==
    /\ thresholds \in Thresholds
    /\ candidate_timer \in Nat
    /\ offGround \in Int
    /\ offGround >= 0 \/ offGround = thresholds.to_airborne
    /\ TimerIsAirtime

LEMMA PhaseInitInv == PhaseInit => PhaseInv
  BY DEF PhaseInit, PhaseInv, TimerIsAirtime, is_airborne

\* A frame: the raw phase is in the air only if the aircraft is.
LEMMA RawInAir ==
    ASSUME NEW c, is_airborne(detect_raw(c)) PROVE ~c.ground
  BY DEF is_airborne, detect_raw, DetectGround

\* A frame keeps the invariant, and the phase leaves the ground only after the
\* aircraft was in the air for ground_to_airborne_sec.
LEMMA FrameKeepsPhase ==
    ASSUME PhaseInv, NEW c \in Samples, NEW dt \in Durations, PhaseUpdate(c, dt)
    PROVE  /\ PhaseInv'
           /\ is_on_ground(current_phase) /\ is_airborne(current_phase')
                => offGround' = thresholds.to_airborne
  <1> DEFINE raw == detect_raw(c)
             lim == thresholds.to_airborne
  <1>1. dt \in Nat /\ dt > 0 /\ lim \in Int
    BY PhaseAssumption DEF PhaseInv
  <1>2. candidate_timer' = 0 \/ candidate_timer' = Timed(raw, dt)
    BY DEF PhaseUpdate, Steady, Hold, Transition
  <1>3. Timed(raw, dt) \in Nat
    BY <1>1 DEF Timed, PhaseInv
  <1>4. candidate_phase' = raw /\ thresholds' = thresholds
    BY DEF PhaseUpdate, Steady, Hold, Transition
  <1>5. offGround' = IF c.ground THEN 0
                     ELSE IF offGround + dt > lim THEN lim ELSE offGround + dt
    BY DEF PhaseUpdate
  <1>6. ASSUME is_airborne(raw), is_on_ground(current_phase)
        PROVE  /\ Timed(raw, dt) <= offGround' \/ offGround' = lim
               /\ Timed(raw, dt) >= lim => offGround' = lim
    <2>1. ~c.ground
      BY <1>6, RawInAir
    <2>2. \/ Timed(raw, dt) = dt
          \/ Timed(raw, dt) = candidate_timer + dt /\ candidate_phase = raw
          \/ Timed(raw, dt) = candidate_timer /\ candidate_phase = raw
          \/ Timed(raw, dt) = 0
      BY <1>1 DEF Timed, PhaseInv
    <2>3. candidate_phase = raw => candidate_timer <= offGround \/ offGround = lim
      BY <1>6 DEF PhaseInv, TimerIsAirtime
    <2> QED
      BY <1>1, <1>5, <2>1, <2>2, <2>3 DEF PhaseInv
  <1>7. offGround' \in Int /\ (offGround' >= 0 \/ offGround' = lim)
    BY <1>1, <1>5 DEF PhaseInv
  <1>8. current_phase' = current_phase \/ current_phase' = raw
    BY DEF PhaseUpdate, Steady, Hold, Transition
  <1>9. \A p : ~(is_on_ground(p) /\ is_airborne(p))
    BY DEF is_on_ground, is_airborne
  <1>10. TimerIsAirtime'
    <2> SUFFICES ASSUME is_on_ground(current_phase'), is_airborne(raw)
                 PROVE  candidate_timer' <= offGround' \/ offGround' = lim
      BY <1>4 DEF TimerIsAirtime
    <2>1. current_phase' = current_phase
      BY <1>8, <1>9
    <2> QED BY <1>2, <1>3, <1>6, <1>7, <2>1
  <1>11. ASSUME is_on_ground(current_phase), is_airborne(current_phase')
         PROVE  offGround' = lim
    <2>1. current_phase' # current_phase
      BY <1>9, <1>11
    <2>2. Transition(raw, dt) /\ is_airborne(raw)
      BY <1>8, <1>11, <2>1 DEF PhaseUpdate, Steady, Hold
    <2>3. LiftOff(current_phase, raw)
      BY <1>9, <1>11, <2>2 DEF LiftOff
    <2>4. ~TouchDown(current_phase, raw) /\ ~Jitter(current_phase, raw)
      <3>1. current_phase \notin {"PATTERN", "FINAL_APPROACH"}
        BY <1>11 DEF is_on_ground
      <3>2. current_phase \in {current_phase, raw}
        OBVIOUS
      <3> QED BY <1>11, <3>1, <3>2 DEF TouchDown, Jitter
    <2>5. hysteresis_duration(current_phase, raw) = lim
      BY <2>3, <2>4 DEF hysteresis_duration
    <2>6. Timed(raw, dt) >= lim
      BY <2>2, <2>3, <2>5 DEF Transition, DelayOver, needs_hysteresis
    <2> QED BY <1>6, <1>11, <2>2, <2>6
  <1> QED
    BY <1>2, <1>3, <1>4, <1>7, <1>10, <1>11 DEF PhaseInv

LEMMA PhaseNextInv == PhaseInv /\ [PhaseNext]_phaseVars => PhaseInv'
  <1> SUFFICES ASSUME PhaseInv, [PhaseNext]_phaseVars PROVE PhaseInv'
    OBVIOUS
  <1>1. CASE PhaseFrame
    BY <1>1, FrameKeepsPhase DEF PhaseFrame
  <1>2. CASE SessionReverted \/ UNCHANGED phaseVars
    BY <1>2 DEF SessionReverted, phaseVars, PhaseInv, TimerIsAirtime
  <1>3. CASE PhaseStop
    BY <1>3 DEF PhaseStop, PhaseInv, TimerIsAirtime, is_airborne
  <1> QED BY <1>1, <1>2, <1>3 DEF PhaseNext

\* A bounce is not a take-off, for every sequence of frames of any length and
\* every flight_rules.json.
THEOREM NoTakeOffInABounce == PhaseSpec => BounceIgnored
  <1>1. PhaseInv /\ [PhaseNext]_phaseVars =>
          [is_on_ground(current_phase) /\ is_airborne(current_phase')
             => offGround' = thresholds.to_airborne]_phaseVars
    <2> SUFFICES ASSUME PhaseInv, PhaseNext,
                        is_on_ground(current_phase), is_airborne(current_phase')
                 PROVE  offGround' = thresholds.to_airborne
      OBVIOUS
    <2>1. ~SessionReverted /\ ~PhaseStop
      BY DEF SessionReverted, PhaseStop, is_on_ground, is_airborne
    <2> QED BY <2>1, FrameKeepsPhase DEF PhaseNext, PhaseFrame
  <1> QED BY <1>1, PhaseInitInv, PhaseNextInv, PTL DEF PhaseSpec, BounceIgnored

(***************************************************************************)
(* The airport context.                                                    *)
(***************************************************************************)

ContextFields == {"geometric", "nearest", "freqs", "facility", "tower_only", "atis",
                  "runways", "freq_type"}

\* The frequencies, facility and runways of a context are those of its airport.
Coherent(c) ==
    /\ c.freqs # <<>> => c.nearest # NoAirport /\ c.freqs = Table[c.nearest]
    /\ c.facility = classify_facility(c.freqs)
    /\ c.runways \in {NoAirport, c.nearest}

\* Until the caches are ready no look-up finds anything: a look-up that then only
\* replaces the airport cannot leave the data of another one beside it.
ContextInv ==
    /\ DOMAIN ctx = ContextFields
    /\ Coherent(ctx)
    /\ ~ready => ctx.freqs = <<>> /\ ctx.runways = NoAirport

LEMMA NothingHasNoFacility == classify_facility(<<>>) = "UNKNOWN"
  BY DEF classify_facility, has

\* populate_ctx_from_cache makes a context of one airport, whatever it is given.
LEMMA PopulateIsCoherent ==
    ASSUME NEW c, NEW a, DOMAIN c = ContextFields
    PROVE  LET d == populate_ctx_from_cache(c, a)
           IN  DOMAIN d = ContextFields /\ Coherent(d)
  <1> DEFINE d == populate_ctx_from_cache(c, a)
  <1>1. DOMAIN d = ContextFields
    BY DEF populate_ctx_from_cache
  <1>2. /\ d.nearest = a /\ d.freqs = Cached(a)
        /\ d.facility = classify_facility(Cached(a))
        /\ d.runways \in {NoAirport, a}
    BY DEF populate_ctx_from_cache, ContextFields
  <1>3. Cached(a) # <<>> => a # NoAirport /\ Cached(a) = Table[a]
    BY AirportAssumption DEF Cached
  <1> QED BY <1>1, <1>2, <1>3 DEF Coherent

LEMMA ContextInitInv == ContextInit => ContextInv
  BY NothingHasNoFacility DEF ContextInit, ContextInv, EmptyContext, ContextFields, Coherent

\* The head of a frame classifies the tuned frequency and touches nothing else.
LEMMA TunedKeepsAirport ==
    ASSUME DOMAIN ctx = ContextFields
    PROVE  /\ DOMAIN Tuned = ContextFields
           /\ Tuned.freqs = ctx.freqs /\ Tuned.nearest = ctx.nearest
           /\ Tuned.facility = ctx.facility /\ Tuned.runways = ctx.runways
  BY DEF Tuned, ContextFields

LEMMA ContextNextInv == ContextInv /\ [ContextNext]_contextVars => ContextInv'
  <1> SUFFICES ASSUME ContextInv, [ContextNext]_contextVars PROVE ContextInv'
    OBVIOUS
  <1>0. /\ DOMAIN ctx = ContextFields
        /\ Coherent(ctx)
        /\ ~ready => ctx.freqs = <<>> /\ ctx.runways = NoAirport
    BY DEF ContextInv
  <1>1. CASE PlainFrame
    <2>1. ready' = ready /\ ctx' = Tuned
      BY <1>1 DEF PlainFrame, ready
    <2> QED BY <1>0, <2>1, TunedKeepsAirport DEF ContextInv, Coherent
  <1>2. CASE LookUpFrame
    <2>0. ready' = ready /\ DOMAIN Tuned = ContextFields
      BY <1>0, <1>2, TunedKeepsAirport DEF LookUpFrame, ready
    <2>1. CASE LookUpLocked(Tuned)
      <3>1. PICK c : DOMAIN c = ContextFields /\ ctx' = populate_ctx_from_cache(c, locked)
        <4>1. DOMAIN [Tuned EXCEPT !.geometric = NearestAt[place]] = ContextFields
          BY <2>0
        <4> QED BY <2>0, <2>1, <4>1 DEF LookUpLocked
      <3>2. ready
        BY <2>1 DEF LookUpLocked, HasPosition, ready
      <3> QED BY <2>0, <3>1, <3>2, PopulateIsCoherent DEF ContextInv, Coherent
    <2>2. CASE LookUpNearest(Tuned)
      <3> DEFINE c1 == [Tuned EXCEPT !.geometric = NearestAt[place]]
      <3>1. /\ DOMAIN c1 = ContextFields
            /\ c1.freqs = ctx.freqs /\ c1.runways = ctx.runways
        BY <1>0, <2>0, TunedKeepsAirport DEF ContextFields
      <3>2. PICK a : ctx' = IF ready THEN populate_ctx_from_cache(c1, a)
                            ELSE [c1 EXCEPT !.nearest = a, !.facility = "UNKNOWN"]
        BY <2>2 DEF LookUpNearest
      <3>3. CASE ready
        BY <2>0, <3>1, <3>2, <3>3, PopulateIsCoherent DEF ContextInv, Coherent
      <3>4. CASE ~ready
        <4>1. /\ DOMAIN ctx' = ContextFields
              /\ ctx'.freqs = <<>> /\ ctx'.runways = NoAirport /\ ctx'.facility = "UNKNOWN"
          BY <1>0, <3>1, <3>2, <3>4 DEF ContextFields
        <4> QED BY <4>1, NothingHasNoFacility DEF ContextInv, Coherent
      <3> QED BY <3>3, <3>4
    <2>3. CASE LookUpNothing(Tuned)
      <3>1. /\ DOMAIN ctx' = ContextFields
            /\ ctx'.freqs = <<>> /\ ctx'.runways = NoAirport /\ ctx'.facility = "UNKNOWN"
        BY <2>3 DEF LookUpNothing, EmptyContext, ContextFields
      <3> QED BY <3>1, NothingHasNoFacility DEF ContextInv, Coherent
    <2> QED BY <1>2, <2>1, <2>2, <2>3 DEF LookUpFrame
  <1>3. CASE build_towered_cache
    BY <1>0, <1>3 DEF build_towered_cache, ready, ContextInv, Coherent
  <1>4. CASE unlock_airport \/ Simulate \/ UNCHANGED contextVars
    BY <1>0, <1>4 DEF unlock_airport, Simulate, contextVars, ready, ContextInv, Coherent
  <1>5. ASSUME NEW a \in Airports, lock_airport(a) PROVE ContextInv'
    <2>1. ready' /\ ctx' = populate_ctx_from_cache(ctx, a)
      BY <1>5 DEF lock_airport, find_nearby_airports, HasPosition, ready
    <2> QED BY <1>0, <2>1, PopulateIsCoherent DEF ContextInv, Coherent
  <1> QED BY <1>1, <1>2, <1>3, <1>4, <1>5 DEF ContextNext

\* The context never mixes two airports, for every apt.dat, every flight and every
\* moment at which the cache thread finishes: lock, frequency match and nearest
\* airport all replace every field that depends on the airport, and the look-ups
\* made before the caches are ready leave nothing to mix.
THEOREM ContextIsOneAirport == ContextSpec => []OneAirport
  <1>1. ContextInv => OneAirport
    BY DEF ContextInv, Coherent, OneAirport
  <1> QED BY <1>1, ContextInitInv, ContextNextInv, PTL DEF ContextSpec
=============================================================================
