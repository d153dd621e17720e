---------------------------- MODULE AtcDialogue ----------------------------
(***************************************************************************)
(* The dialogue between pilot and controller: the entry points of the      *)
(* state machine (module AtcStateMachine) as engine::process_transcript    *)
(* (src/src/atc/engine.cpp), the flight loop, the buttons and the          *)
(* failed-speech rollback of the session call them.                        *)
(*                                                                         *)
(* All of them run on the flight-loop thread.  What is concurrent is the   *)
(* language model and the synthesis: between the question to the model     *)
(* and its answer, and between a reply and the news that it was not        *)
(* heard, frames and button clicks change the machine.  The session lets   *)
(* only one transmission be under way (module AtcSession), so "lm" and     *)
(* "guard" hold at most one each.                                          *)
(***************************************************************************)
EXTENDS AtcStateMachine

CONSTANTS
    StartModes,     \* values of settings::start_mode()
    Calls,          \* the transmissions of the pilot: a subset of Messages
    Surroundings,   \* where and when they are made: a subset of Contexts
    Repairs,        \* "read" of a transcript the model has repaired
    FlownPhases,    \* bound: the flight phases the aircraft goes through
    MaxOps,         \* bound: transmissions and button clicks per behaviour
    MaxClock        \* bound: the clock stops there

VARIABLES
    g,              \* g_state
    last_airport,   \* crosscountry_flow's last_airport_id_
    phase,          \* flight_phase's current_phase_
    flown,          \* flight_phase's own was_airborne_
    clock,          \* what the caller passes as now_secs
    lm,             \* the question the language model works on, or None
    guard,          \* revert guard of a reply not yet heard, or None
    heard,          \* the transmission process() worked on in the last step,
                    \* with its circumstances and answer, or None
    ops             \* operations of pilot and user so far

vars == <<g, last_airport, phase, flown, clock, lm, guard, heard, ops>>

Questions == [m : Messages, c : Contexts, at : Nat, pending : BOOLEAN,
              valid : SUBSET (Intents \cup {"_INVALID"}), pre : Machine]

\* What a snapshot protects: everything but the counter and the heartbeat.
semantic(h) ==
    <<h.state, h.readback_pending, h.was_airborne, h.assigned_runway,
      h.session_callsign, h.clearance, h.last_tower_response,
      h.departure_type, h.flight_intent, h.history>>

Hearings == [m : Messages, c : Contexts, phase : Phases, resp : Responses]

ASSUME DialogueAssumption ==
    /\ Calls \subseteq Messages
    /\ Surroundings \subseteq Contexts
    /\ Repairs \subseteq SUBSET Elements
    /\ FlownPhases \subseteq Phases
    /\ None \notin Hearings
    /\ MaxOps \in Nat /\ MaxClock \in Nat

\* The counter is only ever compared, for equality, with a value read at the
\* end of an operation on the same thread: what counts is whether an
\* operation bumped it, so one operation counts as one bump.
commit(old, new) ==
    [new EXCEPT !.gen = IF new.gen = old.gen THEN old.gen ELSE old.gen + 1]

Init ==
    /\ g \in {Started(mode) : mode \in StartModes}
    /\ last_airport = None /\ phase = "PARKED" /\ flown = FALSE
    /\ clock = 0 /\ lm = None /\ guard = None /\ heard = None /\ ops = 0

-----------------------------------------------------------------------------
(* Transmissions.                                                          *)

CanTransmit == lm = None /\ guard = None /\ ops < MaxOps

\* The closure of the rollback.  "after" is not in the code: it remembers
\* what the reply left behind, for GuardSeesEverything.
revert_guard(pre, new) ==
    [snap |-> pre, expected |-> new.gen, after |-> semantic(new)]

\* speak_with_revert_guard: only a reply that has a text is synthesised.
speak(said, pre, new) ==
    guard' = IF said THEN revert_guard(pre, new) ELSE None

\* run_state_machine on message m of context c; "latched" is the machine
\* after the flight intent was latched, "pre" the session's snapshot.
run_state_machine(latched, pre, m, c, t) ==
    LET r == process(latched, last_airport, m, c, phase, t)
        new == commit(g, r.g)
    IN  /\ g' = new
        /\ last_airport' = next_last_airport(last_airport, c.airport)
        /\ heard' = [m |-> m, c |-> c, phase |-> phase, resp |-> r.resp]
        /\ speak(r.resp.said, pre, new)

readback_covers_core(required, read) ==
    /\ "Callsign" \in required \cap read
    /\ required \subseteq {"Callsign"} \/ (required \cap read) \ {"Callsign"} # {}

\* A transcript that repeats the core of the clearance it owes.
IsReadback(m) ==
    g.readback_pending /\ readback_covers_core(g.clearance.required, m.read)

\* The deterministic recognition: whatever the parser thought it was.
HearReadback(m, c) ==
    /\ CanTransmit /\ IsReadback(m)
    /\ m.intent # "INAPPROPRIATE_LANGUAGE"
    /\ run_state_machine(latch_flight_intent(g, m), g,
                         [m EXCEPT !.intent = "READBACK"], c, clock)
    /\ ops' = ops + 1
    /\ UNCHANGED <<phase, flown, clock, lm>>

\* A rule match the engine goes by.
HearCall(m, c) ==
    /\ CanTransmit /\ ~IsReadback(m) /\ m.sure
    /\ m.intent \notin {"UNKNOWN", "INAPPROPRIATE_LANGUAGE"}
    /\ run_state_machine(latch_flight_intent(g, m), g, m, c, clock)
    /\ ops' = ops + 1
    /\ UNCHANGED <<phase, flown, clock, lm>>

TrafficIntents ==
    {"TRAFFIC_IN_SIGHT", "TRAFFIC_NEGATIVE_CONTACT", "TRAFFIC_LOOKING"}

\* Answered outside the state machine: radio discipline, an acknowledged
\* traffic advisory (sometimes silently), a call nobody can make out.  The
\* flight intent is latched before.
AnswerAside(m) ==
    /\ CanTransmit
    /\ \/ m.intent = "INAPPROPRIATE_LANGUAGE"
       \/ m.intent \in TrafficIntents /\ m.sure
       \/ m.intent = "UNKNOWN" /\ ~IsReadback(m)
    /\ LET new == commit(g, latch_flight_intent(g, m))
       IN  /\ g' = new
           /\ \/ speak(TRUE, g, new)
              \/ m.intent \in TrafficIntents /\ speak(FALSE, g, new)
    /\ heard' = None
    /\ ops' = ops + 1
    /\ UNCHANGED <<last_airport, phase, flown, clock, lm>>

\* A recording of too low a quality is not even parsed.
Garbled ==
    /\ CanTransmit
    /\ speak(TRUE, g, g)
    /\ heard' = None /\ ops' = ops + 1
    /\ UNCHANGED <<g, last_airport, phase, flown, clock, lm>>

\* atc_templates::valid_intents and what the model may answer: one of them,
\* or "_INVALID" for anything else.  A key that is no intent (a tower-only
\* variant) becomes UNKNOWN.
valid_intents(h, c) ==
    LET n == state_name(h)
        towered == c.towered /\ c.freq \notin {"UNICOM", "CTAF", "INFO", "RADIO"}
        block == IF towered
                 THEN IF n \in DOMAIN Templates THEN DOMAIN Templates[n] ELSE {}
                 ELSE IF n = "IDLE" THEN DOMAIN UncontrolledTemplates ELSE {}
        half == IF ~towered \/ n # "IDLE" THEN {}
                ELSE IF h.was_airborne
                THEN {"INITIAL_CALL_GROUND", "INITIAL_CALL_TOWER"}
                ELSE {"LEAVING_FREQUENCY"}
    IN  ((block \ half) \cap Intents) \cup TrafficIntents \cup {"_INVALID"}
           \cup (IF n \in DOMAIN TowerOnlyTemplates THEN {"UNKNOWN"} ELSE {})

\* The rules are unsure: the question goes to the model with everything
\* known at the moment of speech.
AskLm(m, c) ==
    /\ CanTransmit /\ ~IsReadback(m)
    /\ m.intent = "UNKNOWN" \/ (~m.sure /\ m.intent # "INAPPROPRIATE_LANGUAGE")
    /\ LET new == commit(g, latch_flight_intent(g, m))
       IN  /\ g' = new
           /\ lm' = [m |-> m, c |-> c, at |-> clock,
                     pending |-> new.readback_pending,
                     valid |-> valid_intents(new, c), pre |-> g]
    /\ heard' = None
    /\ ops' = ops + 1
    /\ UNCHANGED <<last_airport, phase, flown, clock, guard>>

\* The model names an intent: processed in the context of the question, but
\* on the machine and in the flight phase of now.
LmAnswers(intent) ==
    /\ lm # None /\ intent \in lm.valid \ {"_INVALID"}
    /\ \E read \in Repairs \cup {lm.m.read} :
          run_state_machine(g, lm.pre,
             [lm.m EXCEPT !.intent = intent, !.read = read], lm.c, lm.at)
    /\ lm' = None
    /\ UNCHANGED <<phase, flown, clock, ops>>

\* The model fails or cannot place the words, while a readback was owed.
LmInvalidReadback ==
    /\ lm # None /\ lm.pending
    /\ run_state_machine(g, lm.pre, [lm.m EXCEPT !.intent = "READBACK"],
                         lm.c, lm.at)
    /\ lm' = None
    /\ UNCHANGED <<phase, flown, clock, ops>>

\* The same with nothing owed: "say again"; or the model recognises the
\* acknowledgement of a traffic advisory, which the traffic dialogue takes,
\* sometimes silently.
LmAside ==
    /\ lm # None
    /\ \E said \in BOOLEAN : speak(said, lm.pre, g)
    /\ lm' = None /\ heard' = None
    /\ UNCHANGED <<g, last_airport, phase, flown, clock, ops>>

-----------------------------------------------------------------------------
(* The reply is heard, or given up.                                        *)

ReplyHeard ==
    /\ guard # None /\ guard' = None /\ heard' = None
    /\ UNCHANGED <<g, last_airport, phase, flown, clock, lm, ops>>

ReplyLost ==
    /\ guard # None /\ guard' = None /\ heard' = None
    /\ g' = restore_snapshot_if_gen(g, guard.snap, guard.expected)
    /\ UNCHANGED <<last_airport, phase, flown, clock, lm, ops>>

-----------------------------------------------------------------------------
(* Flight loop, aircraft, buttons.                                         *)

\* The phases detect_raw can return: a fast roll is a landing after a
\* flight and a takeoff before.
Detectable == Phases \ {IF flown THEN "TAKEOFF_ROLL" ELSE "LANDING_ROLL"}

\* One frame near airport a (None: far from any), in which the flight phase
\* is, or after its hysteresis becomes, p: flight_phase::update, then
\* check_auto_correction and check_airport_change as atc_session::update
\* calls them.
Frame(a, p) ==
    /\ p = phase \/ p \in Detectable
    /\ phase' = p
    /\ flown' = IF p \in Airborne THEN TRUE
                ELSE IF p \in {"PARKED", "TAXI"} /\ p # phase THEN FALSE ELSE flown
    /\ LET g1 == IF {phase, p} \cap Airborne # {} THEN set_was_airborne(g, TRUE)
                 ELSE g
           g2 == check_auto_correction(g1, p, clock)
           g3 == check_airport_change(g2, last_airport, a, clock)
       IN  g' = commit(g, g3)
    /\ last_airport' = next_last_airport(last_airport, a)
    /\ clock' = IF clock < MaxClock THEN clock + 1 ELSE clock
    /\ heard' = None
    /\ UNCHANGED <<lm, guard, ops>>

\* The button is drawn in every state but IDLE.
Disregard(near_airport) ==
    /\ ops < MaxOps /\ g.state # "IDLE"
    /\ g' = commit(g, disregard(g, phase, near_airport, clock))
    /\ heard' = None /\ ops' = ops + 1
    /\ UNCHANGED <<last_airport, phase, flown, clock, lm, guard>>

NewFlightButton ==
    /\ ops < MaxOps
    /\ g' = set_was_airborne(g, FALSE)
    /\ heard' = None /\ ops' = ops + 1
    /\ UNCHANGED <<last_airport, phase, flown, clock, lm, guard>>

\* XPLM_MSG_AIRPORT_LOADED or XPLM_MSG_PLANE_LOADED.
FreshFlight(on_ground) ==
    /\ ops < MaxOps
    /\ g' = begin_fresh_flight(g, on_ground)
    /\ last_airport' = IF between_flights(g, on_ground) THEN None ELSE last_airport
    /\ heard' = None /\ ops' = ops + 1
    /\ UNCHANGED <<phase, flown, clock, lm, guard>>

Next ==
    \/ \E m \in Calls, c \in Surroundings :
          HearReadback(m, c) \/ HearCall(m, c) \/ AskLm(m, c)
    \/ \E m \in Calls : AnswerAside(m)
    \/ Garbled
    \/ \E i \in Intents : LmAnswers(i)
    \/ LmInvalidReadback
    \/ LmAside
    \/ ReplyHeard
    \/ ReplyLost
    \/ \E a \in Airports \cup {None}, p \in FlownPhases : Frame(a, p)
    \/ \E near \in BOOLEAN : Disregard(near)
    \/ NewFlightButton
    \/ \E on_ground \in BOOLEAN : FreshFlight(on_ground)

Spec == Init /\ [][Next]_vars

\* X-Plane calls the flight loop for ever, also while the aircraft stays
\* where it is; nothing is assumed of the pilot, the aircraft, the model or
\* the speaker.
LiveSpec == Spec /\ WF_vars(Frame(last_airport, phase))

-----------------------------------------------------------------------------
(* Properties.                                                             *)

\* Every variable has its type: in particular g_state keeps its fields in
\* their enumerations through every path of process() and every rollback.
TypeOK ==
    /\ g \in Machine
    /\ last_airport \in Airports \cup {None}
    /\ phase \in Phases /\ flown \in BOOLEAN
    /\ clock \in 0..MaxClock
    /\ ops \in 0..MaxOps
    /\ lm \in Questions \cup {None}
    /\ guard # None => guard.snap \in Machine /\ guard.expected \in Nat
    /\ heard \in Hearings \cup {None}

\* A readback that is owed can be given: is_readback_pending() implies that
\* the clearance it is compared with is still stored, whatever frames,
\* buttons, late answers and rollbacks did in between (the deterministic
\* recognition would never fire again otherwise).
ArmedWithClearance == g.readback_pending => g.clearance # None

\* The history is a chain: no self-transition is recorded, neighbours
\* differ, the newest entry differs from the current state, and the cap
\* holds (transition_to, and rollbacks that bring an old history back).
HistoryChain ==
    /\ Len(g.history) <= HistoryCap
    /\ \A i \in 1..Len(g.history) :
          g.history[i].state # IF i = Len(g.history) THEN g.state
                               ELSE g.history[i + 1].state

\* While the generation still is the one the revert guard expects, the
\* machine is what the unheard reply left behind: no frame, click or answer
\* changes a semantic field without bumping the counter, so a rollback
\* never discards anything but the reply (the rule stated at the top of
\* atc_state_machine.cpp).
GuardSeesEverything ==
    guard # None /\ g.gen = guard.expected => semantic(g) = guard.after

\* What was known when the question now with the model was put, and the
\* reply not yet heard with what its loss would bring back.
Asked == IF lm = None THEN {} ELSE {semantic(lm.pre)}
Unspoken == IF guard = None THEN {}
            ELSE {[before |-> semantic(guard.snap),
                   moved |-> g.gen # guard.expected]}

\* The dialogue keeps the promise of the rollback, for all of g_state and
\* everything that process() and the frames do to it: a lost reply takes the
\* machine back to what it was when the pilot spoke, the language model's
\* thinking time included, and a change by anybody else since the reply
\* prevents it (generation_, restore_snapshot_if_gen).
Promise == INSTANCE UnheardReply
              WITH val <- semantic(g), asked <- Asked, reply <- Unspoken

DialogueKeepsPromise == Promise!USpec

Rollback == guard # None /\ guard' = None /\ lm' = lm /\ ops' = ops

RunwayStates == {"DEPARTURE_CLEARED", "LANDING_CLEARED", "TOUCH_AND_GO_CLEARED"}

\* The pilot is cleared onto a runway only by an answer to a call made on a
\* tower frequency of a controlled field, in a flight phase that fits:
\* for takeoff on the ground, to land in the air.  The model's late
\* answers run in the phase of now.
ClearedByTower ==
    [][/\ g'.state \in RunwayStates /\ g'.state # g.state /\ ~Rollback
       => /\ heard' # None
          /\ heard'.c.freq = "TOWER" /\ heard'.c.towered
          /\ (g'.state = "DEPARTURE_CLEARED") <=> (heard'.phase \notin Airborne)]_vars

\* What ClearedByTower needs of the profile's tables.  A template that leads
\* onto a runway is one of an intent whose preconditions fit, and on every
\* other frequency of a controlled field than the tower's one of three
\* guards stops the call: the intent is refused, the machine leaves the
\* state, or the pilot is redirected.  No other table leads onto a runway.
FitsPhase(i, next) ==
    /\ i \in DOMAIN Preconditions
    /\ IF next = "DEPARTURE_CLEARED" THEN Preconditions[i] \cap Airborne = {}
                                     ELSE Preconditions[i] \subseteq Airborne

StoppedOn(f, n, i) ==
    \/ i \in DOMAIN IntentFrequency /\ f \notin IntentFrequency[i]
    \/ /\ n \notin {"IDLE", "EN_ROUTE"} /\ f # "UNKNOWN"
       /\ f \in DOMAIN FrequencyValidity /\ n \notin FrequencyValidity[f]
    \/ /\ n = "IDLE"
       /\ \E r \in IdleRedirects :
             r.freq = f /\ i \in r.intents /\ ~r.unless_tower_only

GuardedClearance(n, i, next) ==
    /\ i \in Intents \ {"INITIAL_CALL_GROUND"}
    /\ FitsPhase(i, next)
    /\ \A f \in {"UNKNOWN", "DELIVERY", "GROUND", "ATIS"} : StoppedOn(f, n, i)

\* The state a name of the tables stands for.
StateOf(n) == IF n \in {"Pattern/DEPARTURE_CLEARED", "XC/DEPARTURE_CLEARED"}
              THEN "DEPARTURE_CLEARED" ELSE n

GuardedTable(T) ==
    \A n \in DOMAIN T : \A i \in DOMAIN T[n] :
        T[n][i].next \in RunwayStates \ {StateOf(n)}
            => GuardedClearance(n, i, T[n][i].next)

GuardedProfile ==
    /\ GuardedTable(Templates) /\ GuardedTable(TowerOnlyTemplates)
    /\ \A i \in DOMAIN InfoTemplates : InfoTemplates[i].next \notin RunwayStates
    /\ \A r \in StateReverts : r.to \notin RunwayStates
    /\ \A n \in DOMAIN FrequencyAutoCorrections :
          /\ FrequencyAutoCorrections[n].freqs \subseteq {"TOWER"}
          /\ FrequencyAutoCorrections[n].next \notin RunwayStates
    /\ \A n \in DOMAIN TowerOnlyAutoAdvance :
          TowerOnlyAutoAdvance[n] \notin RunwayStates
    /\ \A n \in DOMAIN AutoCorrections : \A i \in DOMAIN AutoCorrections[n] :
          AutoCorrections[n][i].next \notin RunwayStates

\* A pilot who declared a cross-country flight gets a cross-country
\* departure, however the intent was found (NfL 1.4.7, the promotion at the
\* head of process()).
XcHonoured ==
    [][/\ heard' # None /\ heard'.resp.readback
       /\ heard'.m.intent \in {"READY_FOR_DEPARTURE", "READY_FOR_DEPARTURE_VFR"}
       /\ g'.state = "DEPARTURE_CLEARED" /\ g'.flight_intent = "xc"
       => g'.departure_type = "CROSS_COUNTRY"]_vars

\* What XcHonoured needs of the profile: once cleared for the pattern, the
\* VFR variant is not answered by a second clearance that leaves the kind of
\* departure as it is, and no tower-only advance clears for departure.
XcProfile ==
    /\ \A T \in {Templates, TowerOnlyTemplates} :
          "Pattern/DEPARTURE_CLEARED" \in DOMAIN T =>
             \A i \in DOMAIN T["Pattern/DEPARTURE_CLEARED"]
                        \cap {"READY_FOR_DEPARTURE_VFR", "_INVALID"} :
                LET e == T["Pattern/DEPARTURE_CLEARED"][i]
                IN  e.next = "DEPARTURE_CLEARED" => ~e.readback
    /\ \A n \in DOMAIN TowerOnlyAutoAdvance :
          TowerOnlyAutoAdvance[n] # "DEPARTURE_CLEARED"

\* In strict mode a readback ends the obligation only if it repeats every
\* element owed, also when it was only taken for one because the model
\* could not place the words ("this only silently absorbs a complete
\* readback", engine.cpp).
StrictHolds ==
    [][/\ German /\ BzfStrict
       /\ heard' # None /\ heard'.m.intent = "READBACK"
       /\ g.readback_pending /\ ~g'.readback_pending /\ g.state # "EN_ROUTE"
       => g.clearance.required \subseteq heard'.m.read]_vars

\* The machine follows the aircraft: once the flight phase stays what it
\* is, no state remains for which the profile has a correction in that
\* phase (check_auto_correction is called in every frame).
Corrected(p) == state_name(g) \in DOMAIN AutoCorrections
                   => matching(state_name(g), p) = {}

PhaseWins == \A p \in Phases : <>[](phase = p) => <>[]Corrected(p)
=============================================================================
