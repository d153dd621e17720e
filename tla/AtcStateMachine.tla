-------------------------- MODULE AtcStateMachine --------------------------
(***************************************************************************)
(* The transition function of the controller's state machine:              *)
(* src/src/atc/atc_state_machine.cpp and the pipeline of guards in         *)
(* src/src/atc/flows/ground_operations.cpp, pattern_flow.cpp and           *)
(* crosscountry_flow.cpp.                                                  *)
(*                                                                         *)
(* The file-local struct g_state is a record (Machine); every function     *)
(* that changes it is an operator from the old record to the new one, and  *)
(* every function that also answers the pilot yields [g, resp].  What the  *)
(* code reads from the profile's JSON files is a CONSTANT table, so        *)
(* that what is proved holds for every profile that satisfies              *)
(* ProfileAssumption; the German profile is module DeProfile.              *)
(*                                                                         *)
(* Data is abstracted: a text is the set of read-back elements it issues   *)
(* and whether it is empty, a runway or a callsign is a value of a set.    *)
(* "t" is the now_secs of the entry point: every entry point stores it in  *)
(* last_now_secs_ before it can reach transition_to(), its only reader.    *)
(***************************************************************************)
EXTENDS Integers, Sequences

CONSTANTS
    None,                     \* an empty string, an unset record
    Runways, Callsigns, Airports,
    HistoryCap,               \* kHistoryCap
    German,                   \* atc_profile() == "DE"
    BzfStrict,                \* bzf_strict_mode()
    Templates,                \* "towered" block: state name -> intent -> entry
    TowerOnlyTemplates,       \* its <intent>_TOWER_ONLY variants
    InfoTemplates,            \* "uncontrolled" / INFO block
    UncontrolledTemplates,    \* "uncontrolled" / IDLE block
    RadioTemplates,           \* "uncontrolled" / RADIO block
    Preconditions,            \* intent -> allowed phases
    IntentFrequency,          \* intent -> allowed frequency types
    FrequencyValidity,        \* frequency type -> valid state names
    FrequencyAutoCorrections, \* state name -> rule
    IdleRedirects,            \* set of rules
    StateReverts,             \* set of rules
    TowerOnlyAutoAdvance,     \* state name -> state
    AutoCorrections           \* state name -> sequence of rules

ATCStates == {"IDLE", "GROUND_CONTACT", "TAXI_CLEARED", "TOWER_CONTACT",
              "DEPARTURE_CLEARED", "PATTERN_ENTRY", "LANDING_CLEARED",
              "TOUCH_AND_GO_CLEARED", "UNICOM_ACTIVE", "EN_ROUTE"}

\* The keys of the tables.  Only DEPARTURE_CLEARED has two names; the other
\* flow prefixes are one to one and left out.
StateNames == (ATCStates \ {"DEPARTURE_CLEARED"})
              \cup {"Pattern/DEPARTURE_CLEARED", "XC/DEPARTURE_CLEARED"}

Phases == {"PARKED", "TAXI", "TAKEOFF_ROLL", "CLIMB", "PATTERN",
           "FINAL_APPROACH", "LANDING_ROLL", "CRUISE"}

Airborne == {"CLIMB", "PATTERN", "FINAL_APPROACH", "CRUISE"}

FrequencyTypes == {"UNKNOWN", "DELIVERY", "GROUND", "TOWER", "UNICOM",
                   "CTAF", "ATIS", "INFO", "RADIO"}

Intents ==
    {"UNKNOWN", "RADIO_CHECK", "INITIAL_CALL", "INITIAL_CALL_GROUND",
     "INITIAL_CALL_TOWER", "INITIAL_CALL_INBOUND", "INITIAL_CALL_INBOUND_VRP",
     "REQUEST_TAXI", "REQUEST_TAXI_PARKING", "READY_FOR_DEPARTURE",
     "READY_FOR_DEPARTURE_VFR", "REPORT_POSITION", "REPORT_POSITION_DOWNWIND",
     "REPORT_POSITION_BASE", "REPORT_POSITION_FINAL", "REQUEST_LANDING",
     "REQUEST_TOUCH_AND_GO", "GO_AROUND", "RUNWAY_VACATED", "READBACK",
     "REQUEST_FREQUENCY", "LEAVING_FREQUENCY", "UNABLE", "SELF_ANNOUNCE",
     "SELF_ANNOUNCE_DEPARTURE", "INAPPROPRIATE_LANGUAGE",
     "NEGATIVE_CORRECTION", "TRAFFIC_IN_SIGHT", "TRAFFIC_NEGATIVE_CONTACT",
     "TRAFFIC_LOOKING", "REQUEST_REPEAT", "RMZ_ENTER", "RMZ_LEAVE"}

\* Squawk is never a candidate of a clearance.
Elements == {"Callsign", "Runway", "QNH", "Frequency"}

\* A template: its text by the elements it speaks, none if it is empty.
Entries == [next : ATCStates, readback : BOOLEAN, said : BOOLEAN,
            issued : SUBSET Elements]

\* An intent_parser::PilotMessage.  "read" is the result of comparing the
\* transcript with the outstanding clearance: the elements it repeats
\* correctly.  "complete" is the verdict of initial_call_conformance,
\* "declares" the flight intent extracted from the words, "sure" that the
\* engine goes by the rules' verdict: it is confident or no model is loaded.
Messages == [intent : Intents, sure : BOOLEAN, runway : Runways \cup {None},
             callsign : Callsigns \cup {None}, read : SUBSET Elements,
             complete : BOOLEAN, declares : {"none", "xc", "pattern"}]

\* The part of XPlaneContext the machine reads.  "active" is active_runway,
\* with the code's default where that is empty; "traffic" is the verdict of
\* compute_landing_sequence: nobody, somebody ahead in the sequence, or
\* somebody on the runway.
Contexts == [freq : FrequencyTypes, towered : BOOLEAN, tower_only : BOOLEAN,
             on_ground : BOOLEAN, airport : Airports \cup {None},
             active : Runways, traffic : {"none", "ahead", "on_runway"}]

\* An ATCResponse; its next_state is not used by any caller.
Responses == [said : BOOLEAN, readback : BOOLEAN, issued : SUBSET Elements,
              runway : Runways \cup {None}]

\* last_clearance_text_ and last_clearance_components_, which are always
\* assigned together: what was cleared and what is owed for it.
Clearances == [required : SUBSET Elements, runway : Runways]

Machine ==
    [gen : Nat, state : ATCStates, readback_pending : BOOLEAN,
     was_airborne : BOOLEAN, assigned_runway : Runways \cup {None},
     session_callsign : Callsigns \cup {None},
     clearance : Clearances \cup {None}, last_tower_response : BOOLEAN,
     departure_type : {"PATTERN", "CROSS_COUNTRY"},
     flight_intent : {"none", "xc", "pattern"},
     history : Seq([state : ATCStates, at : Nat]),
     correction : [key : (StateNames \X Nat) \cup {None}, timer : Nat]]

\* What the machine needs of a profile: tables of the right types, a text
\* in every template that demands a readback, and correction delays.
ASSUME ProfileAssumption ==
    /\ None \notin Clearances
    /\ HistoryCap \in Nat \ {0}
    /\ German \in BOOLEAN /\ BzfStrict \in BOOLEAN
    /\ DOMAIN Templates \subseteq StateNames
    /\ \A n \in DOMAIN Templates : \A i \in DOMAIN Templates[n] :
          /\ Templates[n][i] \in Entries
          /\ Templates[n][i].readback => Templates[n][i].said
    /\ \A n \in DOMAIN TowerOnlyTemplates :
          \A i \in DOMAIN TowerOnlyTemplates[n] :
             /\ TowerOnlyTemplates[n][i] \in Entries
             /\ TowerOnlyTemplates[n][i].readback
                   => TowerOnlyTemplates[n][i].said
    /\ \A T \in {InfoTemplates, UncontrolledTemplates, RadioTemplates} :
          \A i \in DOMAIN T : T[i] \in Entries
    /\ \A n \in DOMAIN FrequencyAutoCorrections :
          FrequencyAutoCorrections[n].next \in ATCStates
    /\ \A r \in StateReverts : r.to \in ATCStates
    /\ \A n \in DOMAIN TowerOnlyAutoAdvance :
          TowerOnlyAutoAdvance[n] \in ATCStates
    /\ DOMAIN AutoCorrections \subseteq StateNames
    /\ \A n \in DOMAIN AutoCorrections :
          /\ AutoCorrections[n] \in Seq([phases : SUBSET Phases,
                                         next : ATCStates,
                                         delay : Nat \ {0}])

-----------------------------------------------------------------------------
(* Names, transitions and lifecycle.                                       *)

state_name(g) ==
    IF g.state # "DEPARTURE_CLEARED" THEN g.state
    ELSE IF g.departure_type = "CROSS_COUNTRY" THEN "XC/DEPARTURE_CLEARED"
                                               ELSE "Pattern/DEPARTURE_CLEARED"

bump_gen(g) == [g EXCEPT !.gen = @ + 1]

\* history_.push_back, then drop the oldest beyond the cap.
push_history(h, e) ==
    IF Len(h) < HistoryCap THEN Append(h, e) ELSE Append(Tail(h), e)

\* Bug variant: a transition to the current state is recorded too.
transition_to_always(g, next, t) ==
    [bump_gen(g) EXCEPT
        !.history = push_history(g.history, [state |-> g.state, at |-> t]),
        !.state = next]

transition_to(g, next, t) ==
    IF next = g.state THEN g
    ELSE [bump_gen(g) EXCEPT
            !.history = push_history(g.history, [state |-> g.state, at |-> t]),
            !.state = next]

\* Bug variant: the setter does not bump the generation.
set_was_airborne_quietly(g, v) == [g EXCEPT !.was_airborne = v]

set_was_airborne(g, v) ==
    IF g.was_airborne = v THEN g
    ELSE [bump_gen(g) EXCEPT !.was_airborne = v]

\* The other setters of namespace internal, and the assignments that go
\* with a bump_gen() of their own.
set_readback_pending(g, v) == [bump_gen(g) EXCEPT !.readback_pending = v]
set_clearance(g, v) == [bump_gen(g) EXCEPT !.clearance = v]
set_assigned_runway(g, v) == [bump_gen(g) EXCEPT !.assigned_runway = v]
set_session_callsign(g, v) == [bump_gen(g) EXCEPT !.session_callsign = v]
set_departure_type(g, v) == [bump_gen(g) EXCEPT !.departure_type = v]
set_flight_intent(g, v) == [bump_gen(g) EXCEPT !.flight_intent = v]
set_last_tower_response(g, v) == [bump_gen(g) EXCEPT !.last_tower_response = v]

release_runway_and_callsign(g) ==
    set_session_callsign(set_assigned_runway(g, None), None)

\* Bug variant: the flag survives the text.
drop_clearance(g) == set_clearance(g, None)

\* last_clearance_text_.clear() with its components, and the pending flag.
drop_readback(g) == set_clearance(set_readback_pending(g, FALSE), None)

\* The state after init(), in one of its two start modes.
Started(mode) ==
    [gen |-> 1,
     state |-> IF mode = "ready_for_takeoff" THEN "TOWER_CONTACT" ELSE "IDLE",
     readback_pending |-> FALSE, was_airborne |-> FALSE,
     assigned_runway |-> None, session_callsign |-> None, clearance |-> None,
     last_tower_response |-> FALSE, departure_type |-> "PATTERN",
     flight_intent |-> "none", history |-> <<>>,
     correction |-> [key |-> None, timer |-> 0]]

\* reset(): the correction timer is the one field it leaves alone.
reset(g) ==
    [Started("engines_running") EXCEPT !.gen = g.gen + 1,
                                        !.correction = g.correction]

between_flights(g, on_ground) ==
    on_ground /\ g.state \in {"IDLE", "GROUND_CONTACT"}

begin_fresh_flight(g, on_ground) ==
    IF between_flights(g, on_ground) THEN reset(g) ELSE g

disregard(g, phase, near_airport, t) ==
    LET d == set_last_tower_response(drop_readback(g), FALSE)
    IN  IF phase \notin Airborne
        THEN set_departure_type(
                release_runway_and_callsign(transition_to(d, "IDLE", t)), "PATTERN")
        ELSE transition_to(d, IF near_airport THEN "PATTERN_ENTRY"
                                              ELSE "EN_ROUTE", t)

\* set_flight_intent_cross_country and set_flight_intent_pattern, called
\* by the engine for what the parser found in the words.
latch_flight_intent(g, m) ==
    IF m.declares = "none" THEN g
    ELSE set_flight_intent(g, m.declares)

\* A snapshot restored under the generation guard.
restore_snapshot_if_gen(g, snap, expected) ==
    IF g.gen # expected THEN g ELSE [snap EXCEPT !.gen = g.gen + 1]

-----------------------------------------------------------------------------
(* What happens every frame.                                               *)

\* The baseline last_airport_id_ follows the context in every branch.
next_last_airport(last, airport) == IF airport = None THEN last ELSE airport

leave_airport(g, t) ==
    set_departure_type(
       set_assigned_runway(
          set_readback_pending(transition_to(g, "IDLE", t), FALSE), None), "PATTERN")

check_airport_change(g, last, airport, t) ==
    IF \/ airport = None \/ g.state # "EN_ROUTE"
       \/ last = None \/ airport = last
    THEN g
    ELSE leave_airport(g, t)

\* Positions of the correction rules of state name n that want phase.
matching(n, phase) ==
    {i \in DOMAIN AutoCorrections[n] : phase \in AutoCorrections[n][i].phases}

set_correction(g, key, timer) ==
    [g EXCEPT !.correction = [key |-> key, timer |-> timer]]

auto_correct(g, next, t) ==
    LET c == set_correction(
                set_readback_pending(transition_to(g, next, t), FALSE), None, 0)
    IN  IF next = "IDLE" THEN release_runway_and_callsign(c) ELSE c

\* Bug variant: the timer restarts in every frame.
correction_time_restarted(g, key) == 1

\* correction_timer_ in this frame: it goes on only for the same rule.
correction_time(g, key) ==
    1 + IF g.correction.key = key THEN g.correction.timer ELSE 0

check_auto_correction(g, phase, t) ==
    LET n == state_name(g)
        first == CHOOSE i \in matching(n, phase) :
                    \A j \in matching(n, phase) : i <= j
        rule == AutoCorrections[n][first]
        timer == correction_time(g, <<n, first>>)
    IN  IF g.state \in {"IDLE", "UNICOM_ACTIVE"} \/ n \notin DOMAIN AutoCorrections
        THEN g
        ELSE IF matching(n, phase) = {}
        THEN set_correction(g, None, 0)
        ELSE IF timer >= rule.delay
        THEN auto_correct(g, rule.next, t)
        ELSE set_correction(g, <<n, first>>, timer)

-----------------------------------------------------------------------------
(* The guards of process(), in the order in which it calls them.           *)

\* Bug variant: the declared intent is forgotten.
promote_never(g, m) == m

\* A declared cross-country flight makes a bare "ready" the VFR variant.
promote(g, m) ==
    IF m.intent = "READY_FOR_DEPARTURE" /\ g.flight_intent = "xc"
    THEN [m EXCEPT !.intent = "READY_FOR_DEPARTURE_VFR"] ELSE m

\* Answers that clear nothing; the second may demand a readback.
plain(said) == [said |-> said, readback |-> FALSE, issued |-> {},
                runway |-> None]
demand(readback) == [said |-> TRUE, readback |-> readback, issued |-> {},
                     runway |-> None]

revert_target(s) ==
    CASE s = "DEPARTURE_CLEARED" -> "TOWER_CONTACT"
      [] s = "TAXI_CLEARED" -> "GROUND_CONTACT"
      [] s \in {"LANDING_CLEARED", "TOUCH_AND_GO_CLEARED"} -> "PATTERN_ENTRY"
      [] s = "PATTERN_ENTRY" -> "TOWER_CONTACT"
      [] s \in {"GROUND_CONTACT", "TOWER_CONTACT"} -> "IDLE"
      [] OTHER -> s

handle_negative_correction(g, t) ==
    LET r == transition_to(g, revert_target(g.state), t)
        h == IF g.state = "DEPARTURE_CLEARED"
             THEN set_departure_type(r, "PATTERN") ELSE r
    IN  [g |-> h, resp |-> plain(TRUE)]

\* REQUEST_REPEAT replays the stored answer and keeps the obligation.
repeat(g) ==
    [g |-> g, resp |-> demand(g.readback_pending)]

reverts(g, intent) ==
    {r \in StateReverts : r.in = state_name(g) /\ intent \in r.intents}

apply_state_reverts(g, intent, t) ==
    IF reverts(g, intent) = {} THEN g
    ELSE LET r == CHOOSE r \in reverts(g, intent) : TRUE
             h == transition_to(g, r.to, t)
         IN  IF r.reset_departure_type
             THEN set_departure_type(h, "PATTERN") ELSE h

\* The fallback of atc_templates::lookup.
Fallback == [next |-> "IDLE", readback |-> FALSE, said |-> TRUE, issued |-> {}]

block_lookup(block, intent) ==
    IF intent \in DOMAIN block THEN block[intent]
    ELSE IF "_INVALID" \in DOMAIN block THEN block["_INVALID"]
    ELSE Fallback

lookup(name, intent, tower_only) ==
    IF name \notin DOMAIN Templates THEN Fallback
    ELSE IF /\ tower_only /\ name \in DOMAIN TowerOnlyTemplates
            /\ intent \in DOMAIN TowerOnlyTemplates[name]
    THEN TowerOnlyTemplates[name][intent]
    ELSE block_lookup(Templates[name], intent)

handle_info_flow(g, m, t) ==
    LET e == block_lookup(InfoTemplates, m.intent)
        h == transition_to(g, e.next, t)
    IN  [g |-> h, resp |-> plain(e.said)]

\* Bug variant: the kind of field is not asked for.
in_unicom_flow_by_frequency(c) == c.freq \in {"UNICOM", "CTAF", "RADIO"}

in_unicom_flow(c) ==
    c.freq \in {"UNICOM", "CTAF", "RADIO"} \/ (~c.towered /\ c.freq # "INFO")

handle_unicom_flow(g, m, c, t) ==
    LET e == block_lookup(IF c.freq = "RADIO" THEN RadioTemplates
                          ELSE UncontrolledTemplates, m.intent)
        h == transition_to(g, "IDLE", t)
    IN  [g |-> h, resp |-> plain(e.said)]

\* handle_frequency_hint answers; both profiles configure the hint.
on_wrong_frequency(m, c) ==
    c.freq = "UNKNOWN" /\ c.towered /\ m.intent # "READBACK"

single_tower(c) == c.tower_only /\ c.freq = "TOWER"

apply_state_frequency_validity(g, c, t) ==
    IF \/ c.freq = "UNKNOWN" \/ single_tower(c) \/ g.state = "EN_ROUTE"
       \/ c.freq \notin DOMAIN FrequencyValidity
       \/ state_name(g) \in FrequencyValidity[c.freq]
    THEN g ELSE transition_to(g, "IDLE", t)

apply_frequency_auto_corrections(g, c, t) ==
    IF \/ single_tower(c)
       \/ state_name(g) \notin DOMAIN FrequencyAutoCorrections
       \/ c.freq \notin FrequencyAutoCorrections[state_name(g)].freqs
    THEN g
    ELSE transition_to(g, FrequencyAutoCorrections[state_name(g)].next, t)

is_idle_redirect(g, m, c) ==
    /\ g.state = "IDLE"
    /\ \E r \in IdleRedirects : /\ r.freq = c.freq /\ m.intent \in r.intents
                                /\ ~(r.unless_tower_only /\ c.tower_only)

tower_only_initial_collapse(g, m, c) ==
    IF /\ German /\ c.tower_only /\ c.on_ground /\ g.state = "IDLE"
       /\ ~g.was_airborne /\ m.intent = "INITIAL_CALL_TOWER"
    THEN [m EXCEPT !.intent = "INITIAL_CALL_GROUND"] ELSE m

phase_rejects(m, phase) ==
    m.intent \in DOMAIN Preconditions /\ phase \notin Preconditions[m.intent]

frequency_rejects(m, c) ==
    /\ ~single_tower(c)
    /\ m.intent \in DOMAIN IntentFrequency /\ c.freq \notin IntentFrequency[m.intent]

\* A new departure cycle on the ground disarms was_airborne.
start_departure_cycle(g, m, c) ==
    IF c.on_ground /\ m.intent \in {"REQUEST_TAXI", "INITIAL_CALL_GROUND",
                                    "INITIAL_CALL_TOWER", "INITIAL_CALL"}
    THEN set_was_airborne(g, FALSE) ELSE g

initial_call_incomplete(m) ==
    German /\ BzfStrict /\ m.intent = "INITIAL_CALL_GROUND" /\ ~m.complete

-----------------------------------------------------------------------------
(* The answer: template, overlay, strict check and post-transition hooks.  *)

clearance_candidates(intent) ==
    CASE intent \in {"REQUEST_TAXI", "INITIAL_CALL_INBOUND"}
            -> {"Callsign", "Runway", "QNH"}
      [] intent \in {"READY_FOR_DEPARTURE", "READY_FOR_DEPARTURE_VFR",
                     "REQUEST_LANDING", "REQUEST_TOUCH_AND_GO"}
            -> {"Callsign", "Runway"}
      [] intent = "REQUEST_FREQUENCY" -> {"Callsign", "Frequency"}
      [] OTHER -> {"Callsign"}

\* ground_ops::get_runway, with the default folded into c.active.
get_runway(g, m, c) ==
    IF m.runway # None THEN m.runway
    ELSE IF g.assigned_runway # None THEN g.assigned_runway ELSE c.active

build_clearance_components(g, m, c, e) ==
    [required |-> {"Callsign"} \cup (clearance_candidates(m.intent) \cap e.issued),
     runway |-> get_runway(g, m, c)]

\* pattern_flow::apply_landing_sequence replaces the text of whatever ends
\* in LANDING_CLEARED by "continue approach" when the runway is occupied and
\* by "number N, follow ..." when somebody is ahead, and leaves the rest of
\* the response alone.
apply_landing_sequence(e, c) ==
    IF e.next # "LANDING_CLEARED" \/ c.traffic = "none" THEN e
    ELSE [next |-> e.next, readback |-> e.readback, said |-> TRUE,
          issued |-> IF c.traffic = "on_runway" THEN {"Callsign"}
                     ELSE {"Callsign", "Runway"}]

\* Bug variant: the callsign is enough.
strict_check_callsign(g, m) ==
    /\ German /\ BzfStrict /\ m.intent = "READBACK" /\ g.clearance # None
    /\ "Callsign" \notin m.read

strict_check_fails(g, m) ==
    /\ German /\ BzfStrict /\ m.intent = "READBACK" /\ g.clearance # None
    /\ ~(g.clearance.required \subseteq m.read)

\* The first two hooks: what the answer does to the readback obligation.
track_readback(g, m, e, comp) ==
    LET h == IF m.intent = "READBACK" THEN drop_readback(g)
             ELSE IF e.readback
             THEN set_readback_pending(set_clearance(g, comp), TRUE)
             ELSE g
    IN  IF e.next \in {"EN_ROUTE", "IDLE"} THEN drop_readback(h) ELSE h

lock_runway_and_callsign(g, m, c, e) ==
    IF e.next = "IDLE" THEN g
    ELSE LET h == IF g.assigned_runway # None THEN g
                  ELSE set_assigned_runway(g, IF m.runway # None THEN m.runway
                                              ELSE c.active)
         IN  IF h.session_callsign # None \/ m.callsign = None THEN h
             ELSE set_session_callsign(h, m.callsign)

apply_transition(g, m, e, t) ==
    LET h == transition_to(g, e.next, t)
        type == IF m.intent = "READY_FOR_DEPARTURE_VFR" THEN "CROSS_COUNTRY"
                                                        ELSE "PATTERN"
    IN  IF ~e.said THEN g
        ELSE IF e.next = "DEPARTURE_CLEARED" /\ g.state # "DEPARTURE_CLEARED"
        THEN set_departure_type(h, type)
        ELSE IF g.state = "DEPARTURE_CLEARED" /\ e.next # "DEPARTURE_CLEARED"
        THEN set_departure_type(h, "PATTERN")
        ELSE h

release_locks(g, e) ==
    IF e.next # "IDLE" \/ (g.assigned_runway = None /\ g.session_callsign = None)
    THEN g
    ELSE release_runway_and_callsign(g)

tower_only_advance(g, c, t) ==
    IF c.tower_only /\ state_name(g) \in DOMAIN TowerOnlyAutoAdvance
    THEN transition_to(g, TowerOnlyAutoAdvance[state_name(g)], t) ELSE g

apply_post_transition_hooks(g, m, c, e, comp, t) ==
    LET h1 == lock_runway_and_callsign(track_readback(g, m, e, comp), m, c, e)
        h2 == release_locks(apply_transition(h1, m, e, t), e)
        h3 == tower_only_advance(h2, c, t)
    IN  IF e.said THEN set_last_tower_response(h3, TRUE) ELSE h3

\* The tail of process(): everything behind the guards.
answer(g, m, c, t) ==
    LET tmpl == lookup(state_name(g), m.intent, c.tower_only)
        e == apply_landing_sequence(tmpl, c)
        comp == build_clearance_components(g, m, c, tmpl)
        h == apply_post_transition_hooks(g, m, c, e, comp, t)
    IN  IF strict_check_fails(g, m)
        THEN [g |-> set_readback_pending(g, TRUE), resp |-> demand(TRUE)]
        ELSE [g |-> h,
              resp |-> [said |-> e.said, readback |-> e.readback,
                        issued |-> e.issued, runway |-> comp.runway]]

\* process() behind the frequency guards, on the final intent.
process_on_frequency(g, m0, c, phase, t) ==
    LET m == tower_only_initial_collapse(g, m0, c)
        h == start_departure_cycle(g, m, c)
    IN  IF \/ is_idle_redirect(g, m0, c)
           \/ phase_rejects(m, phase) \/ frequency_rejects(m, c)
        THEN [g |-> g, resp |-> plain(TRUE)]
        ELSE IF initial_call_incomplete(m)
        THEN [g |-> h, resp |-> plain(TRUE)]
        ELSE answer(h, m, c, t)

process(g0, last, m0, c, phase, t) ==
    LET m == promote(g0, m0)
        g1 == check_airport_change(g0, last, c.airport, t)
        g2 == apply_state_reverts(g1, m.intent, t)
        g3 == apply_frequency_auto_corrections(
                 apply_state_frequency_validity(g2, c, t), c, t)
    IN  IF m.intent = "NEGATIVE_CORRECTION" THEN handle_negative_correction(g1, t)
        ELSE IF m.intent = "REQUEST_REPEAT" THEN repeat(g1)
        ELSE IF c.freq = "INFO" THEN handle_info_flow(g2, m, t)
        ELSE IF in_unicom_flow(c) THEN handle_unicom_flow(g2, m, c, t)
        ELSE IF on_wrong_frequency(m, c)
        THEN [g |-> g2, resp |-> plain(TRUE)]
        ELSE process_on_frequency(g3, m, c, phase, t)
=============================================================================
