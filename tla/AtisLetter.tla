----------------------------- MODULE AtisLetter -----------------------------
(***************************************************************************)
(* The letter of the ATIS broadcast: atc/atis_generator.cpp.  About once a  *)
(* second check_for_update compares the weather with the one the current    *)
(* letter stands for.                                                      *)
(***************************************************************************)
EXTENDS Naturals, Integers

CONSTANTS
    Weathers,  \* records [dir, speed, qnh, vis]: degrees, knots, 0.01 hPa, metres
    Runways,   \* runways that may be active
    Cooldown,  \* the five minutes between two letters, in the unit of Wait
    Letters    \* 26 in the code

ASSUME AtisAssumption ==
    /\ Weathers \subseteq [dir : 0 .. 359, speed : Nat, qnh : Nat, vis : Nat]
    /\ Cooldown \in Nat /\ Letters \in Nat \ {0}

NoRunway == "no runway"

VARIABLES
    weather,       \* the weather of the context
    active_runway, \* the active runway of the context, or NoRunway
    assigned,      \* atc_state_machine::assigned_runway is not empty
    letter,        \* letter_ - 'A'
    baseline_initialized,
    baseline,      \* the weather and runway the letter stands for, once initialized
    letterAge      \* monotonic_seconds() - last_increment_time_, up to Cooldown

atisVars == <<weather, active_runway, assigned, letter, baseline_initialized, baseline, letterAge>>

visibility_category(m) == IF m >= 10000 THEN 0 ELSE IF m >= 5000 THEN 1 ELSE 2

AtisInit ==
    /\ weather \in Weathers
    /\ active_runway \in Runways \union {NoRunway}
    /\ assigned = FALSE
    /\ letter = 0
    /\ baseline_initialized = FALSE
    /\ baseline = [weather |-> weather, runway |-> NoRunway]
    /\ letterAge = 0

Abs(x) == IF x < 0 THEN -x ELSE x
WindTurn(d1, d2) == Abs(((d1 - d2 + 540) % 360) - 180)

Sample == [weather |-> weather, runway |-> active_runway]

\* What a listener would have to be told.
Changed ==
    /\ baseline_initialized
    /\ \/ active_runway # NoRunway /\ active_runway # baseline.runway
       \/ weather.speed >= 3 /\ WindTurn(weather.dir, baseline.weather.dir) > 30
       \/ Abs(weather.qnh - baseline.weather.qnh) > 100
       \/ visibility_category(weather.vis) # visibility_category(baseline.weather.vis)

\* The first sample with a runway is the baseline of the first letter.
Seed ==
    /\ ~assigned
    /\ ~baseline_initialized
    /\ active_runway # NoRunway
    /\ baseline_initialized' = TRUE
    /\ baseline' = Sample
    /\ UNCHANGED <<weather, active_runway, assigned, letter, letterAge>>

\* Mutant: the letter changes, the baseline does not.
IncrementUncommitted ==
    /\ ~assigned
    /\ Changed
    /\ letterAge >= Cooldown
    /\ letter' = (letter + 1) % Letters
    /\ letterAge' = 0
    /\ UNCHANGED <<weather, active_runway, assigned, baseline_initialized, baseline>>

\* A change, unless a runway is assigned or the last letter is too young.
Increment ==
    /\ ~assigned
    /\ Changed
    /\ letterAge >= Cooldown
    /\ baseline' = Sample
    /\ letter' = (letter + 1) % Letters
    /\ letterAge' = 0
    /\ UNCHANGED <<weather, active_runway, assigned, baseline_initialized>>

check_for_update == Seed \/ Increment

\* Weather, airport and clearance change; time passes.
NewWeather ==
    /\ weather' \in Weathers \ {weather}
    /\ UNCHANGED <<active_runway, assigned, letter, baseline_initialized, baseline, letterAge>>
NewRunway ==
    /\ active_runway' \in (Runways \union {NoRunway}) \ {active_runway}
    /\ UNCHANGED <<weather, assigned, letter, baseline_initialized, baseline, letterAge>>
AssignRunway ==
    /\ assigned' = ~assigned
    /\ UNCHANGED <<weather, active_runway, letter, baseline_initialized, baseline, letterAge>>
Wait ==
    /\ letterAge < Cooldown
    /\ letterAge' = letterAge + 1
    /\ UNCHANGED <<weather, active_runway, assigned, letter, baseline_initialized, baseline>>

AtisNext == check_for_update \/ NewWeather \/ NewRunway \/ AssignRunway \/ Wait

(***************************************************************************)
(* Properties.                                                             *)
(***************************************************************************)

\* Types of the ATIS letter.
AtisTypeOK ==
    /\ letter \in 0 .. Letters - 1
    /\ letterAge \in 0 .. Cooldown
    /\ baseline.weather \in Weathers

\* A change that lasts is told: it is not possible that from some time on the
\* weather differs from what the letter stands for, with no runway assigned.
ChangeIsTold == ~<>[](Changed /\ ~assigned)
=============================================================================
