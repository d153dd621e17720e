---------------------------- MODULE ReadbackCheck ----------------------------
(***************************************************************************)
(* The comparison of a readback with the clearance: atc/bzf_compliance.cpp, *)
(* the clearance that atc_state_machine.cpp stores for it, and the two      *)
(* places that ask: engine.cpp (is this a readback at all?) and, in strict  *)
(* mode, apply_bzf_strict_check (is it complete?).                          *)
(*                                                                         *)
(* A transcript is a sequence of tokens as in IntentParser, a figure being  *)
(* one token; Spelling splits the words whose first letter may be taken for *)
(* the letter of a runway.  Frequencies are left out, and so is the squawk, *)
(* which no clearance ever requires.                                       *)
(***************************************************************************)
EXTENDS IntentParser

CONSTANTS
    Triggers,       \* calls that are answered with a clearance
    IssuedRunways,  \* runways, as sequences of figures and a letter
    IssuedQnhs,     \* pressures, as sequences of figures
    Registrations   \* callsigns, as sequences of tokens

VARIABLES
    comp,     \* last_clearance_components_
    strict,   \* settings::bzf_strict_mode()
    meant,    \* what the pilot meant to read back, and how it was rendered
    outcome   \* what became of it

readbackVars == <<comp, strict, meant, outcome>>

Facts == {"Runway", "QNH"}

(***************************************************************************)
(* Canonical forms.                                                        *)
(***************************************************************************)

\* Spellings the recogniser uses for letters of the alphabet.
NatoVariants == [alfa |-> "alpha", wisky |-> "whiskey"]
nato(w) == IF w \in DOMAIN NatoVariants THEN NatoVariants[w] ELSE w
normalize_whisper_nato_variants(text) == [i \in DOMAIN text |-> nato(text[i])]

\* The letters of a text without what separates its words.
Spelling == [links |-> <<"l", "inks">>, rechts |-> <<"r", "echts">>, mitte |-> <<"m", "itte">>,
             lima |-> <<"l", "ima">>]
Letters(w) == IF w \in DOMAIN Spelling THEN Spelling[w] ELSE <<w>>
Welded(text) == FlattenSeq([i \in DOMAIN text |-> Letters(text[i])])

Within(part, text) == \E i \in 0 .. Len(text) : IsPrefix(part, Behind(text, i))

canon_stripped(text) == Welded(normalize_whisper_nato_variants(parse_spoken_number(text)))

\* Mutant: a single digit word of a callsign stays a word.
canon_callsign_words(text) == Welded(normalize_whisper_nato_variants(text))

\* In a callsign every digit word is a digit.
canon_callsign(text) ==
    Welded([i \in DOMAIN text |-> IF IsDigitWord(text[i]) THEN GermanDigits[text[i]] ELSE nato(text[i])])

\* The whole callsign or its last two words.
pilot_has_callsign(text, callsign) ==
    \/ Within(canon_callsign(callsign), canon_callsign(text))
    \/ /\ Len(callsign) > 1
       /\ Within(canon_callsign(Behind(callsign, Len(callsign) - 2)), canon_callsign(text))

value_covered(text, value) == Within(value, canon_stripped(text))

\* The figures behind the word that announces them, if any.
stated_value(e, text) ==
    LET norm == parse_spoken_number(text)
        Figures(i) == RunLength(Behind(norm, i), FigureTokens)
        least == IF e = "QNH" THEN 3 ELSE 1
        most == IF e = "QNH" THEN 4 ELSE 2
        hits == {i \in DOMAIN norm : /\ norm[i] \in IF e = "QNH" THEN {"qnh"} ELSE {"piste", "runway"}
                                     /\ Figures(i) >= least}
    IN  IF hits = {} THEN <<>>
        ELSE SubSeq(norm, Min(hits) + 1, Min(hits) + Min({most, Figures(Min(hits))}))

(***************************************************************************)
(* Verdicts.                                                               *)
(***************************************************************************)

expected_value(c, e) == IF e = "Runway" THEN c.runway ELSE c.qnh

diff_readback(c, text) ==
    [e \in c.required |->
        IF e = "Callsign" THEN IF pilot_has_callsign(text, c.callsign) THEN "Ok" ELSE "Missing"
        ELSE IF value_covered(text, expected_value(c, e)) THEN "Ok"
        ELSE IF stated_value(e, text) = <<>> THEN "Missing" ELSE "Wrong"]

missing_readback_elements(diff) == {e \in DOMAIN diff : diff[e] # "Ok"}

\* The callsign and, if the clearance had facts, one of them.
readback_covers_core(required, missing) ==
    /\ "Callsign" \in required \ missing
    /\ required \ {"Callsign"} = {} \/ Facts \cap (required \ missing) # {}

\* What is wrong is named, what is only missing is asked for.
build_correction_response(diff) ==
    LET wrong == {e \in DOMAIN diff : diff[e] = "Wrong"}
    IN  IF wrong = {} THEN [kind |-> "read_back", named |-> {}] ELSE [kind |-> "negativ", named |-> wrong]

clearance_candidates(trigger) ==
    {"Callsign"} \union
    CASE trigger \in {"REQUEST_TAXI", "INITIAL_CALL_INBOUND"} -> Facts
      [] trigger \in {"READY_FOR_DEPARTURE", "READY_FOR_DEPARTURE_VFR",
                      "REQUEST_LANDING", "REQUEST_TOUCH_AND_GO"} -> {"Runway"}
      [] OTHER -> {}

(***************************************************************************)
(* The pilot.                                                              *)
(***************************************************************************)

FigureWords == [f \in {GermanDigits[w] : w \in DOMAIN GermanDigits} |->
                    CHOOSE w \in DOMAIN GermanDigits : GermanDigits[w] = f]
SideWords == [l |-> "links", r |-> "rechts", c |-> "mitte"]

\* Registrations have words; runways and pressures have up to four figures, and
\* a runway may end in the letter of a side.
ASSUME ReadbackAssumption ==
    /\ Registrations \subseteq Seq(STRING) /\ \A c \in Registrations : Len(c) > 1
    /\ \A r \in IssuedRunways :
         /\ r \in Seq(FigureTokens \union DOMAIN SideWords) /\ Len(r) \in 1 .. 4
         /\ \A i \in 1 .. Len(r) - 1 : r[i] \in FigureTokens
    /\ \A q \in IssuedQnhs : q \in Seq(FigureTokens) /\ Len(q) \in 1 .. 4

\* A number as the recogniser writes it, in words or in figures.
Rendered(value, in_words) ==
    [i \in DOMAIN value |-> IF value[i] \in DOMAIN SideWords THEN SideWords[value[i]]
                            ELSE IF in_words THEN FigureWords[value[i]] ELSE value[i]]

\* What a pilot may mean to say; <<>> is left unsaid.
Meanings ==
    [callsign : {<<>>} \union Registrations \union {Behind(c, Len(c) - 2) : c \in Registrations},
     runway : IssuedRunways \union {<<>>}, qnh : IssuedQnhs \union {<<>>},
     in_words : BOOLEAN, callsign_last : BOOLEAN]

SaidCallsign(m) ==
    [i \in DOMAIN m.callsign |->
        IF ~m.in_words /\ IsDigitWord(m.callsign[i]) THEN GermanDigits[m.callsign[i]]
        ELSE IF ~m.in_words /\ m.callsign[i] = "alpha" THEN "alfa" ELSE m.callsign[i]]
SaidRunway(m) ==
    IF m.runway = <<>> THEN <<>>
    ELSE <<IF m.in_words THEN "piste" ELSE "runway">> \o Rendered(m.runway, m.in_words)
SaidQnh(m) == IF m.qnh = <<>> THEN <<>> ELSE <<"qnh">> \o Rendered(m.qnh, m.in_words)

Transcript(m) ==
    IF m.callsign_last THEN SaidRunway(m) \o SaidQnh(m) \o SaidCallsign(m)
    ELSE SaidCallsign(m) \o SaidQnh(m) \o SaidRunway(m)

(***************************************************************************)
(* Steps.                                                                  *)
(***************************************************************************)

NoClearance == [callsign |-> <<>>, runway |-> <<>>, qnh |-> <<>>, required |-> {}]
Unsaid == [callsign |-> <<>>, runway |-> <<>>, qnh |-> <<>>, in_words |-> TRUE, callsign_last |-> TRUE]
Waiting == [kind |-> "waiting", named |-> {}]

ReadbackInit ==
    /\ comp = NoClearance /\ strict \in BOOLEAN
    /\ meant = Unsaid /\ outcome = Waiting

\* The tower answers a call with a clearance; its template issues every
\* candidate that has a value (the pressure only if it is not from the ATIS).
Issue ==
    /\ comp = NoClearance
    /\ \E t \in Triggers, c \in Registrations, r \in IssuedRunways, q \in IssuedQnhs \union {<<>>} :
         comp' = [callsign |-> c, runway |-> r, qnh |-> q,
                  required |-> {e \in clearance_candidates(t) : e = "QNH" => q # <<>>}]
    /\ UNCHANGED <<strict, meant, outcome>>

\* The owed readback comes: the engine takes it for one if the core is there,
\* and otherwise goes on to the rules; the strict check may ask again.
Answer ==
    /\ comp # NoClearance /\ outcome = Waiting
    /\ meant' \in Meanings
    /\ \E diff \in {diff_readback(comp, Transcript(meant'))} :
         LET missing == missing_readback_elements(diff)
         IN  outcome' = IF ~readback_covers_core(comp.required, missing) THEN [kind |-> "other", named |-> {}]
                        ELSE IF strict /\ missing # {} THEN build_correction_response(diff)
                        ELSE [kind |-> "accepted", named |-> {}]
    /\ UNCHANGED <<comp, strict>>

\* Accepted, the clearance is dropped; otherwise it stays owed.
HeardOut ==
    /\ outcome # Waiting
    /\ comp' = IF outcome.kind = "accepted" THEN NoClearance ELSE comp
    /\ meant' = Unsaid /\ outcome' = Waiting
    /\ UNCHANGED strict

ReadbackNext == Issue \/ Answer \/ HeardOut

ReadbackSpec == ReadbackInit /\ [][ReadbackNext]_readbackVars

(***************************************************************************)
(* Properties.                                                             *)
(***************************************************************************)

Identified ==
    /\ meant.callsign # <<>>
    /\ \E n \in {0, Len(comp.callsign) - 2} : meant.callsign = Behind(comp.callsign, n)

\* A pilot who reads back all that is owed is never asked again, however the
\* recogniser writes it down: figures or words, the callsign first or last, in
\* full or its last two letters, Alfa for Alpha.  Centre runways are excepted:
\* "Mitte" does not match their letter C.
CorrectIsAccepted ==
    /\ outcome # Waiting /\ Identified
    /\ \A e \in comp.required \ {"Callsign"} : expected_value(meant, e) = expected_value(comp, e)
    /\ comp.runway[Len(comp.runway)] # "c"
    => outcome.kind = "accepted"

\* In strict mode a readback with a wrong value is never accepted.
WrongIsCorrected ==
    strict /\ outcome.kind = "accepted" =>
        \A e \in comp.required \ {"Callsign"} : expected_value(meant, e) \in {<<>>, expected_value(comp, e)}
=============================================================================
