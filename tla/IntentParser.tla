---------------------------- MODULE IntentParser ----------------------------
(***************************************************************************)
(* From a transcript to the pilot's intent: atc/intent_parser.cpp and the   *)
(* data-driven adjustments of atc/intent_rules.cpp, with the spoken numbers *)
(* of atc/de_phraseology.cpp, in the German profile.  Which rule fits a     *)
(* text is left to "verdict" here; module IntentRules has the code's way.   *)
(*                                                                         *)
(* A transcript is a sequence of tokens, a token a word or a phrase that is *)
(* never taken apart; Needles tells which strings of the rule tables a      *)
(* token contains.  Capitals, punctuation and frequencies ("eins zwo null  *)
(* komma ...") are left out.                                               *)
(***************************************************************************)
EXTENDS Naturals, Sequences, FiniteSets, SequencesExt, FiniteSetsExt

CONSTANTS
    verdict(_),     \* text -> [intent, confidence], see IntentRules
    Adjustments,    \* sequence of conditions and what they set, see Adjustment
    Normalizations, \* token -> token
    Needles,        \* token -> strings of the tables that occur in it
    Points,         \* reporting points of the airport
    PilotCallsign,  \* the configured callsign, a sequence of tokens
    Utterances,     \* what is transcribed
    Circumstances   \* [ground, towered, pending, airborne, landed]

VARIABLES
    rules_loaded, \* g_rules_loaded
    heard,        \* the last transcript and the circumstances it was heard in
    circ,
    msg           \* the PilotMessage made of it

parserVars == <<rules_loaded, heard, circ, msg>>

ASSUME ParserAssumption ==
    Circumstances \subseteq [ground : BOOLEAN, towered : BOOLEAN, pending : BOOLEAN,
                             airborne : BOOLEAN, landed : BOOLEAN]

(***************************************************************************)
(* Words.                                                                  *)
(***************************************************************************)

GermanDigits == [null |-> "0", eins |-> "1", zwo |-> "2", zwei |-> "2", drei |-> "3", vier |-> "4",
                 fuenf |-> "5", sechs |-> "6", sieben |-> "7", acht |-> "8", neun |-> "9"]
EnglishNumbers == [one |-> <<"1">>, two |-> <<"2">>, six |-> <<"6">>, twentysix |-> <<"2", "6">>]
RunwaySides == [links |-> "L", rechts |-> "R", mitte |-> "C"]
Phonetic == {"alpha", "bravo", "delta", "echo", "hotel", "lima", "mike", "november", "whiskey", "yankee"}

DigitWords == DOMAIN GermanDigits

\* A digit the transcript writes in figures.
FigureTokens == {GermanDigits[d] : d \in DigitWords}
IsFigure(w) == w \in FigureTokens

Position(text, w) == LET at == {i \in DOMAIN text : text[i] = w} IN IF at = {} THEN 0 ELSE Min(at)
Behind(text, i) == SubSeq(text, i + 1, Len(text))

\* The length of the run of S-tokens at the start of text.
RunLength(text, S) == Max({n \in 0 .. Len(text) : \A i \in 1 .. n : text[i] \in S})

\* What follows the last "correction" replaces the rest, unless it follows a
\* negation: then the pilot rejects the controller's words.
strip_self_correction(text) ==
    LET at == {i \in DOMAIN text : text[i] = "correction"}
        last == Max(at)
        negated == last = 1 \/ text[last - 1] \in {"no", "negative"}
    IN  IF at = {} THEN text
        ELSE IF last < Len(text) /\ ~negated THEN Behind(text, last) ELSE text

\* parse_spoken_number: runs of up to four digit words become figures; a single
\* one only behind a word that announces a number.
IsDigitWord(w) == w \in DigitWords
AnchorWords == {"piste", "runway", "qnh", "ueber", "kempten verkehr", "kempten information"}
parse_spoken_number(text) ==
    LET Start(i) == Min({s \in 1 .. i : \A k \in s .. i : IsDigitWord(text[k])})
        Chunk(i) == Start(i) + 4 * ((i - Start(i)) \div 4)
        Length(i) == LET n == RunLength(Behind(text, Chunk(i) - 1), DigitWords) IN IF n > 4 THEN 4 ELSE n
        Least(i) == IF Chunk(i) > 1 /\ text[Chunk(i) - 1] \in AnchorWords THEN 1 ELSE 2
    IN  [i \in DOMAIN text |->
           IF IsDigitWord(text[i]) /\ Length(i) >= Least(i) THEN GermanDigits[text[i]] ELSE text[i]]

preprocess(text) ==
    [i \in DOMAIN text |-> IF text[i] \in DOMAIN Normalizations THEN Normalizations[text[i]] ELSE text[i]]

(***************************************************************************)
(* What is extracted.                                                      *)
(***************************************************************************)

\* The first "runway", else the first "piste"; an English number word settles
\* the number by itself, figures are read up to the second.
extract_runway(text) ==
    LET anchor == IF Position(text, "runway") # 0 THEN Position(text, "runway") ELSE Position(text, "piste")
        after == Behind(text, anchor)
        figures == LET n == RunLength(after, FigureTokens) IN IF n > 2 THEN 2 ELSE n
        spoken == LET n == RunLength(after, DigitWords) IN IF n > 2 THEN 2 ELSE n
        english == after # <<>> /\ after[1] \in DOMAIN EnglishNumbers
        taken == IF english THEN 1 ELSE IF spoken > 0 THEN spoken ELSE figures
        number == IF english THEN EnglishNumbers[after[1]]
                  ELSE IF spoken > 0 THEN [i \in 1 .. spoken |-> GermanDigits[after[i]]]
                  ELSE [i \in 1 .. figures |-> after[i]]
        side == IF taken < Len(after) /\ after[taken + 1] \in DOMAIN RunwaySides
                THEN <<RunwaySides[after[taken + 1]]>> ELSE <<>>
    IN  IF anchor = 0 \/ taken = 0 THEN <<>> ELSE number \o side

\* "nach" and a spelt identifier of three or four letters.
extract_destination(text) ==
    LET Letters(i) == SubSeq(text, i + 1, i + RunLength(Behind(text, i), Phonetic))
        Hits(anchor) == {i \in DOMAIN text : text[i] = anchor /\ Len(Letters(i)) \in 3 .. 4}
    IN  IF Hits("nach") # {} THEN Letters(Min(Hits("nach")))
        ELSE IF Hits("richtung") # {} THEN Letters(Min(Hits("richtung"))) ELSE <<>>

\* At most one of the last three words differs from the configured callsign.
matches_configured_callsign(words) ==
    LET n == Min({Len(words), Len(PilotCallsign), 3})
        same == {i \in 0 .. n - 1 : words[Len(words) - i] = PilotCallsign[Len(PilotCallsign) - i]}
    IN  PilotCallsign = <<>> \/ (n > 0 /\ Cardinality(same) + 1 >= n)

\* The configured callsign as such, else a run that begins with its country
\* prefix, else any run of two letters or more.
extract_callsign(text) ==
    LET words == SelectSeq(text, LAMBDA w : ~IsFigure(w))
        Spelt(i) == SubSeq(words, i, i - 1 + RunLength(Behind(words, i - 1),
                        Phonetic \union DOMAIN EnglishNumbers))
        Letters(i) == SelectSeq(Spelt(i), LAMBDA w : w \in Phonetic)
        prefixed == {i \in DOMAIN words : words[i] \in {"november", "delta"}
                       /\ matches_configured_callsign(Spelt(i))}
        spelt == {i \in DOMAIN words : words[i] \in Phonetic /\ Len(Letters(i)) >= 2
                       /\ matches_configured_callsign(Spelt(i))}
    IN  IF PilotCallsign # <<>>
           /\ \E i \in DOMAIN words : IsPrefix(PilotCallsign, Behind(words, i - 1))
        THEN PilotCallsign
        ELSE IF prefixed # {} THEN Spelt(Min(prefixed))
        ELSE IF spelt # {} THEN Spelt(Min(spelt))
        ELSE <<>>

\* airport_vrps::find_in_transcript: a reporting point right behind a marker.
find_in_transcript(text) ==
    LET Hits(marker) == {i \in DOMAIN text : text[i] = marker /\ i < Len(text) /\ text[i + 1] \in Points}
    IN  IF Hits("via") # {} THEN text[Min(Hits("via")) + 1]
        ELSE IF Hits("ueber") # {} THEN text[Min(Hits("ueber")) + 1] ELSE ""

contains(text, needle) == \E i \in DOMAIN text : needle \in Needles[text[i]]

detect_has_position(text) == \E n \in {"vorfeld", "am rollhalt", "warteposition"} : contains(text, n)

AirborneOnly ==
    {"REPORT_POSITION", "REPORT_POSITION_DOWNWIND", "REPORT_POSITION_BASE", "REPORT_POSITION_FINAL",
     "REQUEST_LANDING", "REQUEST_TOUCH_AND_GO", "GO_AROUND"}
GroundOnly ==
    {"INITIAL_CALL", "INITIAL_CALL_GROUND", "INITIAL_CALL_TOWER", "REQUEST_TAXI", "REQUEST_TAXI_PARKING",
     "READY_FOR_DEPARTURE", "READY_FOR_DEPARTURE_VFR", "RUNWAY_VACATED", "SELF_ANNOUNCE_DEPARTURE"}
is_airborne_only_intent(i) == i \in AirborneOnly
is_ground_only_intent(i) == i \in GroundOnly

(***************************************************************************)
(* The adjustments.  Each condition is the set of values it admits.        *)
(***************************************************************************)

\* A condition that admits everything and sets nothing.
Adjustment ==
    [intents |-> {}, airborne_only |-> BOOLEAN, ground_only |-> BOOLEAN, ground |-> BOOLEAN,
     towered |-> BOOLEAN, vrp |-> BOOLEAN, text |-> "", pending |-> BOOLEAN, airborne |-> BOOLEAN,
     landed |-> BOOLEAN, set_intent |-> "", set_confidence |-> 101]

\* The shape of an entry of "adjustments"; above 100 percent none is set.
AdjustmentEntries ==
    [intents : SUBSET STRING, airborne_only : SUBSET BOOLEAN, ground_only : SUBSET BOOLEAN,
     ground : SUBSET BOOLEAN, towered : SUBSET BOOLEAN, vrp : SUBSET BOOLEAN, text : STRING,
     pending : SUBSET BOOLEAN, airborne : SUBSET BOOLEAN, landed : SUBSET BOOLEAN,
     set_intent : STRING, set_confidence : Nat]

adjustment_applies(a, m, c, text) ==
    /\ a.intents = {} \/ m.intent \in a.intents
    /\ is_airborne_only_intent(m.intent) \in a.airborne_only
    /\ is_ground_only_intent(m.intent) \in a.ground_only
    /\ c.ground \in a.ground
    /\ c.towered \in a.towered
    /\ (m.vrp # "") \in a.vrp
    /\ a.text = "" \/ contains(text, a.text)
    /\ c.pending \in a.pending
    /\ c.airborne \in a.airborne
    /\ (c.landed /\ c.ground) \in a.landed

Adjusted(m, a) ==
    [m EXCEPT !.intent = IF a.set_intent = "" THEN @ ELSE a.set_intent,
              !.confidence = IF a.set_confidence > 100 THEN @ ELSE a.set_confidence]

\* One adjustment on what the former ones left.
adjust(m, a, c, text) == IF adjustment_applies(a, m, c, text) THEN Adjusted(m, a) ELSE m

\* Bug variant: every condition sees the rule's verdict, not the adjusted one.
apply_adjustments_at_once(m, c, text) ==
    LET left[k \in 0 .. Len(Adjustments)] ==
            IF k = 0 THEN m
            ELSE IF adjustment_applies(Adjustments[k], m, c, text) THEN Adjusted(left[k - 1], Adjustments[k])
            ELSE left[k - 1]
    IN  left[Len(Adjustments)]

\* In the order of the file.
apply_adjustments(m, c, text) ==
    LET left[k \in 0 .. Len(Adjustments)] ==
            IF k = 0 THEN m ELSE adjust(left[k - 1], Adjustments[k], c, text)
    IN  left[Len(Adjustments)]

\* The transcript as rewritten, and what the table and the extractors make of it;
\* without a table nothing is rewritten or matched.
understand(transcript, table) ==
    LET spoken == parse_spoken_number(strip_self_correction(transcript))
        text == IF table THEN preprocess(spoken) ELSE spoken
        m == IF table THEN verdict(text) ELSE [intent |-> "UNKNOWN", confidence |-> 0]
    IN  [text |-> text,
         msg |-> [intent |-> m.intent, confidence |-> m.confidence,
                  callsign |-> extract_callsign(text), runway |-> extract_runway(text),
                  vrp |-> find_in_transcript(text), destination |-> extract_destination(text),
                  has_position |-> detect_has_position(text)]]

(***************************************************************************)
(* Steps.                                                                  *)
(***************************************************************************)

NoMessage == [intent |-> "UNKNOWN", confidence |-> 0, callsign |-> <<>>, runway |-> <<>>,
              vrp |-> "", destination |-> <<>>, has_position |-> FALSE]

\* On the ground before the flight.
Parked == CHOOSE c \in Circumstances : c.ground /\ ~c.airborne /\ ~c.pending /\ ~c.landed

ParserInit ==
    /\ rules_loaded \in BOOLEAN
    /\ heard = <<>> /\ circ = Parked /\ msg = NoMessage

\* engine::process parses a transcript; a table that is not loaded is tried
\* again, and the file may be missing or broken.
Hear ==
    /\ heard = <<>>
    /\ \E u \in Utterances, table \in IF rules_loaded THEN {TRUE} ELSE BOOLEAN :
         \E r \in {understand(u, table)}, c \in Circumstances :
           /\ rules_loaded' = table /\ heard' = u /\ circ' = c
           /\ msg' = IF table THEN apply_adjustments(r.msg, c, r.text) ELSE r.msg

\* The caller has the message; the parser keeps nothing of it.
HandOn ==
    /\ heard # <<>>
    /\ heard' = <<>> /\ circ' = Parked /\ msg' = NoMessage
    /\ UNCHANGED rules_loaded

\* stop() at the end of the plugin.
ParserStop ==
    /\ rules_loaded /\ rules_loaded' = FALSE
    /\ UNCHANGED <<heard, circ, msg>>

ParserNext == Hear \/ HandOn \/ ParserStop

ParserSpec == ParserInit /\ [][ParserNext]_parserVars

(***************************************************************************)
(* Properties.                                                             *)
(***************************************************************************)

\* The engine believes the rules from 0.7 on, without asking the language model.
Confident(m) == m.confidence >= 70 /\ m.intent # "UNKNOWN"

\* Whatever was said and whatever the controller still waits for, the parser is
\* never confident of what cannot be: a call from the circuit by an aircraft on
\* the ground, a ground call in flight, or a runway vacated by an aircraft that
\* has not flown.  A chain of adjustments has to get this right, since one of
\* them turns a readback into a vacated report.
PhysicallyPossible ==
    Confident(msg) =>
        /\ circ.ground => ~is_airborne_only_intent(msg.intent)
        /\ ~circ.ground => ~is_ground_only_intent(msg.intent)
        /\ ~circ.airborne => msg.intent # "RUNWAY_VACATED"

(***************************************************************************)
(* What PhysicallyPossible asks of a table of adjustments, whatever the     *)
(* rules and the utterance: some entry catches each impossible call, and    *)
(* no later one brings it back.                                            *)
(***************************************************************************)

\* Intents, and the circumstances in which they are impossible.
ImpossibleCalls ==
    LET Call(i, g, a, p) == [intents |-> i, ground |-> g, airborne |-> a, pending |-> p]
    IN  {Call(AirborneOnly, {TRUE}, BOOLEAN, BOOLEAN), Call(GroundOnly, {FALSE}, BOOLEAN, BOOLEAN),
         Call({"RUNWAY_VACATED"}, BOOLEAN, {FALSE}, {TRUE}), Call({"RUNWAY_VACATED"}, BOOLEAN, {FALSE}, {FALSE})}

\* The entry replaces the intent, or takes the confidence away.
Defuses(a, h) == (a.set_intent # "" /\ a.set_intent \notin h.intents) \/ a.set_confidence < 70

\* The entry applies to the call in all its circumstances.
Catches(a, h) ==
    /\ a.intents = {} \/ h.intents \subseteq a.intents
    /\ \A i \in h.intents :
         is_airborne_only_intent(i) \in a.airborne_only /\ is_ground_only_intent(i) \in a.ground_only
    /\ h.ground \subseteq a.ground /\ h.pending \subseteq a.pending /\ h.airborne \subseteq a.airborne
    /\ a.towered = BOOLEAN /\ a.vrp = BOOLEAN /\ a.landed = BOOLEAN /\ a.text = ""
    /\ Defuses(a, h)

\* The entry does not apply in these circumstances, or makes no such call of
\* another one.
Harmless(a, h) ==
    \/ a.ground \intersect h.ground = {} \/ a.pending \intersect h.pending = {}
    \/ a.airborne \intersect h.airborne = {}
    \/ a.landed = {TRUE} /\ h.ground = {FALSE}
    \/ Defuses(a, h)
    \/ a.set_intent = "" /\ a.set_confidence > 100
    \/ a.set_intent = "" /\ a.intents # {} /\ a.intents \intersect h.intents = {}

CheckedTable(table) ==
    /\ table \in Seq(AdjustmentEntries)
    /\ \A h \in ImpossibleCalls : \E k \in DOMAIN table :
         Catches(table[k], h) /\ \A j \in k + 1 .. Len(table) : Harmless(table[j], h)

\* "Aufsetzen und Durchstarten", the request the hints panel tells the pilot to
\* make, is understood as the request for a touch-and-go.
TouchAndGoUnderstood ==
    rules_loaded /\ ~circ.ground /\ Confident(msg) /\ Last(<<"">> \o heard) = "aufsetzen und durchstarten"
        => msg.intent = "REQUEST_TOUCH_AND_GO"
=============================================================================
