---------------------------- MODULE IntentRules -----------------------------
(***************************************************************************)
(* The rules of atc/intent_rules.cpp: which intent a text stands for before *)
(* it is adjusted to the circumstances.  "match" is the "verdict" of       *)
(* IntentParser; it is a module of its own because the predicates nest.    *)
(***************************************************************************)
EXTENDS IntentParser

CONSTANTS
    Rules,      \* sequence of [intent, confidence, any, all, none]
    Facilities  \* token -> facilities it names as a word of its own

(***************************************************************************)
(* The rules: the first that fits decides.                                 *)
(***************************************************************************)

RECURSIVE eval_predicate(_, _)
any_match(preds, text) == preds = <<>> \/ \E i \in DOMAIN preds : eval_predicate(preds[i], text)
all_match(preds, text) == \A i \in DOMAIN preds : eval_predicate(preds[i], text)
none_match(preds, text) == \A i \in DOMAIN preds : ~eval_predicate(preds[i], text)

eval_predicate(p, text) ==
    CASE p.kind = "contains" -> contains(text, p.value)
      [] p.kind = "starts_with" -> text # <<>> /\ p.value \in Needles[text[1]]
      [] p.kind = "ends_with" -> Len(text) > 1 /\ Last(text) = p.value
      [] p.kind = "has_facility" -> \E i \in DOMAIN text : p.value \in Facilities[text[i]]
      [] p.kind = "ends_with_runway_token" ->
            text # <<>> /\ Last(text) \in DOMAIN GermanDigits \union DOMAIN EnglishNumbers \union DOMAIN RunwaySides
      [] OTHER -> none_match(p.none, text) /\ any_match(p.any, text) /\ all_match(p.all, text)

Fits(r, text) == none_match(r.none, text) /\ any_match(r.any, text) /\ all_match(r.all, text)

match(text) ==
    LET fitting == {i \in DOMAIN Rules : Fits(Rules[i], text)}
    IN  IF fitting = {} THEN [intent |-> "UNKNOWN", confidence |-> 0]
        ELSE [intent |-> Rules[Min(fitting)].intent, confidence |-> Rules[Min(fitting)].confidence]
=============================================================================
