---------------------------- MODULE UnheardReply ----------------------------
(***************************************************************************)
(* What the rollback of a reply promises: a reply that was never heard     *)
(* leaves no trace, and nothing else is undone with it.  There is no       *)
(* generation counter here; whether somebody else acted since is a fact,   *)
(* not a comparison.  "val" is what the state machine knows, "asked" holds *)
(* what it knew when the question now with the language model was put,     *)
(* "reply" the reply that is being synthesised.  AtcSession and            *)
(* AtcDialogue, which see the same code from its two sides, both implement *)
(* this specification (Promise in each of them).                           *)
(***************************************************************************)

VARIABLES val, asked, reply

uvars == <<val, asked, reply>>

UInit == asked = {} /\ reply = {}

\* A reply, with what its loss would bring back.
Unheard(pre) == {[before |-> pre, moved |-> FALSE]}

\* The pilot speaks; the language model has to find out what was meant.
Ask == asked = {} /\ reply = {} /\ asked' = {val} /\ reply' = {}

\* The transmission is answered, at once or by the model, or silently noted.
\* What the pilot could lose is what was known when the pilot spoke.
Answer ==
    /\ reply = {} /\ asked' = {}
    /\ \E pre \in IF asked = {} THEN {val} ELSE asked :
          reply' = {} \/ reply' = Unheard(pre)

\* Frame, button or new flight: they do as they like, and it is noticed.
Elsewhere ==
    /\ asked' = asked
    /\ reply' = {[before |-> r.before, moved |-> TRUE] : r \in reply}

Heard == reply # {} /\ reply' = {} /\ UNCHANGED <<val, asked>>

\* The reply cannot be spoken: it is undone, but not if anything happened
\* since.
Lost ==
    \E r \in reply : /\ val' = IF r.moved THEN val ELSE r.before
                     /\ reply' = {} /\ asked' = asked

UNext == Ask \/ Answer \/ Elsewhere \/ Heard \/ Lost

USpec == UInit /\ [][UNext]_uvars
=============================================================================
