---------------------------- MODULE MCAtcSession ----------------------------
(* Small instances of AtcSession for TLC.                                  *)
EXTENDS AtcSession, TLC

CONSTANTS w1, w2, w3, a, b

TwoSlots == {w1, w2}
ThreeSlots == {w1, w2, w3}
TwoVals == {a, b}
OneVal == {a}
SlotSymmetry == Permutations(Slots)

On(tuned, active) == [powered |-> TRUE, tuned |-> tuned, active |-> active]
Off == [powered |-> FALSE, tuned |-> {1}, active |-> 1]

\* The controller's frequency only.
NoAtis == {On({}, 1)}
\* COM1 is tuned to ATIS and away from it.
TunedOrNot == {On({}, 1), On({1}, 1)}
\* COM1 is tuned to ATIS and away from it, or loses power.
OneCom == {On({}, 1), On({1}, 1), Off}
\* The same with both COMs, the active one switched.
BothComs == OneCom \cup {On({1, 2}, 1), On({1, 2}, 2)}

Loaded == {Stages}
VoiceMayUnload == {Stages, {"stt", "lm"}}
=============================================================================
