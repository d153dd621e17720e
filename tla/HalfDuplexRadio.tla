-------------------------- MODULE HalfDuplexRadio --------------------------
(***************************************************************************)
(* What the push-to-talk session promises its user: one radio, one         *)
(* transmission at a time.  The phases are the PTTState values of          *)
(* src/src/atc/atc_session.hpp; "mic" says that the microphone is being    *)
(* recorded, "voice" that a controller or an ATIS voice is on the air.     *)
(* AtcSession implements this specification (AtcSession!Radio).            *)
(***************************************************************************)

VARIABLES phase, mic, voice

rvars == <<phase, mic, voice>>

RInit == phase = "IDLE" /\ ~mic /\ ~voice

\* The pilot keys the microphone; only an idle radio transmits.
Press == phase = "IDLE" /\ phase' = "RECORDING" /\ mic' \in BOOLEAN /\ ~voice'

\* The key is released: the recording is discarded or processed.
Release ==
    phase = "RECORDING" /\ phase' \in {"IDLE", "PROCESSING"} /\ ~mic' /\ ~voice'

\* A typed transmission, or an unsolicited call or broadcast.
Start ==
    phase = "IDLE" /\ phase' \in {"PROCESSING", "PLAYING"} /\ ~mic' /\ ~voice'

\* The transmission is answered, or dropped.
Answer ==
    phase = "PROCESSING" /\ phase' \in {"IDLE", "PLAYING"} /\ ~mic' /\ ~voice'

\* The answer goes on the air, pauses between two tries, or stops.
Speak == phase = "PLAYING" /\ phase' = "PLAYING" /\ ~mic' /\ voice' \in BOOLEAN

Over == phase = "PLAYING" /\ phase' = "IDLE" /\ ~mic' /\ ~voice'

RNext == Press \/ Release \/ Start \/ Answer \/ Speak \/ Over

RSpec == RInit /\ [][RNext]_rvars
=============================================================================
