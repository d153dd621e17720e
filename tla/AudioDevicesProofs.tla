------------------------- MODULE AudioDevicesProofs -------------------------
(***************************************************************************)
(* Proofs about the microphone and the loudspeaker, for any number of key  *)
(* presses, sounds, audio tests and chunks, and for both recorders.        *)
(***************************************************************************)
EXTENDS AudioDevices, TLAPS

(***************************************************************************)
(* The loudspeaker.                                                        *)
(***************************************************************************)

\* Sounds are numbered in the order in which they were handed to the simulator.
SoundsInv ==
    /\ sounds \in Nat
    /\ sounding \subseteq owed /\ owed \subseteq 1 .. sounds
    /\ publishing \in 0 .. sounds /\ active_channel \in 0 .. sounds
    /\ publishing # None => active_channel = None /\ active_pcm16 = publishing

\* While no callback has met a channel that is not its own: between
\* XPLMPlayPCMOnBus and the publication of its channel the new sound is the only
\* one and its callback is due; at other times the same holds of the channel.
VoiceInv ==
    /\ publishing # None => publishing \in owed
    /\ is_playing <=> active_channel # None
    /\ active_channel # None => active_channel \in owed /\ active_pcm16 = active_channel
    /\ sounding \subseteq {active_channel, publishing}

PlayerInv == /\ is_playing \in BOOLEAN /\ misfired \in BOOLEAN
             /\ SoundsInv /\ (~misfired => VoiceInv)

\* A sound is handed over, refused, or there was none to hand over.
LEMMA PlayKeepsPlayer ==
    ASSUME PlayerInv, NEW empty \in BOOLEAN, play_pcm16(empty)
    PROVE  PlayerInv'
  <1> DEFINE silenced == sounding \ {active_channel}
             s == sounds + 1
  <1>0. sounds \in Nat /\ sounding \subseteq owed /\ owed \subseteq 1 .. sounds
    BY DEF PlayerInv, SoundsInv
  <1>1. /\ publishing = None
        /\ is_playing' = FALSE /\ active_channel' = None /\ misfired' = misfired
    BY DEF play_pcm16, MainFree
  <1>2. silenced \subseteq owed /\ owed \subseteq 1 .. s /\ None \notin silenced /\ s # None
    <2>1. silenced \subseteq owed
      BY <1>0
    <2>2. 1 .. sounds \subseteq 1 .. s /\ s # None /\ None \notin 1 .. sounds
      BY <1>0 DEF None
    <2> QED BY <1>0, <2>1, <2>2
  <1>3. ~misfired => silenced = {}
    <2> SUFFICES ASSUME ~misfired PROVE silenced = {}
      OBVIOUS
    <2>1. sounding \subseteq {active_channel, None}
      BY <1>1 DEF PlayerInv, VoiceInv
    <2> QED BY <1>2, <2>1
  <1>4. s \in Nat /\ s \in 0 .. s /\ s \in 1 .. s /\ 0 \in 0 .. s /\ 0 \in 0 .. sounds
    BY <1>0
  <1> HIDE DEF silenced, s
  <1>5. CASE /\ sounding' = silenced /\ owed' = owed /\ publishing' = publishing
             /\ sounds' \in {sounds, s}
    <2>1. SoundsInv'
      BY <1>0, <1>1, <1>2, <1>4, <1>5 DEF SoundsInv, None
    <2>2. ~misfired => VoiceInv'
      BY <1>1, <1>3, <1>5 DEF VoiceInv
    <2> QED BY <1>1, <2>1, <2>2 DEF PlayerInv
  <1>6. CASE /\ publishing' = s /\ sounds' = s /\ active_pcm16' = s
             /\ sounding' = silenced \cup {s} /\ owed' = owed \cup {s}
    <2>1. SoundsInv'
      BY <1>0, <1>1, <1>2, <1>4, <1>6 DEF SoundsInv, None
    <2>2. ~misfired => VoiceInv'
      BY <1>1, <1>3, <1>6 DEF VoiceInv
    <2> QED BY <1>1, <2>1, <2>2 DEF PlayerInv
  <1> QED BY <1>5, <1>6 DEF play_pcm16, Stopped, silenced, s

LEMMA PlayerNext == PlayerInv /\ [AudioNext]_audio_vars => PlayerInv'
  <1> SUFFICES ASSUME PlayerInv, [AudioNext]_audio_vars PROVE PlayerInv'
    OBVIOUS
  <1>0. ASSUME UNCHANGED player PROVE PlayerInv'
    BY <1>0 DEF player, PlayerInv, SoundsInv, VoiceInv
  <1>1. CASE CaptureThread \/ PttReleased \/ take_pcm \/ PlaybackOver \/ TestRecord \/ TestOver
             \/ SetVolume \/ UNCHANGED audio_vars
    BY <1>0, <1>1 DEF CaptureThread, RenderCallback, ReadRecording, AppendChunk, PttReleased,
       take_pcm, PlaybackOver, TestRecord, TestOver, SetVolume, audio_vars
  <1>2. CASE SoundEnds
    BY <1>2 DEF SoundEnds, PlayerInv, SoundsInv, VoiceInv
  <1>3. CASE PublishChannel
    <2>1. /\ publishing # None /\ active_channel' = publishing /\ is_playing' = TRUE
          /\ publishing' = None /\ UNCHANGED <<active_pcm16, sounding, owed, sounds, misfired>>
      BY <1>3 DEF PublishChannel
    <2> QED BY <2>1 DEF PlayerInv, SoundsInv, VoiceInv, None
  <1>4. CASE pcm_complete_cb
    <2>1. PICK s \in owed \ sounding :
            /\ owed' = owed \ {s}
            /\ misfired' = (misfired \/ s = publishing \/ active_channel \notin {s, None})
      BY <1>4 DEF pcm_complete_cb
    <2>2. /\ active_channel' = None /\ is_playing' = FALSE
          /\ UNCHANGED <<active_pcm16, sounding, sounds, publishing>>
      BY <1>4 DEF pcm_complete_cb
    <2>3. SoundsInv' /\ misfired' \in BOOLEAN
      BY <2>1, <2>2 DEF PlayerInv, SoundsInv, None
    <2>4. ~misfired' => VoiceInv'
      BY <2>1, <2>2 DEF PlayerInv, SoundsInv, VoiceInv
    <2> QED BY <2>2, <2>3, <2>4 DEF PlayerInv
  <1>5. CASE abort_playback
    <2>1. /\ publishing = None /\ sounding' = sounding \ {active_channel}
          /\ active_channel' = None /\ is_playing' = FALSE
          /\ UNCHANGED <<owed, sounds, publishing, misfired>>
      BY <1>5 DEF abort_playback, MainFree, Stopped
    <2>2. ~misfired => sounding' \subseteq {None}
      BY <2>1 DEF PlayerInv, VoiceInv
    <2> QED BY <2>1, <2>2 DEF PlayerInv, SoundsInv, VoiceInv, None
  <1>6. CASE PttPressed \/ TestSpeaker
    BY <1>0, <1>6, PlayKeepsPlayer DEF PttPressed, TestSpeaker, play_ptt_click
  <1>7. CASE PlayReply \/ PlayAtis
    BY <1>0, <1>7, PlayKeepsPlayer DEF PlayReply, PlayAtis, play_pcm_on_com, play_squelch_burst
  <1>8. CASE TestPlay
    <2>1. (decode_wav_to_pcm16(buffer') = <<>>) \in BOOLEAN
      OBVIOUS
    <2> QED BY <1>8, <2>1, PlayKeepsPlayer DEF TestPlay, play_wav
  <1> QED BY <1>1, <1>2, <1>3, <1>4, <1>5, <1>6, <1>7, <1>8 DEF AudioNext

\* The flag the session waits for tells the truth about the one sound that can be
\* heard, until a completion callback meets a channel that is not its own; and that
\* is the only way in which it can cease to.
THEOREM OneVoiceAtATime == AudioSpec => []OneVoice
  <1>1. AudioInit => PlayerInv
    <2> SUFFICES ASSUME AudioInit PROVE PlayerInv
      OBVIOUS
    <2>1. /\ is_playing = FALSE /\ misfired = FALSE /\ active_channel = 0 /\ active_pcm16 = 0
          /\ sounding = {} /\ owed = {} /\ sounds = 0 /\ publishing = 0
      BY DEF AudioInit, None
    <2>2. SoundsInv
      BY <2>1 DEF SoundsInv, None
    <2>3. VoiceInv
      BY <2>1 DEF VoiceInv, None
    <2> QED BY <2>1, <2>2, <2>3 DEF PlayerInv
  <1>2. PlayerInv => OneVoice
    <2> SUFFICES ASSUME PlayerInv, ~misfired, publishing = None
                 PROVE  /\ is_playing <=> active_channel \in owed
                        /\ is_playing <=> active_channel # None
                        /\ sounding \subseteq {active_channel}
                        /\ sounding \subseteq {active_pcm16}
      BY DEF OneVoice
    <2>1. VoiceInv /\ sounding \subseteq owed /\ None \notin owed
      BY DEF PlayerInv, SoundsInv, None
    <2> QED BY <2>1 DEF VoiceInv
  <1> QED BY <1>1, <1>2, PlayerNext, PTL DEF AudioSpec

(***************************************************************************)
(* The microphone.                                                         *)
(***************************************************************************)

\* A chunk of a key press, or the one a running audio test had in hand.
OwnChunks(pcm, hold) ==
    \A i \in DOMAIN pcm : pcm[i] = hold \/ (i = 1 /\ pcm[i] = 0 /\ tests > 0)

RecorderTypes ==
    /\ initialized \in BOOLEAN /\ device_on \in BOOLEAN /\ joins \in BOOLEAN
    /\ buffer \in Seq(Nat)
    /\ capture \in [at : {"out", "rendered", "append"}, chunk : Nat]
    /\ presses \in Nat /\ tests \in Nat

\* While the key is down, the buffer and the callback in flight hold this press, but
\* for the test's chunk, which comes before everything else.  While it is up, only
\* an audio test runs the device; what a late callback then leaves in the buffer is
\* wiped before the next key press.
MicInv ==
    /\ ~initialized => buffer = <<>> /\ ~device_on /\ capture = Outside
    /\ taking => state = "RECORDING" /\ ~device_on
    /\ state = "RECORDING" =>
         /\ OwnChunks(buffer, presses)
         /\ capture # Outside =>
              capture.chunk = presses \/ (capture.chunk = 0 /\ tests > 0 /\ buffer = <<>>)
    /\ state # "RECORDING" /\ device_on =>
         /\ tests > 0
         /\ capture # Outside => capture.chunk = 0

RecorderInv == RecorderTypes /\ MicInv /\ OwnVoiceOnly

\* The callback's chunk goes to the end of the buffer.
LEMMA AppendOwn ==
    ASSUME RecorderTypes, OwnChunks(buffer, presses),
           capture.chunk = presses \/ (capture.chunk = 0 /\ tests > 0 /\ buffer = <<>>)
    PROVE  OwnChunks(Append(buffer, capture.chunk), presses)
  <1> DEFINE b == Append(buffer, capture.chunk)
  <1>1. /\ Len(buffer) \in Nat /\ DOMAIN buffer = 1 .. Len(buffer)
        /\ DOMAIN b = 1 .. Len(buffer) + 1
        /\ \A i \in 1 .. Len(buffer) : b[i] = buffer[i]
        /\ b[Len(buffer) + 1] = capture.chunk
        /\ buffer = <<>> => Len(buffer) = 0
    BY DEF RecorderTypes
  <1> HIDE DEF b
  <1> QED BY <1>1 DEF OwnChunks

LEMMA StartKeepsRecorder ==
    ASSUME RecorderInv, start_recording, UNCHANGED <<taking, sent>>, ~taking,
           \/ /\ state = "IDLE" /\ state' = "RECORDING" /\ presses' = presses + 1
              /\ tests' = tests
           \/ UNCHANGED <<state, presses>> /\ tests' = tests + 1
    PROVE  RecorderInv'
  <1>0. /\ RecorderTypes /\ MicInv /\ tests' \in Nat /\ presses' \in Nat
        /\ tests > 0 => tests' > 0
    BY DEF RecorderInv, RecorderTypes
  <1>1. /\ UNCHANGED <<joins, initialized, capture>>
        /\ ~device_on => capture = Outside
    BY DEF start_recording, device, IoCycleOver
  <1>2. OwnVoiceOnly'
    BY <1>0 DEF RecorderInv, OwnVoiceOnly
  <1>3. buffer' = <<>> /\ device_on' \in BOOLEAN /\ (~initialized => ~device_on')
    <2>0. (~initialized => buffer = <<>> /\ ~device_on) /\ device_on \in BOOLEAN
      BY <1>0 DEF MicInv, RecorderTypes
    <2>1. CASE ~initialized /\ UNCHANGED <<recording, device_on, buffer>>
      BY <2>0, <2>1
    <2>2. CASE initialized /\ buffer' = <<>> /\ device_on' = TRUE
      BY <2>2
    <2>3. CASE initialized /\ buffer' = <<>> /\ UNCHANGED device_on
      BY <2>0, <2>3
    <2> QED BY <2>1, <2>2, <2>3 DEF start_recording
  <1>4. RecorderTypes'
    BY <1>0, <1>1, <1>3 DEF RecorderTypes
  <1>5. OwnChunks(buffer, presses)'
    BY <1>3 DEF OwnChunks
  <1>6. MicInv'
    <2>1. CASE state = "IDLE" /\ state' = "RECORDING"
      <3>1. capture # Outside => capture.chunk = 0 /\ tests > 0
        BY <1>0, <1>1, <2>1 DEF MicInv
      <3> QED BY <1>0, <1>1, <1>3, <1>5, <2>1, <3>1 DEF MicInv
    <2>2. CASE UNCHANGED <<state, presses>> /\ tests' = tests + 1
      <3>1. tests' > 0
        BY <1>0, <2>2 DEF RecorderTypes
      <3>2. CASE state = "RECORDING"
        BY <1>0, <1>1, <1>3, <1>5, <2>2, <3>1, <3>2 DEF MicInv
      <3>3. CASE state # "RECORDING"
        BY <1>0, <1>1, <1>3, <2>2, <3>1, <3>3 DEF MicInv
      <3> QED BY <3>2, <3>3
    <2> QED BY <2>1, <2>2
  <1> QED BY <1>2, <1>4, <1>6 DEF RecorderInv

\* stop_recording, by whomever: miniaudio's last callback is waited for, CoreAudio's
\* may come later.
LEMMA StopFacts ==
    ASSUME RecorderTypes, MicInv, stop_recording, UNCHANGED <<presses, tests>>
    PROVE  /\ RecorderTypes' /\ ~device_on' /\ UNCHANGED initialized
           /\ ~initialized => buffer' = <<>> /\ capture' = Outside
           /\ state = "RECORDING" =>
                /\ OwnChunks(buffer, presses)'
                /\ capture' # Outside =>
                     capture'.chunk = presses \/ (capture'.chunk = 0 /\ tests > 0 /\ buffer' = <<>>)
  <1>0. device_on' = FALSE /\ UNCHANGED <<joins, initialized>>
    BY DEF stop_recording, device
  <1>1. CASE UNCHANGED <<buffer, capture>>
    BY <1>0, <1>1 DEF RecorderTypes, MicInv, OwnChunks
  <1>2. CASE capture.at # "append" /\ buffer' = buffer /\ capture' = Outside
    BY <1>0, <1>2 DEF RecorderTypes, MicInv, OwnChunks, Outside
  <1>3. CASE capture.at = "append" /\ buffer' = Append(buffer, capture.chunk) /\ capture' = Outside
    <2>1. capture # Outside /\ initialized
      BY <1>3 DEF Outside, MicInv
    <2>2. RecorderTypes'
      <3>1. Append(buffer, capture.chunk) \in Seq(Nat)
        BY DEF RecorderTypes
      <3>2. capture' \in [at : {"out", "rendered", "append"}, chunk : Nat]
        BY <1>3 DEF Outside
      <3> QED BY <1>0, <1>3, <3>1, <3>2 DEF RecorderTypes
    <2>3. state = "RECORDING" => OwnChunks(Append(buffer, capture.chunk), presses)
      BY <2>1, AppendOwn DEF MicInv
    <2>4. state = "RECORDING" => OwnChunks(buffer, presses)'
      BY <1>3, <2>3 DEF OwnChunks
    <2> QED BY <1>0, <1>3, <2>1, <2>2, <2>4
  <1> QED BY <1>1, <1>2, <1>3 DEF stop_recording, CoreAudioStop, MiniaudioStop

LEMMA RecorderNext == RecorderInv /\ [AudioNext]_audio_vars => RecorderInv'
  <1> SUFFICES ASSUME RecorderInv, [AudioNext]_audio_vars PROVE RecorderInv'
    OBVIOUS
  <1>0. RecorderTypes /\ MicInv /\ OwnVoiceOnly
    BY DEF RecorderInv
  <1>1. ASSUME UNCHANGED recorder, UNCHANGED <<presses, taking, sent, tests>>,
               state' = state \/ {state, state'} \subseteq {"IDLE", "PROCESSING", "PLAYING"}
        PROVE  RecorderInv'
    <2>1. /\ UNCHANGED <<joins, initialized, recording, device_on, buffer, capture>>
          /\ state' = "RECORDING" <=> state = "RECORDING"
      BY <1>1 DEF recorder, device
    <2> QED BY <1>0, <1>1, <2>1 DEF RecorderInv, RecorderTypes, MicInv, OwnVoiceOnly, OwnChunks
  <1>2. CASE SoundEnds \/ pcm_complete_cb \/ PublishChannel \/ abort_playback \/ PlayReply
             \/ PlaybackOver \/ PlayAtis \/ TestOver \/ TestSpeaker \/ SetVolume \/ UNCHANGED audio_vars
    BY <1>1, <1>2 DEF SoundEnds, pcm_complete_cb, PublishChannel, abort_playback, PlayReply,
       PlaybackOver, PlayAtis, TestOver, TestSpeaker, SetVolume, audio_vars, session, test
  <1>3. CASE RenderCallback
    <2>1. /\ capture' = [at |-> "rendered", chunk |-> Now] /\ device_on /\ capture = Outside
          /\ UNCHANGED <<joins, initialized, recording, device_on, buffer, state, presses, taking,
                         sent, tests>>
      BY <1>3 DEF RenderCallback, device, session, test
    <2>2. Now = (IF state = "RECORDING" THEN presses ELSE 0) /\ Now \in Nat
      BY <1>0 DEF Now, RecorderTypes
    <2>3. capture'.chunk = Now /\ capture' \in [at : {"out", "rendered", "append"}, chunk : Nat]
      BY <2>1, <2>2
    <2> QED BY <1>0, <2>1, <2>2, <2>3 DEF RecorderInv, RecorderTypes, MicInv, OwnVoiceOnly, OwnChunks
  <1>4. CASE ReadRecording
    <2>1. /\ capture' \in {[capture EXCEPT !.at = "append"], Outside} /\ capture.at = "rendered"
          /\ UNCHANGED <<joins, initialized, recording, device_on, buffer, state, presses, taking,
                         sent, tests>>
      BY <1>4 DEF ReadRecording, device, session, test
    <2>2. /\ capture # Outside
          /\ capture' \in [at : {"out", "rendered", "append"}, chunk : Nat]
          /\ capture' # Outside => capture'.chunk = capture.chunk
      BY <1>0, <2>1 DEF Outside, RecorderTypes
    <2> QED BY <1>0, <2>1, <2>2 DEF RecorderInv, RecorderTypes, MicInv, OwnVoiceOnly, OwnChunks
  <1>5. CASE AppendChunk
    <2>1. /\ capture' = Outside /\ capture.at = "append" /\ buffer' = Append(buffer, capture.chunk)
          /\ UNCHANGED <<joins, initialized, recording, device_on, state, presses, taking, sent, tests>>
      BY <1>5 DEF AppendChunk, device, session, test
    <2>2. capture # Outside /\ initialized
      BY <1>0, <2>1 DEF Outside, MicInv
    <2>3. RecorderTypes'
      BY <1>0, <2>1 DEF RecorderTypes, Outside
    <2>4. state = "RECORDING" => OwnChunks(Append(buffer, capture.chunk), presses)
      BY <1>0, <2>2, AppendOwn DEF MicInv
    <2>5. state = "RECORDING" => OwnChunks(buffer, presses)'
      BY <2>1, <2>4 DEF OwnChunks
    <2> QED BY <1>0, <2>1, <2>2, <2>3, <2>5 DEF RecorderInv, MicInv, OwnVoiceOnly
  <1>6. CASE PttPressed \/ TestRecord
    <2>1. ~taking /\ UNCHANGED <<taking, sent>> /\ start_recording
      BY <1>6 DEF PttPressed, TestRecord, play_ptt_click, play_pcm16, MainFree, session
    <2> QED BY <1>6, <2>1, StartKeepsRecorder DEF PttPressed, TestRecord, session, test
  <1>7. CASE PttReleased
    <2>1. /\ stop_recording /\ UNCHANGED <<presses, sent, tests>> /\ state = "RECORDING"
          /\ \/ state' = "IDLE" /\ UNCHANGED taking
             \/ taking' = TRUE /\ UNCHANGED state
          /\ ~taking
      BY <1>7 DEF PttReleased, MainFree, test
    <2> QED BY <1>0, <2>1, StopFacts DEF RecorderInv, MicInv, OwnVoiceOnly
  <1>8. CASE take_pcm
    <2>1. /\ taking /\ sent' = [hold |-> presses, pcm |-> buffer] /\ buffer' = <<>>
          /\ state' = "PROCESSING" /\ taking' = FALSE
          /\ UNCHANGED <<joins, initialized, recording, device_on, capture, presses, tests>>
      BY <1>8 DEF take_pcm, device, test
    <2>2. OwnVoiceOnly'
      BY <1>0, <2>1 DEF MicInv, OwnVoiceOnly, OwnChunks
    <2> QED BY <1>0, <2>1, <2>2 DEF RecorderInv, RecorderTypes, MicInv
  <1>9. CASE TestPlay
    <2>1. /\ stop_recording /\ UNCHANGED <<state, presses, taking, sent, tests>>
      BY <1>9 DEF TestPlay
    <2> QED BY <1>0, <2>1, StopFacts DEF RecorderInv, MicInv, OwnVoiceOnly
  <1> QED BY <1>2, <1>3, <1>4, <1>5, <1>6, <1>7, <1>8, <1>9 DEF AudioNext, CaptureThread

\* What goes to the recogniser was captured under the key press it answers for,
\* whatever late callbacks, short presses, failing devices and audio tests did
\* before, on both platforms.
THEOREM RecogniserHearsThePilot == AudioSpec => []OwnVoiceOnly
  <1>1. AudioInit => RecorderInv
    <2> SUFFICES ASSUME AudioInit PROVE RecorderInv
      OBVIOUS
    <2>1. ASSUME CoreAudioInit PROVE initialized \in BOOLEAN /\ joins \in BOOLEAN
      <3>1. PICK accepted, rate : initialized = (rate \in accepted) /\ joins = FALSE
        BY <2>1 DEF CoreAudioInit, activate_client_format
      <3>2. (rate \in accepted) \in BOOLEAN
        OBVIOUS
      <3> QED BY <3>1, <3>2
    <2>2. ASSUME MiniaudioInit PROVE initialized \in BOOLEAN /\ joins \in BOOLEAN
      BY <2>2 DEF MiniaudioInit
    <2>3. initialized \in BOOLEAN /\ joins \in BOOLEAN
      BY <2>1, <2>2 DEF AudioInit, RecorderInit
    <2>4. /\ device_on = FALSE /\ buffer = <<>> /\ capture = [at |-> "out", chunk |-> 0]
          /\ presses = 0 /\ tests = 0 /\ taking = FALSE /\ state = "IDLE" /\ sent.pcm = <<>>
      BY DEF AudioInit, RecorderInit, Outside
    <2>5. RecorderTypes
      <3>1. buffer \in Seq(Nat) /\ capture \in [at : {"out", "rendered", "append"}, chunk : Nat]
        BY <2>4
      <3> QED BY <2>3, <2>4, <3>1 DEF RecorderTypes
    <2>6. MicInv
      BY <2>4 DEF MicInv, Outside
    <2>7. OwnVoiceOnly
      BY <2>4 DEF OwnVoiceOnly
    <2> QED BY <2>5, <2>6, <2>7 DEF RecorderInv
  <1>2. RecorderInv => OwnVoiceOnly
    BY DEF RecorderInv
  <1> QED BY <1>1, <1>2, RecorderNext, PTL DEF AudioSpec
=============================================================================
