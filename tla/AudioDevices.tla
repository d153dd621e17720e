---------------------------- MODULE AudioDevices ----------------------------
(***************************************************************************)
(* The microphone and the loudspeaker, each shared by two users:           *)
(*   src/src/audio/audio_recorder.cpp  one capture buffer, filled by the   *)
(*        capture callback on the device's own thread;                     *)
(*   src/src/audio/audio_player.cpp    one channel, ended by FMOD's        *)
(*        completion callback, which comes when it likes;                  *)
(*   src/src/audio/ptt_input.cpp       the key;                            *)
(*   src/src/ui/atc_ui.cpp             the audio test of the Audio tab,    *)
(*        which uses both behind the session's back.                       *)
(* The session (AtcSession.tla) is reduced to the calls it makes here.     *)
(*                                                                         *)
(* A chunk of samples is the number of the key press it was captured       *)
(* under, 0 when the key was up.  A sound is a number, fresh for every     *)
(* XPLMPlayPCMOnBus.                                                       *)
(***************************************************************************)
EXTENDS Integers, Sequences, FiniteSets

CONSTANTS
    MaxPresses,   \* bound: key presses the session accepts
    MaxSounds,    \* bound: sounds handed to the simulator
    MaxTests,     \* bound: audio tests started
    MaxChunks,    \* bound: chunks in the buffer; the code has none
    MinChunks,    \* kMinRecordingDuration
    Rates         \* capture rates the device accepts, kDesiredSampleRate too

ASSUME AudioAssumption ==
    /\ MaxPresses \in Nat /\ MaxSounds \in Nat /\ MaxTests \in Nat
    /\ MaxChunks \in Nat /\ MinChunks \in Nat \ {0}
    /\ Rates \subseteq Nat

VARIABLES
    \* audio_recorder
    joins,        \* stopping the device waits for its callback (miniaudio)
    initialized, actual_sample_rate, recording, device_on, buffer, capture,
    \* audio_player
    is_playing, active_channel, active_pcm16,
    \* the simulator's mixer (external)
    sounding, owed, sounds,
    \* main thread: the sound play_pcm16 has started and not yet published,
    \* and whether on_ptt_released is between duration_seconds and take_pcm
    publishing, taking,
    \* the session, the key and the volume slider
    state, presses, muted,
    \* the audio test
    test_state, tests,
    \* history
    sent, misfired

device == <<joins, initialized, actual_sample_rate>>
recorder == <<device, recording, device_on, buffer, capture>>
player == <<is_playing, active_channel, active_pcm16, sounding, owed, sounds,
            publishing, misfired>>
session == <<state, presses, muted, taking, sent>>
test == <<test_state, tests>>
audio_vars == <<recorder, player, session, test>>

kDesiredSampleRate == 16000

None == 0                       \* no sound: nullptr, an empty vector

SoundIds == 1..MaxSounds

\* Where the capture callback is: outside, about to read recording_ with a
\* chunk in hand, or about to take buffer_mutex_.
CaptureSteps == [at : {"out", "rendered", "append"}, chunk : 0..MaxPresses]

Outside == [at |-> "out", chunk |-> 0]

-----------------------------------------------------------------------------
(* audio_recorder                                                          *)

\* activate_client_format(rate): the unit takes the rate as asked or not.
activate_client_format(accepted, rate) == rate \in accepted

\* init() on macOS: 16 kHz first, the device's own rate next; without either,
\* or without a device, the recorder stays uninitialised.
CoreAudioInit ==
    \E accepted \in SUBSET Rates, device_rate \in Rates :
        LET rate == IF activate_client_format(accepted, kDesiredSampleRate)
                    THEN kDesiredSampleRate ELSE device_rate
        IN  /\ joins = FALSE
            /\ initialized = activate_client_format(accepted, rate)
            /\ actual_sample_rate =
                   IF initialized THEN rate ELSE kDesiredSampleRate

\* init() on Windows: miniaudio resamples, or ma_device_init fails.
MiniaudioInit ==
    /\ joins = TRUE
    /\ initialized \in BOOLEAN
    /\ actual_sample_rate = kDesiredSampleRate

RecorderInit ==
    /\ CoreAudioInit \/ MiniaudioInit
    /\ recording = FALSE /\ device_on = FALSE
    /\ buffer = <<>> /\ capture = Outside

\* The chunk the microphone delivers now.
Now == IF state = "RECORDING" THEN presses ELSE 0

\* render_callback: AudioUnitRender has filled "temp" ...
RenderCallback ==
    /\ device_on /\ capture = Outside
    /\ capture' = [at |-> "rendered", chunk |-> Now]
    /\ UNCHANGED <<device, recording, device_on,
                   buffer, player, session, test>>

\* ... recording_ is read without the mutex ...
ReadRecording ==
    /\ capture.at = "rendered"
    /\ capture' = IF recording THEN [capture EXCEPT !.at = "append"]
                               ELSE Outside
    /\ UNCHANGED <<device, recording, device_on,
                   buffer, player, session, test>>

\* ... and the chunk is appended under it, whatever recording_ is by then.
AppendChunk ==
    /\ capture.at = "append"
    /\ Len(buffer) < MaxChunks
    /\ buffer' = Append(buffer, capture.chunk)
    /\ capture' = Outside
    /\ UNCHANGED <<device, recording, device_on,
                   player, session, test>>

\* A callback in flight when the device is stopped may outlive the call
\* (CoreAudio does not promise otherwise), but is over within an I/O cycle,
\* long before anybody starts the device again.
IoCycleOver == ~device_on => capture = Outside

\* Mutant: the buffer is not emptied on the way in.
start_recording_kept ==
    /\ IoCycleOver
    /\ UNCHANGED <<device, capture, buffer>>
    /\ \/ ~initialized /\ UNCHANGED <<recording, device_on>>
       \/ initialized /\ recording' = TRUE /\ device_on' = TRUE
       \/ initialized /\ recording' = FALSE /\ UNCHANGED device_on

start_recording ==
    /\ IoCycleOver
    /\ UNCHANGED <<device, capture>>
    /\ \/ ~initialized /\ UNCHANGED <<recording, device_on, buffer>>
       \/ /\ initialized
          /\ buffer' = <<>>
          /\ \/ recording' = TRUE /\ device_on' = TRUE
             \/ recording' = FALSE /\ UNCHANGED device_on   \* start failed

\* stop_recording() on macOS.
CoreAudioStop ==
    /\ ~joins
    /\ UNCHANGED <<buffer, capture>>

\* stop_recording() on Windows: ma_device_stop waits until the callback has
\* returned.  One that has read recording_ still appends.
MiniaudioStop ==
    /\ joins
    /\ buffer' = IF capture.at = "append" THEN Append(buffer, capture.chunk)
                                          ELSE buffer
    /\ capture' = Outside

stop_recording ==
    /\ recording' = FALSE
    /\ device_on' = FALSE
    /\ CoreAudioStop \/ MiniaudioStop
    /\ UNCHANGED device

-----------------------------------------------------------------------------
(* audio_player.  XPLMStopAudio silences the sound; its completion         *)
(* callback is then due like that of a sound that ran out.                 *)

MainFree == publishing = None /\ ~taking

\* The mixer when the channel c, if any, has been stopped.
Stopped(c) == sounding \ {c}

\* Mutant: the channel is left to run out.
play_pcm16_over(empty) ==
    /\ MainFree
    /\ sounds < MaxSounds
    /\ is_playing' = FALSE
    /\ \/ empty /\ sounding' = sounding
                /\ UNCHANGED <<active_pcm16, owed, sounds, publishing>>
       \/ /\ ~empty
          /\ active_pcm16' = sounds + 1
          /\ sounds' = sounds + 1
          /\ \/ /\ publishing' = sounds + 1
                /\ sounding' = sounding \cup {sounds + 1}
                /\ owed' = owed \cup {sounds + 1}
             \/ sounding' = sounding /\ UNCHANGED <<publishing, owed>>
    /\ active_channel' = None
    /\ UNCHANGED misfired

\* play_pcm16 up to XPLMPlayPCMOnBus, which may fail.  "empty": no samples.
play_pcm16(empty) ==
    /\ MainFree
    /\ sounds < MaxSounds
    /\ is_playing' = FALSE
    /\ \/ empty /\ sounding' = Stopped(active_channel)
                /\ UNCHANGED <<active_pcm16, owed, sounds, publishing>>
       \/ /\ ~empty
          /\ active_pcm16' = sounds + 1
          /\ sounds' = sounds + 1
          /\ \/ /\ publishing' = sounds + 1
                /\ sounding' = Stopped(active_channel) \cup {sounds + 1}
                /\ owed' = owed \cup {sounds + 1}
             \/ /\ sounding' = Stopped(active_channel)        \* refused
                /\ UNCHANGED <<publishing, owed>>
    /\ active_channel' = None
    /\ UNCHANGED misfired

\* The rest of play_pcm16: the channel is published, then the flag.
PublishChannel ==
    /\ publishing # None
    /\ active_channel' = publishing
    /\ is_playing' = TRUE
    /\ publishing' = None
    /\ UNCHANGED <<active_pcm16, sounding, owed, sounds, misfired, recorder,
                   session, test>>

\* A sound runs out (external).
SoundEnds ==
    /\ \E s \in sounding : sounding' = sounding \ {s}
    /\ UNCHANGED <<is_playing, active_channel, active_pcm16, owed, sounds,
                   publishing, misfired, recorder, session, test>>

\* pcm_complete_cb, for a sound that is silent by now.  It cannot tell which
\* sound it is for: inRefcon is unused.
pcm_complete_cb ==
    /\ \E s \in owed \ sounding :
          /\ owed' = owed \ {s}
          /\ misfired' = (misfired \/ s = publishing
                          \/ active_channel \notin {s, None})
    /\ active_channel' = None
    /\ is_playing' = FALSE
    /\ UNCHANGED <<active_pcm16, sounding, sounds, publishing, recorder,
                   session, test>>

\* abort_playback(): the pilot retunes away from a broadcast.
abort_playback ==
    /\ MainFree
    /\ active_channel # None
    /\ sounding' = Stopped(active_channel)
    /\ active_channel' = None /\ is_playing' = FALSE
    /\ active_pcm16' = None
    /\ UNCHANGED <<owed, sounds, publishing, misfired, recorder, session, test>>

\* play_ptt_click returns at once when the volume is zero: nothing is
\* stopped then.
play_ptt_click ==
    \/ muted /\ MainFree /\ UNCHANGED player
    \/ ~muted /\ play_pcm16(FALSE)

\* play_squelch_burst: synthesised here, so never empty.
play_squelch_burst == play_pcm16(FALSE)

\* play_pcm_on_com returns before stopping anything when there is nothing to
\* play.
play_pcm_on_com(empty) ==
    \/ empty /\ MainFree /\ UNCHANGED player
    \/ ~empty /\ play_pcm16(FALSE)

\* decode_wav_to_pcm16, of what encode_wav wrote: the header is well formed,
\* so the samples come back, none if there were none.
decode_wav_to_pcm16(wav) == wav

play_wav(wav) == play_pcm16(decode_wav_to_pcm16(wav) = <<>>)

-----------------------------------------------------------------------------
(* The session and the key (ptt_input::ptt_command_handler).               *)

\* xplm_CommandBegin -> on_ptt_pressed: the click, then the microphone.
PttPressed ==
    /\ state = "IDLE" /\ presses < MaxPresses
    /\ state' = "RECORDING" /\ presses' = presses + 1
    /\ play_ptt_click
    /\ start_recording
    /\ UNCHANGED <<muted, taking, sent, test>>

\* xplm_CommandEnd -> on_ptt_released, up to the minimum-duration gate.
PttReleased ==
    /\ MainFree /\ state = "RECORDING"
    /\ stop_recording
    /\ \/ Len(buffer') < MinChunks /\ state' = "IDLE" /\ UNCHANGED taking
       \/ Len(buffer') >= MinChunks /\ taking' = TRUE /\ UNCHANGED state
    /\ UNCHANGED <<presses, muted, sent, player, test>>

\* The rest of on_ptt_released: take_pcm moves the buffer to the STT job.
take_pcm ==
    /\ taking
    /\ sent' = [hold |-> presses, pcm |-> buffer]
    /\ buffer' = <<>>
    /\ state' = "PROCESSING" /\ taking' = FALSE
    /\ UNCHANGED <<device, recording, device_on, capture, presses, muted,
                   player, test>>

\* The answer comes, or the squelch burst that stands for a lost one.
PlayReply ==
    /\ state = "PROCESSING"
    /\ \/ state' = "PLAYING" /\ \E empty \in BOOLEAN : play_pcm_on_com(empty)
       \/ state' = "IDLE" /\ play_squelch_burst
    /\ UNCHANGED <<presses, muted, taking, sent, recorder, test>>

\* update(): the reply is over as soon as is_playing() says so.
PlaybackOver ==
    /\ MainFree /\ state = "PLAYING" /\ ~is_playing
    /\ state' = "IDLE"
    /\ UNCHANGED <<presses, muted, taking, sent, recorder,
                   player, test>>

\* An ATIS broadcast starts.
PlayAtis ==
    /\ state = "IDLE"
    /\ play_pcm_on_com(FALSE)
    /\ UNCHANGED <<session, recorder, test>>

-----------------------------------------------------------------------------
(* The Audio tab (draw_audio_tab).                                         *)

\* Record Test: nothing asks whether the key is down.
TestRecord ==
    /\ MainFree /\ test_state = "IDLE" /\ tests < MaxTests
    /\ test_state' = "RECORDING" /\ tests' = tests + 1
    /\ start_recording
    /\ UNCHANGED <<player, session>>

\* Three seconds of drawing later the test stops the microphone, whoever
\* started it, and plays back what it finds.  encode_wav leaves the buffer.
TestPlay ==
    /\ MainFree /\ test_state = "RECORDING"
    /\ stop_recording
    /\ test_state' = "PLAYING"
    /\ play_wav(buffer')
    /\ UNCHANGED <<tests, state, presses, muted, taking, sent>>

TestOver ==
    /\ MainFree /\ test_state = "PLAYING" /\ ~is_playing
    /\ test_state' = "IDLE"
    /\ UNCHANGED <<tests, recorder, player, session>>

\* Test Speaker, and the volume slider.
TestSpeaker ==
    /\ play_ptt_click
    /\ UNCHANGED <<recorder, session, test>>

SetVolume ==
    /\ MainFree
    /\ muted' = ~muted
    /\ UNCHANGED <<state, presses, taking, sent, recorder,
                   player, test>>

-----------------------------------------------------------------------------

AudioInit ==
    /\ RecorderInit
    /\ is_playing = FALSE /\ active_channel = None /\ active_pcm16 = None
    /\ sounding = {} /\ owed = {} /\ sounds = 0
    /\ publishing = None /\ taking = FALSE
    /\ state = "IDLE" /\ presses = 0 /\ muted = FALSE
    /\ test_state = "IDLE" /\ tests = 0
    /\ sent = [hold |-> 0, pcm |-> <<>>]
    /\ misfired = FALSE

CaptureThread == RenderCallback \/ ReadRecording \/ AppendChunk

AudioNext ==
    \/ CaptureThread
    \/ SoundEnds
    \/ pcm_complete_cb
    \/ PublishChannel
    \/ abort_playback
    \/ PttPressed
    \/ PttReleased
    \/ take_pcm
    \/ PlayReply
    \/ PlaybackOver
    \/ PlayAtis
    \/ TestRecord
    \/ TestPlay
    \/ TestOver
    \/ TestSpeaker
    \/ SetVolume

AudioSpec == AudioInit /\ [][AudioNext]_audio_vars

-----------------------------------------------------------------------------
(* Properties.                                                             *)

\* What goes to the recogniser was captured under the key press it answers
\* for: no sample of an earlier transmission that was too short to be taken,
\* of the audio test, or of a callback that came late.  The one exception is
\* the chunk a running audio test had in hand as the key went down.
OwnVoiceOnly ==
    \A i \in DOMAIN sent.pcm :
        sent.pcm[i] = sent.hold \/ (i = 1 /\ sent.pcm[i] = 0 /\ tests > 0)

\* Until a completion callback meets a channel that is not its own, the flag
\* the session waits for is true exactly while the last sound's callback is
\* due, nothing but that sound can be heard, and its samples are still there.
OneVoice ==
    ~misfired /\ publishing = None =>
        /\ is_playing <=> active_channel \in owed
        /\ is_playing <=> active_channel # None
        /\ sounding \subseteq {active_channel}
        /\ sounding \subseteq {active_pcm16}

=============================================================================
