-------------------------- MODULE AtcSessionProofs --------------------------
(***************************************************************************)
(* Theorems about AtcSession, for every number of worker slots, every      *)
(* timer constant, every set of radio settings and every budget.  First    *)
(* the ones that hold with plugin toggles and retunes while work is in     *)
(* flight; then those of a session that is not interrupted (Quiet), which  *)
(* rest on one inductive invariant, QInv: the kind of the one outstanding  *)
(* job decides the PTT state and every flag.  Such a session implements    *)
(* HalfDuplexRadio and UnheardReply.                                       *)
(***************************************************************************)
EXTENDS AtcSession, SequenceTheorems, TLAPS

-----------------------------------------------------------------------------
(* Type correctness.                                                       *)

\* The callbacks still to be run in this frame are in the queue.
Drains == draining <= Len(callbacks)

\* A job handed to the manager leaves workers and queue well formed, and the
\* queue it was given is a prefix of the new one (manager.cpp, spawn_worker).
LEMMA SubmitType ==
    ASSUME TypeOK, NEW stage, NEW job \in Jobs, NEW q \in Seq(Callbacks),
           Submit(stage, job, q)
    PROVE  /\ workers' \in [Slots -> Jobs \cup {NoJob}]
           /\ callbacks' \in Seq(Callbacks)
           /\ Len(callbacks') >= Len(q)
<1>1. FailedCallback(job) \in Callbacks
  BY DEF FailedCallback, Jobs, Callbacks, Results
<1>2. CASE spawn_worker(job, q)
  BY <1>2 DEF spawn_worker, TypeOK
<1>3. CASE callbacks' = Append(q, FailedCallback(job)) /\ UNCHANGED workers
  BY <1>1, <1>3 DEF TypeOK
<1>4. QED
  BY <1>2, <1>3 DEF Submit

\* The jobs of the session are jobs.
LEMMA JobType ==
    ASSUME TypeOK, NEW kind \in JobKinds, NEW snap \in AtcVals
    PROVE  Job(kind, snap) \in Jobs
BY DEF Job, Jobs

\* The reply path: dispatch_guarded_tts keeps the types, ...
LEMMA GuardedType ==
    ASSUME TypeOK, NEW q \in Seq(Callbacks), dispatch_guarded_tts(q)
    PROVE  /\ state' \in PTTState /\ tts_pending' \in BOOLEAN
           /\ workers' \in [Slots -> Jobs \cup {NoJob}]
           /\ callbacks' \in Seq(Callbacks)
           /\ Len(callbacks') >= Len(q)
<1>1. atc.val \in AtcVals /\ "guarded" \in JobKinds
  BY DEF TypeOK, JobKinds, TtsKinds
<1>2. Submit("tts", Job("guarded", atc.val), q)
  BY DEF dispatch_guarded_tts, synthesize_async
<1>3. QED
  BY <1>1, <1>2, JobType, SubmitType DEF dispatch_guarded_tts, PTTState

\* The bounds of the counters and timers are not empty ranges.
LEMMA Zeros ==
    /\ 0 \in 0..(kMaxTtsTries - 1) /\ 0 \in 0..kDialogRetryDelay
    /\ kDialogRetryDelay \in 0..kDialogRetryDelay
    /\ 0 \in 0..kAtisTuneDelay /\ kAtisTuneDelay \in Nat
    /\ kMaxTtsTries \in Nat
    /\ kAtisCooldown \in Nat /\ kAtisRetryDelay \in Nat
BY SessionAssumption

\* What the reply path may change has its type, and the queue only grew.
ReplyType(q) ==
    /\ atc' \in [gen : Nat, val : AtcVals]
    /\ hist' \in Histories
    /\ state' \in PTTState /\ tts_pending' \in BOOLEAN
    /\ workers' \in [Slots -> Jobs \cup {NoJob}]
    /\ callbacks' \in Seq(Callbacks)
    /\ Len(callbacks') >= Len(q)
    /\ req' \in Requests /\ notice' \in Notices
    /\ dialog_tts_failures' \in 0..(kMaxTtsTries - 1)
    /\ dialog_retry_timer' \in 0..kDialogRetryDelay
    /\ tts_network_error' \in BOOLEAN /\ tts_blocked' \in BOOLEAN

\* ... engine::process_transcript's done callback ...
LEMMA EngineReplyType ==
    ASSUME TypeOK, NEW snap \in AtcVals, NEW cleared \in BOOLEAN,
           NEW q \in Seq(Callbacks), EngineReply(snap, cleared, q)
    PROVE  ReplyType(q)
<1>1. PICK after \in Processed :
         /\ atc' = after
         /\ \/ EngineSilent(after, cleared, q)
            \/ speak_response_guarded(after, snap, cleared, q)
         /\ UNCHANGED notice
  BY DEF EngineReply
<1>2. after \in [gen : Nat, val : AtcVals]
  BY DEF Processed, TypeOK, Mutated
<1>3. CASE speak_response_guarded(after, snap, cleared, q)
  <2>1. dispatch_guarded_tts(q)
    BY <1>3 DEF speak_response_guarded
  <2>2. req' \in Requests /\ hist' \in Histories
    BY <1>2, <1>3
       DEF speak_response_guarded, TypeOK, Requests, Histories
  <2>3. tts_network_error' \in BOOLEAN /\ tts_blocked' \in BOOLEAN
    BY <1>3 DEF speak_response_guarded
  <2>4. /\ dialog_tts_failures' \in 0..(kMaxTtsTries - 1)
        /\ dialog_retry_timer' \in 0..kDialogRetryDelay
    BY <1>3, Zeros DEF speak_response_guarded
  <2>5. notice' \in Notices
    BY <1>1 DEF TypeOK
  <2>6. /\ state' \in PTTState /\ tts_pending' \in BOOLEAN
        /\ workers' \in [Slots -> Jobs \cup {NoJob}]
        /\ callbacks' \in Seq(Callbacks) /\ Len(callbacks') >= Len(q)
    BY <2>1, GuardedType
  <2>7. QED
    BY <1>1, <1>2, <2>2, <2>3, <2>4, <2>5, <2>6, Zenon DEF ReplyType
<1>4. CASE EngineSilent(after, cleared, q)
  <2>1. tts_network_error' \in BOOLEAN /\ tts_blocked' \in BOOLEAN
    BY <1>4, Zenon DEF EngineSilent, TypeOK
  <2>2. hist' \in Histories
    BY <1>4 DEF EngineSilent, TypeOK, Histories
  <2>3. state' \in PTTState
    BY <1>4 DEF EngineSilent, PTTState
  <2>4. Len(callbacks') >= Len(q) /\ callbacks' \in Seq(Callbacks)
    BY <1>4 DEF EngineSilent
  <2>5. QED
    BY <1>1, <1>2, <1>4, <2>1, <2>2, <2>3, <2>4, Zenon
       DEF EngineSilent, ReplyType, TypeOK
<1>5. QED
  BY <1>1, <1>3, <1>4

\* ... and dispatch_pilot_transcript, keep the types.
LEMMA DispatchType ==
    ASSUME TypeOK, NEW s \in PTTState, NEW q \in Seq(Callbacks),
           dispatch_pilot_transcript(s, q)
    PROVE  ReplyType(q) /\ last_transcript' \in BOOLEAN
<1>1. atc.val \in AtcVals
  BY DEF TypeOK
<1>2. CASE EngineReply(atc.val, TRUE, q)
  BY <1>1, <1>2, EngineReplyType DEF dispatch_pilot_transcript
<1>3. CASE AskLm(s, q)
  <2>1. PICK after \in Processed :
          /\ atc' = after
          /\ hist' = [foreign |-> FALSE,
                      intervened |-> hist.intervened \/ after # atc]
    BY <1>3 DEF AskLm
  <2>2. atc' \in [gen : Nat, val : AtcVals] /\ hist' \in Histories
    BY <2>1 DEF Processed, TypeOK, Mutated, Histories
  <2>3. /\ workers' \in [Slots -> Jobs \cup {NoJob}]
        /\ callbacks' = q
    BY <1>1, <1>3, JobType DEF AskLm, spawn_worker, TypeOK, JobKinds
  <2>4. Len(callbacks') >= Len(q)
    BY <2>3
  <2>5. QED
    BY <1>3, <2>2, <2>3, <2>4, Zenon
       DEF AskLm, ReplyType, TypeOK, dispatch_pilot_transcript
<1>4. QED
  BY <1>2, <1>3 DEF dispatch_pilot_transcript

TInv == TypeOK /\ Drains

\* Every event between two frames keeps the types.
LEMMA EventsType == ASSUME TInv, Events PROVE TInv'
<1> USE DEF TInv
<1>q. callbacks \in Seq(Callbacks) /\ state \in PTTState
  BY DEF TypeOK
<1>1. CASE on_ptt_pressed
  <2>1. state' \in PTTState /\ audio' \in Sounds /\ recording' \in BOOLEAN
    BY <1>1 DEF on_ptt_pressed, play, TypeOK, Sounds, PTTState
  <2>2. budget' \in Nat
    BY <1>1 DEF on_ptt_pressed, Spend, TypeOK
  <2>3. QED
    BY <1>1, <2>1, <2>2, Zenon
       DEF on_ptt_pressed, TypeOK, Drains, manager, atis, dialog
<1>2. CASE on_ptt_released
  <2>1. /\ workers' \in [Slots -> Jobs \cup {NoJob}]
        /\ callbacks' \in Seq(Callbacks) /\ Drains'
    <3>1. CASE UNCHANGED manager
      BY <1>2, <3>1 DEF on_ptt_released, manager, TypeOK, Drains
    <3>2. CASE transcribe_async(callbacks)
      <4>1. Job("stt", atc.val) \in Jobs
        BY JobType DEF TypeOK, JobKinds
      <4>2. /\ workers' \in [Slots -> Jobs \cup {NoJob}]
            /\ callbacks' \in Seq(Callbacks)
            /\ Len(callbacks') >= Len(callbacks)
        BY <1>q, <3>2, <4>1, SubmitType DEF transcribe_async
      <4>3. QED
        BY <1>q, <1>2, <4>2 DEF on_ptt_released, Drains, TypeOK
    <3>3. QED
      BY <1>2, <3>1, <3>2 DEF on_ptt_released
  <2>2. state' \in PTTState
    BY <1>2 DEF on_ptt_released, PTTState, TypeOK
  <2>3. recording' \in BOOLEAN
    BY <1>2, Zenon DEF on_ptt_released, TypeOK
  <2>4. QED
    BY <1>2, <2>1, <2>2, <2>3, Zenon DEF on_ptt_released, TypeOK, atis, dialog
<1>3. ASSUME Between, Spend, dispatch_pilot_transcript("PROCESSING", callbacks),
             UNCHANGED <<world, pc, draining, audio, recording, atis>>
      PROVE  TInv'
  <2>1. ReplyType(callbacks) /\ last_transcript' \in BOOLEAN
    BY <1>q, <1>3, DispatchType DEF PTTState
  <2>2. budget' \in Nat
    BY <1>3 DEF Spend, TypeOK
  <2>3. Drains'
    BY <1>q, <1>3, <2>1 DEF Drains, ReplyType, TypeOK
  <2>4. QED
    BY <1>3, <2>1, <2>2, <2>3, Zenon DEF TypeOK, ReplyType, world, atis
<1>4. CASE submit_text
  BY <1>3, <1>4 DEF submit_text
<1>5. CASE retry_last_transmission
  BY <1>3, <1>5 DEF retry_last_transmission
<1>6. CASE Retune
  <2>1. radio' \in RadioSettings /\ budget' \in Nat
    BY <1>6, SessionAssumption DEF Retune, Spend, TypeOK
  <2>2. QED
    BY <1>6, <2>1, ZenonT(40) DEF Retune, TypeOK, Drains, manager, atis, dialog
<1>7. CASE LoaderRegisters
  <2>1. ready' \in SUBSET Stages
    BY <1>7, SessionAssumption DEF LoaderRegisters
  <2>2. QED
    BY <1>7, <2>1, ZenonT(40)
       DEF LoaderRegisters, TypeOK, Drains, manager, atis, dialog
<1>8. ASSUME ForeignMutation
      PROVE  atc' \in [gen : Nat, val : AtcVals] /\ hist' \in Histories
  BY <1>8 DEF ForeignMutation, Mutated, TypeOK, Histories
<1>9. CASE FreshFlight
  <2>1. atc' \in [gen : Nat, val : AtcVals] /\ hist' \in Histories
    BY <1>8, <1>9, Zenon DEF FreshFlight, TypeOK
  <2>2. budget' \in Nat
    BY <1>9 DEF FreshFlight, Spend, TypeOK
  <2>3. /\ atis_cooldown' \in Nat /\ atis_tuned_timer' \in 0..kAtisTuneDelay
        /\ atis_tts_failures' \in 0..(kMaxTtsTries - 1)
    BY <1>9, Zeros DEF FreshFlight
  <2>4. QED
    BY <1>9, <2>1, <2>2, <2>3, ZenonT(40)
       DEF FreshFlight, TypeOK, Drains, world, manager, dialog
<1>10. CASE Disregard
  <2>1. budget' \in Nat
    BY <1>10 DEF Disregard, Spend, TypeOK
  <2>2. QED
    BY <1>8, <1>10, <2>1, ZenonT(40)
       DEF Disregard, TypeOK, Drains, world, manager, atis, dialog
<1>11. ASSUME state' = "IDLE", req' = [req EXCEPT !.valid = FALSE],
              atis_tts_failures' = 0,
              dialog_tts_failures' = 0, dialog_retry_timer' = 0
       PROVE  /\ state' \in PTTState /\ req' \in Requests
              /\ atis_tts_failures' \in 0..(kMaxTtsTries - 1)
              /\ dialog_tts_failures' \in 0..(kMaxTtsTries - 1)
              /\ dialog_retry_timer' \in 0..kDialogRetryDelay
  BY <1>11, Zeros DEF PTTState, TypeOK, Requests
<1>12. CASE XPluginDisable
  <2>1. ready' \in SUBSET Stages /\ budget' \in Nat
    BY <1>12 DEF XPluginDisable, Spend, TypeOK
  <2>2. QED
    BY <1>11, <1>12, <2>1, Zenon DEF XPluginDisable, TypeOK, Drains, manager
<1>13. CASE XPluginEnable
  <2>1. /\ atis_cooldown' \in Nat /\ atis_tuned_timer' \in 0..kAtisTuneDelay
        /\ atis_active_com' \in {0, 1, 2}
    BY <1>13, Zeros DEF XPluginEnable
  <2>2. QED
    BY <1>11, <1>13, <2>1, Zenon DEF XPluginEnable, TypeOK, Drains, manager
<1>14. QED
  BY <1>1, <1>2, <1>4, <1>5, <1>6, <1>7, <1>9, <1>10, <1>12, <1>13, Zenon
     DEF Events

\* The callback a drain step runs is a callback, and the rest of the queue
\* still holds the ones to be run.
LEMMA PopType ==
    ASSUME TInv, NEW kind \in JobKinds, Pop(kind)
    PROVE  /\ callbacks # <<>> /\ Head(callbacks) \in Callbacks
           /\ Head(callbacks) = callbacks[1] /\ Head(callbacks).kind = kind
           /\ Tail(callbacks) \in Seq(Callbacks)
           /\ Len(Tail(callbacks)) = Len(callbacks) - 1
           /\ draining' \in Nat /\ draining' <= Len(Tail(callbacks))
BY DEF TInv, TypeOK, Drains, Pop

\* Every drained callback keeps the types.
LEMMA CallbackType ==
    ASSUME TInv, SttCallback \/ LmCallback \/ GuardedTtsCallback
                 \/ PlainTtsCallback \/ AtisTtsCallback
    PROVE  TInv'
<1> USE DEF TInv
<1>k. {"stt", "lm", "guarded", "plain", "atis"} \subseteq JobKinds
  BY DEF JobKinds, TtsKinds
<1>t. /\ state \in PTTState /\ "IDLE" \in PTTState
      /\ audio \in Sounds /\ workers \in [Slots -> Jobs \cup {NoJob}]
  BY DEF TypeOK, PTTState
<1>p. ASSUME NEW sound \in Sounds, play(sound)
      PROVE  audio' \in Sounds
  BY <1>p DEF play, Sounds
<1>s. {"dialog", "atis", "squelch"} \subseteq Sounds
  BY DEF Sounds
<1>1. CASE SttCallback
  <2>1. Pop("stt")
    BY <1>1 DEF SttCallback
  <2>2. CASE dispatch_pilot_transcript(state, Tail(callbacks))
    <3>1. ReplyType(Tail(callbacks)) /\ last_transcript' \in BOOLEAN
      BY <1>k, <1>t, <2>1, <2>2, PopType, DispatchType
    <3>2. draining' \in Nat /\ Drains'
      BY <1>k, <2>1, <3>1, PopType DEF Drains, ReplyType, TypeOK
    <3>3. QED
      BY <1>1, <2>1, <3>1, <3>2, Zenon
         DEF SttCallback, Pop, TypeOK, ReplyType, world, atis
  <2>3. CASE /\ state' = "IDLE"
             /\ callbacks' = Tail(callbacks)
             /\ UNCHANGED <<workers, tts_pending, dialog, last_transcript,
                            atc, hist>>
    <3>1. draining' \in Nat /\ Drains' /\ callbacks' \in Seq(Callbacks)
      BY <1>k, <2>1, <2>3, PopType DEF Drains
    <3>2. QED
      BY <1>1, <1>t, <2>1, <2>3, <3>1, Zenon
         DEF SttCallback, Pop, TypeOK, world, atis, dialog
  <2>4. QED
    BY <1>1, <2>2, <2>3 DEF SttCallback
<1>2. CASE LmCallback
  <2>1. Pop("lm") /\ EngineReply(Head(callbacks).snap, FALSE, Tail(callbacks))
    BY <1>2 DEF LmCallback
  <2>2. Head(callbacks).snap \in AtcVals
    BY <1>k, <2>1, PopType DEF Callbacks
  <2>3. ReplyType(Tail(callbacks))
    BY <1>k, <2>1, <2>2, PopType, EngineReplyType
  <2>4. draining' \in Nat /\ Drains'
    BY <1>k, <2>1, <2>3, PopType DEF Drains, ReplyType, TypeOK
  <2>5. QED
    BY <1>2, <2>1, <2>3, <2>4, Zenon
       DEF LmCallback, Pop, TypeOK, ReplyType, world, atis
<1>3. ASSUME NEW kind \in JobKinds, Pop(kind), callbacks' = Tail(callbacks)
      PROVE  draining' \in Nat /\ Drains' /\ callbacks' \in Seq(Callbacks)
  BY <1>3, PopType DEF Drains
<1>4. CASE GuardedTtsCallback
  <2> DEFINE r == Head(callbacks).result
  <2>1. draining' \in Nat /\ Drains' /\ callbacks' \in Seq(Callbacks)
    BY <1>k, <1>3, <1>4 DEF GuardedTtsCallback
  <2>2. ASSUME NEW b \in BOOLEAN, GuardedGiveUp(b)
        PROVE  /\ atc' \in [gen : Nat, val : AtcVals] /\ hist' \in Histories
               /\ notice' \in Notices /\ req' \in Requests
               /\ audio' \in Sounds /\ state' \in PTTState
               /\ dialog_tts_failures' \in 0..(kMaxTtsTries - 1)
               /\ dialog_retry_timer' \in 0..kDialogRetryDelay
               /\ tts_network_error' \in BOOLEAN /\ tts_blocked' \in BOOLEAN
    <3>1. /\ atc' \in [gen : Nat, val : AtcVals] /\ hist' \in Histories
          /\ notice' \in Notices /\ req' \in Requests
      <4>1. req' \in Requests
        BY <2>2 DEF GuardedGiveUp, TypeOK, Requests
      <4>2. notice' \in Notices
        BY <2>2 DEF GuardedGiveUp, restore_snapshot_if_gen, Notices
      <4>3. CASE atc.gen = req.expected_gen
        <5>1. /\ atc' = [gen |-> atc.gen + 1, val |-> req.pre_snap]
              /\ hist' = [hist EXCEPT !.intervened = TRUE]
          BY <2>2, <4>3 DEF GuardedGiveUp, restore_snapshot_if_gen, Mutated
        <5>2. atc' \in [gen : Nat, val : AtcVals]
          BY <5>1 DEF TypeOK, Requests
        <5>3. hist' \in Histories
          BY <5>1 DEF TypeOK, Histories
        <5>4. QED
          BY <4>1, <4>2, <5>2, <5>3
      <4>4. CASE atc.gen # req.expected_gen
        BY <2>2, <4>1, <4>2, <4>4
           DEF GuardedGiveUp, restore_snapshot_if_gen, TypeOK
      <4>5. QED
        BY <4>3, <4>4
    <3>2. audio' \in Sounds /\ state' \in PTTState
      BY <1>p, <1>s, <1>t, <2>2 DEF GuardedGiveUp
    <3>3. /\ dialog_tts_failures' \in 0..(kMaxTtsTries - 1)
          /\ dialog_retry_timer' \in 0..kDialogRetryDelay
      BY <2>2, Zeros DEF GuardedGiveUp
    <3>4. tts_network_error' \in BOOLEAN /\ tts_blocked' \in BOOLEAN
      BY <2>2, Zenon DEF GuardedGiveUp, TypeOK
    <3>5. QED
      BY <3>1, <3>2, <3>3, <3>4
  <2>3. CASE GuardedGiveUp(TRUE) \/ GuardedGiveUp(FALSE)
    BY <1>4, <2>1, <2>2, <2>3, Zenon
       DEF GuardedTtsCallback, GuardedCallback, Pop, TypeOK, world, atis
  <2>4. CASE /\ r = "ok"
             /\ play("dialog")
             /\ dialog_tts_failures' = 0
             /\ tts_network_error' = FALSE /\ tts_blocked' = FALSE
             /\ req' = [req EXCEPT !.valid = FALSE]
             /\ UNCHANGED <<state, dialog_retry_timer, notice, atc, hist>>
    <3>1. req' \in Requests
      BY <2>4 DEF TypeOK, Requests
    <3>2. audio' \in Sounds
      BY <1>p, <1>s, <2>4
    <3>3. dialog_tts_failures' \in 0..(kMaxTtsTries - 1)
      BY <2>4, Zeros
    <3>4. QED
      BY <1>4, <2>1, <2>4, <3>1, <3>2, <3>3, Zenon
         DEF GuardedTtsCallback, GuardedCallback, Pop, TypeOK, world, atis
  <2>5. CASE /\ TriesLeft
             /\ dialog_tts_failures' = dialog_tts_failures + 1
             /\ dialog_retry_timer' = kDialogRetryDelay
             /\ UNCHANGED <<audio, state, tts_network_error, tts_blocked, req,
                            notice, atc, hist>>
    <3>1. /\ dialog_tts_failures' \in 0..(kMaxTtsTries - 1)
          /\ dialog_retry_timer' \in 0..kDialogRetryDelay
      BY <2>5, Zeros DEF TriesLeft, TypeOK
    <3>2. QED
      BY <1>4, <2>1, <2>5, <3>1, Zenon
         DEF GuardedTtsCallback, GuardedCallback, Pop, TypeOK, world, atis
  <2>6. QED
    BY <1>4, <2>3, <2>4, <2>5, Zenon DEF GuardedTtsCallback, GuardedCallback
<1>5. CASE PlainTtsCallback
  <2>1. draining' \in Nat /\ Drains' /\ callbacks' \in Seq(Callbacks)
    BY <1>k, <1>3, <1>5 DEF PlainTtsCallback
  <2>2. audio' \in Sounds /\ state' \in PTTState
    BY <1>p, <1>s, <1>t, <1>5 DEF PlainTtsCallback, PlainCallback
  <2>3. QED
    BY <1>5, <2>1, <2>2, Zenon
       DEF PlainTtsCallback, PlainCallback, Pop, TypeOK, world, atis, dialog
<1>6. CASE AtisTtsCallback
  <2>1. draining' \in Nat /\ Drains' /\ callbacks' \in Seq(Callbacks)
    BY <1>k, <1>3, <1>6 DEF AtisTtsCallback
  <2>2. audio' \in Sounds /\ state' \in PTTState
    BY <1>p, <1>s, <1>t, <1>6 DEF AtisTtsCallback, AtisCallback
  <2>3. /\ atis_tts_failures' \in 0..(kMaxTtsTries - 1)
        /\ atis_cooldown' \in Nat
    BY <1>6, Zeros DEF AtisTtsCallback, AtisCallback, TypeOK
  <2>4. QED
    BY <1>6, <2>1, <2>2, <2>3, Zenon
       DEF AtisTtsCallback, AtisCallback, Pop, TypeOK, world, dialog
<1>7. QED
  BY <1>1, <1>2, <1>4, <1>5, <1>6

\* Every section of update() keeps the types.
LEMMA UpdateType ==
    ASSUME TInv, BeginFrame \/ FinishPlayback \/ DialogRetry \/ AutoCorrect
                 \/ PollTraffic \/ AtisAbort \/ AtisTrigger
    PROVE  TInv'
<1> USE DEF TInv
<1>t. /\ callbacks \in Seq(Callbacks) /\ "IDLE" \in PTTState
      /\ "PLAYING" \in PTTState /\ state \in PTTState
      /\ {"drain", "retry", "correct", "poll", "abort", "atis", "events"}
           \subseteq ({"events", "drain"} \cup UpdateSteps)
  BY DEF TypeOK, PTTState, UpdateSteps
<1>f. ASSUME ForeignMutation
      PROVE  atc' \in [gen : Nat, val : AtcVals] /\ hist' \in Histories
  BY <1>f DEF ForeignMutation, Mutated, TypeOK, Histories
<1>y. ASSUME NEW kind \in TtsKinds, synthesize_async(kind, callbacks),
             UNCHANGED draining
      PROVE  /\ workers' \in [Slots -> Jobs \cup {NoJob}]
             /\ callbacks' \in Seq(Callbacks) /\ Drains'
  <2>1. Job(kind, atc.val) \in Jobs
    BY JobType DEF TypeOK, JobKinds
  <2>2. /\ workers' \in [Slots -> Jobs \cup {NoJob}]
        /\ callbacks' \in Seq(Callbacks) /\ Len(callbacks') >= Len(callbacks)
    BY <1>t, <1>y, <2>1, SubmitType DEF synthesize_async
  <2>3. QED
    BY <1>t, <1>y, <2>2 DEF Drains, TypeOK
<1>u. ASSUME UNCHANGED <<draining, manager>>
      PROVE  /\ workers' \in [Slots -> Jobs \cup {NoJob}]
             /\ callbacks' \in Seq(Callbacks) /\ Drains'
  BY <1>u DEF TypeOK, Drains, manager
<1>k. {"guarded", "plain", "atis"} \subseteq TtsKinds
  BY DEF TtsKinds
<1>1. CASE BeginFrame
  <2>1. atc' \in [gen : Nat, val : AtcVals] /\ hist' \in Histories
    BY <1>f, <1>1, Zenon DEF BeginFrame, TypeOK
  <2>2. budget' \in Nat
    BY <1>1 DEF BeginFrame, Spend, TypeOK
  <2>3. draining' \in Nat /\ Drains'
    BY <1>t, <1>1 DEF BeginFrame, Drains, manager
  <2>4. QED
    BY <1>t, <1>1, <2>1, <2>2, <2>3, Zenon
       DEF BeginFrame, TypeOK, world, manager, atis, dialog
<1>2. CASE FinishPlayback
  <2>1. state' \in PTTState /\ atis_playing' \in BOOLEAN
    BY <1>t, <1>2, Zenon DEF FinishPlayback, TypeOK
  <2>2. atis_cooldown' \in Nat
    BY <1>2 DEF FinishPlayback, TypeOK
  <2>3. QED
    BY <1>t, <1>2, <2>1, <2>2, Zenon
       DEF FinishPlayback, TypeOK, Drains, world, manager, dialog
<1>3. CASE DialogRetry
  <2>1. dialog_retry_timer' \in 0..kDialogRetryDelay
    BY <1>3, Zeros DEF DialogRetry, TypeOK
  <2>2. /\ workers' \in [Slots -> Jobs \cup {NoJob}]
        /\ callbacks' \in Seq(Callbacks) /\ Drains'
        /\ state' \in PTTState /\ tts_pending' \in BOOLEAN
    <3>1. CASE dispatch_guarded_tts(callbacks)
      BY <1>t, <1>k, <1>y, <1>3, <3>1 DEF DialogRetry, dispatch_guarded_tts
    <3>2. CASE UNCHANGED <<state, tts_pending, manager>>
      BY <1>u, <1>3, <3>2, Zenon DEF DialogRetry, TypeOK
    <3>3. QED
      BY <1>3, <3>1, <3>2 DEF DialogRetry
  <2>3. QED
    BY <1>t, <1>3, <2>1, <2>2, Zenon DEF DialogRetry, TypeOK, world, atis
<1>4. CASE AutoCorrect
  <2>1. atc' \in [gen : Nat, val : AtcVals] /\ hist' \in Histories
    BY <1>f, <1>4, Zenon DEF AutoCorrect, TypeOK
  <2>2. budget' \in Nat
    BY <1>4 DEF AutoCorrect, Spend, TypeOK
  <2>3. QED
    BY <1>t, <1>4, <2>1, <2>2, Zenon
       DEF AutoCorrect, TypeOK, Drains, world, manager, atis, dialog
<1>5. CASE PollTraffic
  <2>1. budget' \in Nat
    BY <1>5 DEF PollTraffic, Spend, TypeOK
  <2>2. /\ workers' \in [Slots -> Jobs \cup {NoJob}]
        /\ callbacks' \in Seq(Callbacks) /\ Drains'
        /\ state' \in PTTState /\ tts_pending' \in BOOLEAN
    <3>1. CASE /\ state' = "PLAYING" /\ tts_pending' = TRUE
               /\ synthesize_async("plain", callbacks)
      BY <1>t, <1>k, <1>y, <1>5, <3>1 DEF PollTraffic
    <3>2. CASE UNCHANGED <<state, tts_pending, manager>>
      BY <1>u, <1>5, <3>2, Zenon DEF PollTraffic, TypeOK
    <3>3. QED
      BY <1>5, <3>1, <3>2 DEF PollTraffic
  <2>3. QED
    BY <1>t, <1>5, <2>1, <2>2, Zenon DEF PollTraffic, TypeOK, world, atis, dialog
<1>6. CASE AtisAbort
  <2>1. /\ atis_tuned_timer' \in 0..kAtisTuneDelay
        /\ atis_tts_failures' \in 0..(kMaxTtsTries - 1)
    BY <1>6, Zeros DEF AtisAbort, TypeOK
  <2>2. /\ audio' \in Sounds /\ state' \in PTTState
        /\ atis_playing' \in BOOLEAN
    BY <1>t, <1>6 DEF AtisAbort, AbortBroadcast, TypeOK, Sounds
  <2>3. QED
    BY <1>t, <1>6, <2>1, <2>2, Zenon
       DEF AtisAbort, AbortBroadcast, TypeOK, Drains, world, manager, dialog
<1>7. CASE AtisTrigger
  <2>1. atis_com(radio) \in {0, 1, 2}
    BY DEF atis_com, which_com_tuned_to_atis, TypeOK, RadioSettings
  <2>2. /\ workers' \in [Slots -> Jobs \cup {NoJob}]
        /\ callbacks' \in Seq(Callbacks) /\ Drains'
    BY <1>k, <1>u, <1>y, <1>7 DEF AtisTrigger
  <2>3. atis_active_com' \in {0, 1, 2} /\ atis_cooldown' \in Nat
    BY <1>7, <2>1, Zeros DEF AtisTrigger, TypeOK
  <2>4. /\ state' \in PTTState /\ tts_pending' \in BOOLEAN
        /\ atis_playing' \in BOOLEAN
    BY <1>t, <1>7, Zenon DEF AtisTrigger, TypeOK
  <2>5. QED
    BY <1>t, <1>7, <2>2, <2>3, <2>4, Zenon
       DEF AtisTrigger, TypeOK, world, dialog
<1>8. QED
  BY <1>1, <1>2, <1>3, <1>4, <1>5, <1>6, <1>7

\* The worker threads and the FMOD callback keep the types.
LEMMA ThreadsType ==
    ASSUME TInv, PlaybackDone \/ \E s \in Slots : WorkerDone(s)
    PROVE  TInv'
<1> USE DEF TInv
<1>1. ASSUME NEW s \in Slots, WorkerDone(s)
      PROVE  TInv'
  <2>1. PICK r \in Results :
          callbacks' = Append(callbacks, [kind |-> workers[s].kind,
                                          snap |-> workers[s].snap,
                                          result |-> r])
    BY <1>1 DEF WorkerDone
  <2>2. workers[s] \in Jobs
    BY <1>1 DEF WorkerDone, TypeOK
  <2>3. [kind |-> workers[s].kind, snap |-> workers[s].snap, result |-> r]
          \in Callbacks
    BY <2>2 DEF Jobs, Callbacks
  <2>4. callbacks' \in Seq(Callbacks) /\ Drains'
    BY <1>1, <2>1, <2>3 DEF WorkerDone, TypeOK, Drains
  <2>5. workers' \in [Slots -> Jobs \cup {NoJob}]
    BY <1>1 DEF WorkerDone, TypeOK
  <2>6. QED
    BY <1>1, <2>4, <2>5, ZenonT(40) DEF WorkerDone, TypeOK, world, atis, dialog
<1>2. CASE PlaybackDone
  <2>1. audio' \in Sounds
    BY <1>2 DEF PlaybackDone, Sounds
  <2>2. QED
    BY <1>2, <2>1, Zenon
       DEF PlaybackDone, TypeOK, Drains, world, manager, atis, dialog
<1>3. QED
  BY <1>1, <1>2

\* TInv is an inductive invariant of the session.
LEMMA TInvariant == Spec => []TInv
<1>1. Init => TInv
  <2> SUFFICES ASSUME Init PROVE TInv
    OBVIOUS
  <2>1. /\ radio \in RadioSettings /\ ready \in SUBSET Stages
        /\ budget \in Nat
    BY SessionAssumption DEF Init
  <2>2. /\ pc \in {"events", "drain"} \cup UpdateSteps
        /\ audio \in Sounds /\ state \in PTTState /\ notice \in Notices
    BY DEF Init, UpdateSteps, Sounds, PTTState, Notices
  <2>3. draining \in Nat /\ callbacks \in Seq(Callbacks) /\ Drains
    BY DEF Init, Drains
  <2>4. workers \in [Slots -> Jobs \cup {NoJob}]
    BY DEF Init
  <2>5. /\ atc \in [gen : Nat, val : AtcVals]
        /\ req \in Requests /\ hist \in Histories
    BY DEF Init, Requests, Histories
  <2>6. /\ atis_cooldown \in Nat /\ atis_tuned_timer \in 0..kAtisTuneDelay
        /\ atis_active_com \in {0, 1, 2}
        /\ atis_tts_failures \in 0..(kMaxTtsTries - 1)
        /\ dialog_tts_failures \in 0..(kMaxTtsTries - 1)
        /\ dialog_retry_timer \in 0..kDialogRetryDelay
    BY Zeros DEF Init
  <2>7. QED
    BY <2>1, <2>2, <2>3, <2>4, <2>5, <2>6, Zenon DEF Init, TInv, TypeOK
<1>2. TInv /\ [Next]_vars => TInv'
  <2>1. TInv /\ UNCHANGED vars => TInv'
    BY Zenon DEF TInv, TypeOK, Drains, vars
  <2>2. TInv /\ Next => TInv'
    BY EventsType, CallbackType, UpdateType, ThreadsType, Zenon DEF Next, Frame
  <2>3. QED
    BY <2>1, <2>2
<1>3. QED
  BY <1>1, <1>2, PTL DEF Spec

\* The variables of the session always have their types: no counter leaves its
\* range, no timer becomes negative, the queue holds only callbacks, and a drain
\* never runs a callback that is not there (atc_session.cpp, manager.cpp).
THEOREM TypeCorrect == Spec => []TypeOK
<1>1. TInv => TypeOK
  BY DEF TInv
<1>2. QED
  BY <1>1, TInvariant, PTL

-----------------------------------------------------------------------------
(* The session never waits for a callback nobody will deliver.             *)

\* A job of a kind in K is at a worker of w or waits in the queue q.
Out(K, w, q) ==
    \/ \E s \in Slots : w[s] # NoJob /\ w[s].kind \in K
    \/ \E i \in 1..Len(q) : q[i].kind \in K

\* Out is Outstanding, of this state and of the next.
LEMMA OutstandingIsOut ==
    ASSUME NEW K
    PROVE  /\ Outstanding(K) <=> Out(K, workers, callbacks)
           /\ Outstanding(K)' <=> Out(K, workers', callbacks')
BY DEF Outstanding, Out

\* A submitted job is outstanding, and so is what was outstanding before.
LEMMA SubmitOut ==
    ASSUME TypeOK, NEW K, NEW stage, NEW job \in Jobs, NEW q \in Seq(Callbacks),
           Submit(stage, job, q)
    PROVE  /\ job.kind \in K => Out(K, workers', callbacks')
           /\ Out(K, workers, q) => Out(K, workers', callbacks')
<1>1. CASE spawn_worker(job, q)
  <2>1. PICK s \in Slots : /\ workers[s] = NoJob
                           /\ workers' = [workers EXCEPT ![s] = job]
                           /\ callbacks' = q
    BY <1>1 DEF spawn_worker
  <2>2. workers'[s] = job /\ \A t \in Slots \ {s} : workers'[t] = workers[t]
    BY <2>1 DEF TypeOK
  <2>3. job # NoJob
    BY SessionAssumption
  <2>4. QED
    BY <2>1, <2>2, <2>3 DEF Out
<1>2. CASE callbacks' = Append(q, FailedCallback(job)) /\ UNCHANGED workers
  <2>1. /\ Len(callbacks') = Len(q) + 1 /\ Len(q) \in Nat
        /\ callbacks'[Len(q) + 1] = FailedCallback(job)
        /\ \A i \in 1..Len(q) : callbacks'[i] = q[i]
    BY <1>2
  <2>2. FailedCallback(job).kind = job.kind
    BY DEF FailedCallback
  <2>3. job.kind \in K => Out(K, workers', callbacks')
    BY <2>1, <2>2 DEF Out
  <2>4. Out(K, workers, q) => Out(K, workers', callbacks')
    BY <1>2, <2>1 DEF Out
  <2>5. QED
    BY <2>3, <2>4
<1>3. QED
  BY <1>1, <1>2 DEF Submit

\* Running the callback at the head takes away nothing of another kind.
LEMMA TailOut ==
    ASSUME NEW K, NEW w, NEW q \in Seq(Callbacks), q # <<>>,
           Head(q).kind \notin K, Out(K, w, q)
    PROVE  Out(K, w, Tail(q))
<1>1. CASE \E s \in Slots : w[s] # NoJob /\ w[s].kind \in K
  BY <1>1 DEF Out
<1>2. ASSUME NEW i \in 1..Len(q), q[i].kind \in K
      PROVE  Out(K, w, Tail(q))
  <2>1. i # 1 /\ Len(q) \in Nat
    BY <1>2
  <2>2. i - 1 \in 1..Len(Tail(q)) /\ Tail(q)[i - 1] = q[i]
    BY <2>1
  <2>3. QED
    BY <1>2, <2>2 DEF Out
<1>3. QED
  BY <1>1, <1>2 DEF Out

\* The reply path leaves the session waiting only for what it submitted.
LEMMA GuardedWaits ==
    ASSUME TypeOK, NEW q \in Seq(Callbacks), dispatch_guarded_tts(q)
    PROVE  NeverWedged'
<1>1. Job("guarded", atc.val) \in Jobs
  BY JobType DEF TypeOK, JobKinds, TtsKinds
<1>2. Job("guarded", atc.val).kind \in TtsKinds
  BY DEF Job, TtsKinds
<1>3. Out(TtsKinds, workers', callbacks')
  BY <1>1, <1>2, SubmitOut DEF dispatch_guarded_tts, synthesize_async
<1>4. state' # "PROCESSING"
  BY DEF dispatch_guarded_tts
<1>5. QED
  BY <1>3, <1>4, OutstandingIsOut DEF NeverWedged

\* So does the engine's done callback.
LEMMA EngineWaits ==
    ASSUME TypeOK, NEW snap \in AtcVals, NEW cleared \in BOOLEAN,
           NEW q \in Seq(Callbacks),
           tts_pending => Out(TtsKinds, workers, q),
           EngineReply(snap, cleared, q)
    PROVE  NeverWedged'
<1>1. CASE \E after \in Processed : EngineSilent(after, cleared, q)
  <2>1. /\ state' = "IDLE" /\ callbacks' = q /\ workers' = workers
        /\ tts_pending' = tts_pending
    BY <1>1 DEF EngineSilent
  <2>2. tts_pending' => Out(TtsKinds, workers', callbacks')
    BY <2>1
  <2>3. QED
    BY <2>1, <2>2, OutstandingIsOut DEF NeverWedged
<1>2. CASE dispatch_guarded_tts(q)
  BY <1>2, GuardedWaits
<1>3. QED
  BY <1>1, <1>2 DEF EngineReply, speak_response_guarded

\* So does dispatch_pilot_transcript.
LEMMA DispatchWaits ==
    ASSUME TypeOK, NEW s \in PTTState, NEW q \in Seq(Callbacks),
           tts_pending => Out(TtsKinds, workers, q),
           dispatch_pilot_transcript(s, q)
    PROVE  NeverWedged'
<1>1. atc.val \in AtcVals
  BY DEF TypeOK
<1>2. CASE EngineReply(atc.val, TRUE, q)
  BY <1>1, <1>2, EngineWaits
<1>3. CASE AskLm(s, q)
  <2>1. Job("lm", atc.val) \in Jobs /\ Job("lm", atc.val).kind = "lm"
    BY <1>1, JobType DEF JobKinds, Job
  <2>2. Submit("lm", Job("lm", atc.val), q)
    BY <1>3 DEF AskLm, Submit
  <2>3. Out({"stt", "lm"}, workers', callbacks')
    BY <2>1, <2>2, SubmitOut
  <2>4. Out(TtsKinds, workers, q) => Out(TtsKinds, workers', callbacks')
    BY <2>1, <2>2, SubmitOut
  <2>5. tts_pending' => Out(TtsKinds, workers', callbacks')
    BY <1>3, <2>4 DEF AskLm
  <2>6. QED
    BY <2>3, <2>5, OutstandingIsOut DEF NeverWedged
<1>4. QED
  BY <1>2, <1>3 DEF dispatch_pilot_transcript

\* Every step of the session keeps NeverWedged.
LEMMA WaitsStep == ASSUME TInv, NeverWedged, Next PROVE NeverWedged'
<1> USE DEF TInv
<1>q. callbacks \in Seq(Callbacks) /\ atc.val \in AtcVals
  BY DEF TypeOK
<1>w. /\ state = "PROCESSING" => Out({"stt", "lm"}, workers, callbacks)
      /\ tts_pending => Out(TtsKinds, workers, callbacks)
  BY OutstandingIsOut DEF NeverWedged
<1>n. ASSUME state' = "PROCESSING" => Out({"stt", "lm"}, workers', callbacks'),
             tts_pending' => Out(TtsKinds, workers', callbacks')
      PROVE  NeverWedged'
  BY <1>n, OutstandingIsOut DEF NeverWedged
<1>j. ASSUME NEW kind \in JobKinds
      PROVE  Job(kind, atc.val) \in Jobs /\ Job(kind, atc.val).kind = kind
  BY <1>q, <1>j, JobType DEF Job
<1>u. ASSUME UNCHANGED manager, tts_pending' => tts_pending,
             state' = "PROCESSING" => state = "PROCESSING"
      PROVE  NeverWedged'
  <2>1. workers' = workers /\ callbacks' = callbacks
    BY <1>u DEF manager
  <2>2. state' = "PROCESSING" => Out({"stt", "lm"}, workers', callbacks')
    BY <1>u, <1>w, <2>1
  <2>3. tts_pending' => Out(TtsKinds, workers', callbacks')
    BY <1>u, <1>w, <2>1
  <2>4. QED
    BY <1>n, <2>2, <2>3
<1>y. ASSUME NEW kind \in TtsKinds, synthesize_async(kind, callbacks),
             state' = "PLAYING"
      PROVE  NeverWedged'
  <2>1. kind \in JobKinds
    BY DEF JobKinds
  <2>2. Out(TtsKinds, workers', callbacks')
    BY <1>q, <1>y, <1>j, <2>1, SubmitOut DEF synthesize_async
  <2>3. QED
    BY <1>n, <1>y, <2>2
<1>k. /\ {"guarded", "plain", "atis"} = TtsKinds
      /\ JobKinds = {"stt", "lm", "guarded", "plain", "atis"}
  BY DEF TtsKinds, JobKinds
<1>1. CASE Events
  <2>1. CASE on_ptt_released
    <3>1. CASE transcribe_async(callbacks)
      <4>1. Out({"stt", "lm"}, workers', callbacks')
        BY <1>q, <1>k, <1>j, <3>1, SubmitOut DEF transcribe_async
      <4>2. Out(TtsKinds, workers, callbacks)
              => Out(TtsKinds, workers', callbacks')
        BY <1>q, <1>k, <1>j, <3>1, SubmitOut DEF transcribe_async
      <4>3. QED
        BY <1>n, <1>w, <2>1, <4>1, <4>2 DEF on_ptt_released
    <3>2. CASE UNCHANGED manager /\ state' \in {state, "IDLE"}
      BY <1>u, <2>1, <3>2 DEF on_ptt_released
    <3>3. QED
      BY <2>1, <3>1, <3>2 DEF on_ptt_released
  <2>2. CASE submit_text \/ retry_last_transmission
    BY <1>q, <1>w, <2>2, DispatchWaits
       DEF submit_text, retry_last_transmission, PTTState
  <2>3. CASE on_ptt_pressed
    BY <1>u, <2>3 DEF on_ptt_pressed
  <2>4. CASE Retune \/ LoaderRegisters
    BY <1>u, <2>4 DEF Retune, LoaderRegisters
  <2>5. CASE FreshFlight \/ Disregard
    BY <1>u, <2>5 DEF FreshFlight, Disregard
  <2>6. CASE XPluginDisable \/ XPluginEnable
    BY <1>u, <2>6 DEF XPluginDisable, XPluginEnable
  <2>7. QED
    BY <1>1, <2>1, <2>2, <2>3, <2>4, <2>5, <2>6 DEF Events
<1>2. ASSUME NEW kind \in JobKinds, Pop(kind)
      PROVE  /\ callbacks # <<>> /\ Tail(callbacks) \in Seq(Callbacks)
             /\ Head(callbacks) \in Callbacks
             /\ kind \notin TtsKinds =>
                  (tts_pending => Out(TtsKinds, workers, Tail(callbacks)))
             /\ kind \in TtsKinds =>
                  (state = "PROCESSING" =>
                     Out({"stt", "lm"}, workers, Tail(callbacks)))
  <2>1. /\ callbacks # <<>> /\ Head(callbacks).kind = kind
        /\ Tail(callbacks) \in Seq(Callbacks) /\ Head(callbacks) \in Callbacks
    BY <1>2, PopType
  <2>2. kind \notin TtsKinds /\ Out(TtsKinds, workers, callbacks)
          => Out(TtsKinds, workers, Tail(callbacks))
    BY <1>q, <2>1, TailOut
  <2>3. kind \in TtsKinds /\ Out({"stt", "lm"}, workers, callbacks)
          => Out({"stt", "lm"}, workers, Tail(callbacks))
    BY <1>q, <1>k, <2>1, TailOut
  <2>4. QED
    BY <1>w, <2>1, <2>2, <2>3
<1>3. CASE SttCallback
  <2>1. /\ Pop("stt") /\ "stt" \in JobKinds /\ "stt" \notin TtsKinds
        /\ state \in PTTState
    BY <1>k, <1>3 DEF SttCallback, TypeOK
  <2>2. CASE dispatch_pilot_transcript(state, Tail(callbacks))
    BY <1>2, <2>1, <2>2, DispatchWaits
  <2>3. CASE /\ state' = "IDLE" /\ callbacks' = Tail(callbacks)
             /\ UNCHANGED <<workers, tts_pending>>
    BY <1>2, <1>n, <2>1, <2>3
  <2>4. QED
    BY <1>3, <2>2, <2>3 DEF SttCallback
<1>4. CASE LmCallback
  <2>1. /\ Pop("lm") /\ "lm" \in JobKinds /\ "lm" \notin TtsKinds
        /\ EngineReply(Head(callbacks).snap, FALSE, Tail(callbacks))
    BY <1>k, <1>4 DEF LmCallback
  <2>2. Head(callbacks).snap \in AtcVals
    BY <1>2, <2>1 DEF Callbacks
  <2>3. QED
    BY <1>2, <2>1, <2>2, EngineWaits
<1>5. ASSUME NEW kind \in TtsKinds, Pop(kind), callbacks' = Tail(callbacks),
             workers' = workers, tts_pending' = FALSE,
             state' = state \/ state' = "IDLE"
      PROVE  NeverWedged'
  <2>1. kind \in JobKinds
    BY DEF JobKinds
  <2>2. QED
    BY <1>2, <1>5, <1>n, <2>1
<1>6. CASE GuardedTtsCallback
  BY <1>k, <1>5, <1>6
     DEF GuardedTtsCallback, GuardedCallback, GuardedGiveUp
<1>7. CASE PlainTtsCallback \/ AtisTtsCallback
  BY <1>k, <1>5, <1>7
     DEF PlainTtsCallback, PlainCallback, AtisTtsCallback, AtisCallback
<1>8. CASE BeginFrame \/ FinishPlayback \/ AutoCorrect \/ AtisAbort
           \/ PlaybackDone
  BY <1>u, <1>8
     DEF BeginFrame, FinishPlayback, AutoCorrect, AtisAbort, AbortBroadcast,
         PlaybackDone
<1>9. CASE DialogRetry
  BY <1>q, <1>u, <1>9, GuardedWaits DEF DialogRetry
<1>10. CASE PollTraffic
  BY <1>k, <1>u, <1>y, <1>10 DEF PollTraffic
<1>11. CASE AtisTrigger
  BY <1>k, <1>u, <1>y, <1>11 DEF AtisTrigger
<1>12. ASSUME NEW s \in Slots, WorkerDone(s)
       PROVE  NeverWedged'
  <2>1. PICK r \in Results :
          callbacks' = Append(callbacks, [kind |-> workers[s].kind,
                                          snap |-> workers[s].snap,
                                          result |-> r])
    BY <1>12 DEF WorkerDone
  <2>2. /\ Len(callbacks') = Len(callbacks) + 1 /\ Len(callbacks) \in Nat
        /\ callbacks'[Len(callbacks) + 1].kind = workers[s].kind
        /\ \A i \in 1..Len(callbacks) : callbacks'[i] = callbacks[i]
    BY <1>q, <2>1
  <2>3. \A t \in Slots \ {s} : workers'[t] = workers[t]
    BY <1>12 DEF WorkerDone, TypeOK
  <2>4. ASSUME NEW K, Out(K, workers, callbacks)
        PROVE  Out(K, workers', callbacks')
    <3>1. CASE \E t \in Slots : workers[t] # NoJob /\ workers[t].kind \in K
      BY <2>2, <2>3, <3>1 DEF Out
    <3>2. CASE \E i \in 1..Len(callbacks) : callbacks[i].kind \in K
      BY <2>2, <3>2 DEF Out
    <3>3. QED
      BY <2>4, <3>1, <3>2 DEF Out
  <2>5. state' = state /\ tts_pending' = tts_pending
    BY <1>12 DEF WorkerDone
  <2>6. QED
    BY <1>n, <1>w, <2>4, <2>5
<1>13. QED
  BY <1>1, <1>3, <1>4, <1>6, <1>7, <1>8, <1>9, <1>10, <1>11, <1>12
     DEF Next, Frame

\* No lost wake-up, in every behaviour, plugin toggles and retunes in flight
\* included: a session that is PROCESSING has an STT or LM job outstanding, one
\* with tts_pending_ set has a TTS job outstanding (atc_session.cpp).
THEOREM NoLostWakeup == Spec => []NeverWedged
<1>1. Init => NeverWedged
  BY DEF Init, NeverWedged
<1>2. TInv /\ NeverWedged /\ [Next]_vars => NeverWedged'
  <2>1. TInv /\ NeverWedged /\ Next => NeverWedged'
    BY WaitsStep
  <2>2. NeverWedged /\ UNCHANGED vars => NeverWedged'
    BY DEF NeverWedged, Outstanding, vars
  <2>3. QED
    BY <2>1, <2>2
<1>3. QED
  BY <1>1, <1>2, TInvariant, PTL DEF Spec

-----------------------------------------------------------------------------
(* The revert guard rolls back exactly when it may.                        *)

\* The generation a request remembers tells whether anybody mutated the state
\* machine since its reply was produced.
GenTells ==
    req.valid => /\ req.expected_gen <= atc.gen
                 /\ hist.intervened <=> atc.gen # req.expected_gen

\* Every step keeps GenTells: whoever mutates g_state bumps gen.
LEMMA GenStep == ASSUME TInv, GenTells, Next PROVE GenTells'
<1> USE DEF TInv
<1>t. /\ atc.gen \in Nat /\ req.expected_gen \in Nat
      /\ req.valid \in BOOLEAN /\ hist.intervened \in BOOLEAN
      /\ hist \in Histories /\ atc = [gen |-> atc.gen, val |-> atc.val]
  BY DEF TypeOK, Requests, Histories
<1>u. ASSUME UNCHANGED <<req, atc, hist>>
      PROVE  GenTells'
  BY <1>u DEF GenTells
<1>x. ASSUME req'.valid = FALSE
      PROVE  GenTells'
  BY <1>x DEF GenTells
<1>v. ASSUME req' = [req EXCEPT !.valid = FALSE]
      PROVE  GenTells'
  BY <1>v, <1>x DEF TypeOK, Requests
<1>f. ASSUME ForeignMutation, UNCHANGED req
      PROVE  GenTells'
  <2>1. atc'.gen = atc.gen + 1 /\ hist'.intervened = TRUE
    BY <1>f DEF ForeignMutation, Mutated
  <2>2. QED
    BY <1>f, <1>t, <2>1 DEF GenTells
<1>m. ASSUME NEW after \in Processed, atc' = after, UNCHANGED req,
             hist'.intervened = (hist.intervened \/ after # atc)
      PROVE  GenTells'
  <2>1. CASE after = atc
    BY <1>t, <1>m, <2>1 DEF GenTells
  <2>2. CASE \E v \in AtcVals : after = [gen |-> atc.gen + 1, val |-> v]
    <3>1. atc'.gen = atc.gen + 1 /\ after # atc
      BY <1>m, <1>t, <2>2
    <3>2. hist'.intervened = TRUE
      BY <1>m, <3>1
    <3>3. QED
      BY <1>t, <1>m, <3>1, <3>2 DEF GenTells
  <2>3. QED
    BY <1>m, <2>1, <2>2 DEF Processed, Mutated
<1>e. ASSUME NEW snap, NEW cleared \in BOOLEAN, NEW q,
             EngineReply(snap, cleared, q)
      PROVE  GenTells'
  <2>1. PICK after \in Processed :
          /\ atc' = after
          /\ \/ EngineSilent(after, cleared, q)
             \/ speak_response_guarded(after, snap, cleared, q)
    BY <1>e DEF EngineReply
  <2>2. CASE EngineSilent(after, cleared, q)
    <3>1. UNCHANGED req /\ hist'.intervened = (hist.intervened \/ after # atc)
      BY <1>t, <2>2 DEF EngineSilent, Histories
    <3>2. QED
      BY <1>m, <2>1, <3>1
  <2>3. CASE speak_response_guarded(after, snap, cleared, q)
    <3>1. /\ req'.expected_gen = atc'.gen /\ hist'.intervened = FALSE
      BY <2>1, <2>3 DEF speak_response_guarded
    <3>2. atc'.gen \in Nat
      BY <1>t, <2>1 DEF Processed, Mutated
    <3>3. QED
      BY <3>1, <3>2 DEF GenTells
  <2>4. QED
    BY <2>1, <2>2, <2>3
<1>d. ASSUME NEW s, NEW q, dispatch_pilot_transcript(s, q)
      PROVE  GenTells'
  <2>1. CASE EngineReply(atc.val, TRUE, q)
    BY <1>e, <2>1
  <2>2. CASE AskLm(s, q)
    <3>1. PICK after \in Processed :
            /\ atc' = after
            /\ hist' = [foreign |-> FALSE,
                        intervened |-> hist.intervened \/ after # atc]
      BY <2>2 DEF AskLm
    <3>2. QED
      BY <1>m, <2>2, <3>1 DEF AskLm
  <2>3. QED
    BY <1>d, <2>1, <2>2 DEF dispatch_pilot_transcript
<1>1. CASE Events
  <2>1. CASE on_ptt_pressed \/ on_ptt_released \/ Retune \/ LoaderRegisters
    BY <1>u, <2>1
       DEF on_ptt_pressed, on_ptt_released, Retune, LoaderRegisters, dialog
  <2>2. CASE submit_text \/ retry_last_transmission
    BY <1>d, <2>2 DEF submit_text, retry_last_transmission
  <2>3. CASE FreshFlight \/ Disregard
    BY <1>u, <1>f, <2>3 DEF FreshFlight, Disregard, dialog
  <2>4. CASE XPluginDisable \/ XPluginEnable
    BY <1>v, <2>4 DEF XPluginDisable, XPluginEnable
  <2>5. QED
    BY <1>1, <2>1, <2>2, <2>3, <2>4 DEF Events
<1>2. CASE SttCallback
  BY <1>d, <1>u, <1>2 DEF SttCallback, dialog
<1>3. CASE LmCallback
  BY <1>e, <1>3 DEF LmCallback
<1>4. CASE GuardedTtsCallback
  BY <1>u, <1>v, <1>4 DEF GuardedTtsCallback, GuardedCallback, GuardedGiveUp
<1>5. CASE PlainTtsCallback \/ AtisTtsCallback \/ FinishPlayback
           \/ DialogRetry \/ PollTraffic \/ AtisAbort \/ AtisTrigger
           \/ PlaybackDone \/ \E s \in Slots : WorkerDone(s)
  BY <1>u, <1>5 DEF PlainTtsCallback, AtisTtsCallback, FinishPlayback,
                    DialogRetry, PollTraffic, AtisAbort, AtisTrigger,
                    PlaybackDone, WorkerDone, dialog
<1>6. CASE BeginFrame \/ AutoCorrect
  BY <1>u, <1>f, <1>6 DEF BeginFrame, AutoCorrect, dialog
<1>7. QED
  BY <1>1, <1>2, <1>3, <1>4, <1>5, <1>6 DEF Next, Frame

\* Only the last failure of a guarded reply gives it up.
LEMMA OnlyGiveUp ==
    ASSUME TInv, Next, GivesUp
    PROVE  \E blocked \in BOOLEAN : GuardedGiveUp(blocked)
<1>r. ASSUME req'.valid = req.valid
      PROVE  FALSE
  BY <1>r DEF GivesUp
<1>u. ASSUME UNCHANGED req
      PROVE  FALSE
  BY <1>u, <1>r
<1>n. ASSUME tts_network_error' = FALSE, tts_blocked' = FALSE
      PROVE  FALSE
  BY <1>n DEF GivesUp
<1>e. ASSUME NEW snap, NEW cleared, NEW q, EngineReply(snap, cleared, q)
      PROVE  FALSE
  BY <1>e, <1>u, <1>n DEF EngineReply, EngineSilent, speak_response_guarded
<1>d. ASSUME NEW s, NEW q, dispatch_pilot_transcript(s, q)
      PROVE  FALSE
  BY <1>d, <1>e, <1>u DEF dispatch_pilot_transcript, AskLm
<1>1. CASE Events
  <2>1. CASE on_ptt_pressed \/ on_ptt_released \/ Retune \/ LoaderRegisters
             \/ FreshFlight \/ Disregard
    BY <1>u, <2>1 DEF on_ptt_pressed, on_ptt_released, Retune,
                      LoaderRegisters, FreshFlight, Disregard, dialog
  <2>2. CASE submit_text \/ retry_last_transmission
    BY <1>d, <2>2 DEF submit_text, retry_last_transmission
  <2>3. CASE XPluginDisable \/ XPluginEnable
    BY <1>n, <2>3 DEF XPluginDisable, XPluginEnable
  <2>4. QED
    BY <1>1, <2>1, <2>2, <2>3 DEF Events
<1>2. CASE SttCallback \/ LmCallback
  BY <1>d, <1>e, <1>u, <1>2 DEF SttCallback, LmCallback, dialog
<1>3. CASE GuardedTtsCallback
  BY <1>u, <1>n, <1>3 DEF GuardedTtsCallback, GuardedCallback
<1>4. CASE PlainTtsCallback \/ AtisTtsCallback \/ FinishPlayback
           \/ DialogRetry \/ PollTraffic \/ AtisAbort \/ AtisTrigger
           \/ PlaybackDone \/ BeginFrame \/ AutoCorrect
           \/ \E s \in Slots : WorkerDone(s)
  BY <1>u, <1>4 DEF PlainTtsCallback, AtisTtsCallback, FinishPlayback,
                    DialogRetry, PollTraffic, AtisAbort, AtisTrigger,
                    PlaybackDone, BeginFrame, AutoCorrect, WorkerDone, dialog
<1>5. QED
  BY <1>1, <1>2, <1>3, <1>4 DEF Next, Frame

\* The remembered generation tells, in every behaviour.
LEMMA GenInvariant == Spec => []GenTells
<1>1. Init => GenTells
  BY DEF Init, GenTells
<1>2. TInv /\ GenTells /\ [Next]_vars => GenTells'
  <2>1. TInv /\ GenTells /\ Next => GenTells'
    BY GenStep
  <2>2. GenTells /\ UNCHANGED vars => GenTells'
    BY DEF GenTells, vars
  <2>3. QED
    BY <2>1, <2>2
<1>3. QED
  BY <1>1, <1>2, TInvariant, PTL DEF Spec

\* A reply the pilot never heard is undone exactly when nothing else mutated
\* the state machine since it was produced, and the System row says so
\* (dispatch_guarded_tts, atc_state_machine::restore_snapshot_if_gen).
THEOREM RevertGuard == Spec => RollbackExact
<1> DEFINE Exact == GivesUp =>
                \/ /\ notice' = "restored" /\ ~hist.intervened
                   /\ atc'.val = req.pre_snap /\ atc'.gen > atc.gen
                \/ notice' = "stale" /\ hist.intervened /\ atc' = atc
<1>1. TInv /\ GenTells /\ [Next]_vars => [Exact]_vars
  <2> SUFFICES ASSUME TInv, GenTells, Next, GivesUp PROVE Exact
    BY DEF GivesUp, vars
  <2>1. PICK b \in BOOLEAN : GuardedGiveUp(b)
    BY OnlyGiveUp
  <2>2. req.valid /\ atc.gen \in Nat /\ req.expected_gen \in Nat
    BY DEF GivesUp, TInv, TypeOK, Requests
  <2>3. CASE atc.gen = req.expected_gen
    <3>1. ~hist.intervened
      BY <2>2, <2>3 DEF GenTells
    <3>2. /\ notice' = "restored" /\ atc'.val = req.pre_snap
          /\ atc'.gen = atc.gen + 1
      BY <2>1, <2>3 DEF GuardedGiveUp, restore_snapshot_if_gen, Mutated
    <3>3. QED
      BY <2>2, <3>1, <3>2
  <2>4. CASE atc.gen # req.expected_gen
    <3>1. hist.intervened
      BY <2>2, <2>4 DEF GenTells
    <3>2. notice' = "stale" /\ atc' = atc
      BY <2>1, <2>4 DEF GuardedGiveUp, restore_snapshot_if_gen
    <3>3. QED
      BY <3>1, <3>2
  <2>5. QED
    BY <2>3, <2>4
<1>2. QED
  BY <1>1, GenInvariant, TInvariant, PTL DEF Spec, RollbackExact

-----------------------------------------------------------------------------
(* The uninterrupted session: one job at a time, and the PTT state, the    *)
(* flags and the audio channel all agree with the job that is outstanding. *)

NoWork == callbacks = <<>> /\ \A s \in Slots : workers[s] = NoJob

AtWorker(k) ==
    /\ callbacks = <<>>
    /\ \E s \in Slots : /\ workers[s] # NoJob /\ workers[s].kind = k
                        /\ \A t \in Slots \ {s} : workers[t] = NoJob

AtQueue(k) ==
    /\ Len(callbacks) = 1 /\ callbacks[1].kind = k
    /\ \A s \in Slots : workers[s] = NoJob

Only(k) == AtWorker(k) \/ AtQueue(k)

\* Which job is outstanding decides the mode of the session.
Resting == NoWork /\ ~tts_pending /\ state # "PROCESSING"
Thinking == (Only("stt") \/ Only("lm")) /\ ~tts_pending /\ state = "PROCESSING"
Answering ==
    Only("guarded") /\ tts_pending /\ state = "PLAYING" /\ req.valid
        /\ ~atis_playing
Calling == Only("plain") /\ tts_pending /\ state = "PLAYING" /\ ~atis_playing
Broadcasting ==
    Only("atis") /\ tts_pending /\ state = "PLAYING" /\ atis_playing
        /\ atis_com(radio) = atis_active_com

Mode == Resting \/ Thinking \/ Answering \/ Calling \/ Broadcasting

Air ==
    /\ atis_playing => state = "PLAYING"
    /\ Voice => state = "PLAYING" /\ ~tts_pending /\ dialog_retry_timer = 0
    /\ audio = "atis" => atis_playing
    /\ recording => key /\ state = "RECORDING"

Disabled == ~enabled => pc = "events" /\ state = "IDLE"

QInv == Mode /\ Air /\ RetryHolds /\ Disabled

\* A job submitted by a session without work is the only one.
LEMMA SubmitOnly ==
    ASSUME TypeOK, NEW stage, NEW job \in Jobs,
           \A s \in Slots : workers[s] = NoJob,
           Submit(stage, job, <<>>)
    PROVE  Only(job.kind)'
<1>1. CASE spawn_worker(job, <<>>)
  <2>1. PICK s \in Slots : /\ workers' = [workers EXCEPT ![s] = job]
                           /\ callbacks' = <<>>
    BY <1>1 DEF spawn_worker
  <2>2. workers'[s] = job /\ \A t \in Slots \ {s} : workers'[t] = NoJob
    BY <2>1 DEF TypeOK
  <2>3. job # NoJob
    BY SessionAssumption
  <2>4. QED
    BY <2>1, <2>2, <2>3 DEF Only, AtWorker
<1>2. CASE callbacks' = Append(<<>>, FailedCallback(job)) /\ UNCHANGED workers
  <2>1. Len(callbacks') = 1 /\ callbacks'[1] = FailedCallback(job)
    BY <1>2
  <2>2. QED
    BY <1>2, <2>1 DEF Only, AtQueue, FailedCallback
<1>3. QED
  BY <1>1, <1>2 DEF Submit

\* In a drain step the callback is the only work, and its kind is the mode.
LEMMA PopOnly ==
    ASSUME TInv, Mode, NEW kind \in JobKinds, Pop(kind)
    PROVE  /\ \A s \in Slots : workers[s] = NoJob
           /\ Tail(callbacks) = <<>>
           /\ kind \in {"stt", "lm"} => Thinking
           /\ kind = "guarded" => Answering
           /\ kind = "plain" => Calling
           /\ kind = "atis" => Broadcasting
<1>1. callbacks # <<>> /\ callbacks[1].kind = kind
  BY PopType
<1>2. ASSUME NEW k, Only(k)
      PROVE  /\ k = kind /\ \A s \in Slots : workers[s] = NoJob
             /\ Tail(callbacks) = <<>>
  <2>1. AtQueue(k)
    BY <1>1, <1>2 DEF Only, AtWorker
  <2>2. Tail(callbacks) = <<>>
    <3>1. Tail(callbacks) \in Seq(Callbacks) /\ Len(Tail(callbacks)) = 0
      BY <2>1, PopType DEF AtQueue
    <3>2. QED
      BY <3>1, EmptySeq
  <2>3. QED
    BY <1>1, <2>1, <2>2 DEF AtQueue
<1>3. ~Resting
  BY <1>1 DEF Resting, NoWork
<1>4. CASE Thinking
  <2>1. kind \in {"stt", "lm"}
    BY <1>2, <1>4 DEF Thinking
  <2>2. QED
    BY <1>2, <1>4, <2>1 DEF Thinking
<1>5. CASE Answering
  BY <1>2, <1>5 DEF Answering
<1>6. CASE Calling
  BY <1>2, <1>6 DEF Calling
<1>7. CASE Broadcasting
  BY <1>2, <1>7 DEF Broadcasting
<1>8. QED
  BY <1>3, <1>4, <1>5, <1>6, <1>7 DEF Mode

\* A step that touches neither the work nor the flags keeps the mode.
LEMMA ModeSame ==
    ASSUME Mode, UNCHANGED <<workers, callbacks, tts_pending, state, req,
                             atis_playing, atis_active_com>>,
           atis_playing /\ tts_pending => atis_com(radio') = atis_com(radio)
                                          \/ atis_com(radio') = atis_active_com
    PROVE  Mode'
BY DEF Mode, Resting, NoWork, Thinking, Answering, Calling, Broadcasting,
       Only, AtWorker, AtQueue

\* The engine's answer leaves the session at rest or answering.
LEMMA EngineMode ==
    ASSUME TypeOK, \A s \in Slots : workers[s] = NoJob,
           ~tts_pending, ~atis_playing, UNCHANGED atis_playing,
           NEW snap \in AtcVals, NEW cleared \in BOOLEAN,
           EngineReply(snap, cleared, <<>>)
    PROVE  \/ Resting' /\ state' = "IDLE"
                       /\ UNCHANGED dialog_retry_timer
           \/ Answering' /\ dialog_retry_timer' = 0
<1>1. CASE \E after \in Processed : EngineSilent(after, cleared, <<>>)
  BY <1>1 DEF EngineSilent, Resting, NoWork
<1>2. CASE \E after \in Processed :
             speak_response_guarded(after, snap, cleared, <<>>)
  <2>1. /\ req'.valid = TRUE /\ dialog_retry_timer' = 0
        /\ dispatch_guarded_tts(<<>>)
    BY <1>2 DEF speak_response_guarded
  <2>2. Job("guarded", atc.val) \in Jobs
    BY JobType DEF TypeOK, JobKinds, TtsKinds
  <2>3. Job("guarded", atc.val).kind = "guarded"
    BY DEF Job
  <2>4. Only("guarded")'
    BY <2>1, <2>2, <2>3, SubmitOnly DEF dispatch_guarded_tts, synthesize_async
  <2>5. QED
    BY <2>1, <2>4 DEF Answering, dispatch_guarded_tts
<1>3. QED
  BY <1>1, <1>2 DEF EngineReply

\* A dispatched transcript leaves it at rest, answering, or asking the LM.
LEMMA DispatchMode ==
    ASSUME TypeOK, \A s \in Slots : workers[s] = NoJob,
           ~tts_pending, ~atis_playing, UNCHANGED atis_playing,
           dialog_retry_timer = 0,
           dispatch_pilot_transcript("PROCESSING", <<>>)
    PROVE  Mode' /\ dialog_retry_timer' = 0
<1>1. atc.val \in AtcVals
  BY DEF TypeOK
<1>2. CASE EngineReply(atc.val, TRUE, <<>>)
  BY <1>1, <1>2, EngineMode DEF Mode
<1>3. CASE AskLm("PROCESSING", <<>>)
  <2>1. Job("lm", atc.val) \in Jobs /\ Job("lm", atc.val).kind = "lm"
    BY <1>1, JobType DEF JobKinds, Job
  <2>2. Only("lm")'
    <3>1. Submit("lm", Job("lm", atc.val), <<>>)
      BY <1>3 DEF AskLm, Submit
    <3>2. QED
      BY <2>1, <3>1, SubmitOnly
  <2>3. QED
    BY <1>3, <2>2 DEF AskLm, Mode, Thinking
<1>4. QED
  BY <1>2, <1>3 DEF dispatch_pilot_transcript

\* Every event between two frames keeps the invariant of an uninterrupted
\* session.
LEMMA QuietEvents == ASSUME Quiet, TInv, QInv, Events PROVE QInv'
<1> USE DEF QInv
<1>t. TypeOK /\ callbacks \in Seq(Callbacks)
  BY DEF TInv, TypeOK
<1>i. ASSUME state \in {"IDLE", "RECORDING"}
      PROVE  /\ Resting /\ callbacks = <<>>
             /\ \A s \in Slots : workers[s] = NoJob
             /\ ~tts_pending /\ ~atis_playing /\ ~Voice
             /\ dialog_retry_timer = 0
  <2>1. Resting
    BY <1>i DEF Mode, Thinking, Answering, Calling, Broadcasting
  <2>2. dialog_retry_timer = 0
    BY <1>i, <1>t DEF RetryHolds, TypeOK
  <2>3. QED
    BY <1>i, <2>1, <2>2 DEF Resting, NoWork, Air
<1>1. CASE on_ptt_pressed
  <2>1. CASE state = "IDLE" /\ state' = "RECORDING" /\ play("click")
    <3>1. Mode'
      BY <1>1, <1>i, <2>1
         DEF on_ptt_pressed, Mode, Resting, NoWork, manager
    <3>2. Air'
      BY <1>1, <1>i, <2>1 DEF on_ptt_pressed, Air, Voice, play, atis
    <3>3. QED
      BY <1>1, <1>i, <2>1, <3>1, <3>2
         DEF on_ptt_pressed, RetryHolds, Disabled, Between, dialog
  <2>2. CASE UNCHANGED <<state, audio, recording>>
    <3>1. Mode'
      BY <1>1, <2>2, ModeSame DEF on_ptt_pressed, manager, atis, dialog
    <3>2. QED
      BY <1>1, <2>2, <3>1 DEF on_ptt_pressed, Air, Voice, RetryHolds, Disabled,
                              Between, atis, dialog
  <2>3. QED
    BY <1>1, <2>1, <2>2 DEF on_ptt_pressed
<1>2. CASE on_ptt_released
  <2>1. CASE state # "RECORDING" /\ UNCHANGED <<state, recording, manager>>
    <3>1. Mode'
      BY <1>2, <2>1, ModeSame DEF on_ptt_released, manager, atis, dialog
    <3>2. QED
      BY <1>2, <2>1, <3>1
         DEF on_ptt_released, Air, Voice, RetryHolds, Disabled, atis, dialog
  <2>2. CASE state = "RECORDING" /\ state' = "IDLE" /\ UNCHANGED manager
    <3>1. Mode'
      BY <1>2, <1>i, <2>2
         DEF on_ptt_released, Mode, Resting, NoWork, manager
    <3>2. Air'
      BY <1>2, <1>i, <2>2 DEF on_ptt_released, Air, Voice, atis
    <3>3. QED
      BY <1>2, <1>i, <2>2, <3>1, <3>2
         DEF on_ptt_released, RetryHolds, Disabled, Between, dialog
  <2>3. CASE /\ state = "RECORDING" /\ state' = "PROCESSING"
             /\ transcribe_async(callbacks)
    <3>1. Job("stt", atc.val) \in Jobs /\ Job("stt", atc.val).kind = "stt"
      BY <1>t, JobType DEF TypeOK, JobKinds, Job
    <3>2. Only("stt")'
      BY <1>i, <1>t, <2>3, <3>1, SubmitOnly DEF transcribe_async
    <3>3. Mode'
      BY <1>2, <1>i, <2>3, <3>2 DEF on_ptt_released, Mode, Thinking
    <3>4. Air'
      BY <1>2, <1>i, <2>3 DEF on_ptt_released, Air, Voice, atis
    <3>5. QED
      BY <1>2, <1>i, <2>3, <3>3, <3>4
         DEF on_ptt_released, RetryHolds, Disabled, Between, dialog
  <2>4. QED
    BY <1>2, <2>1, <2>2, <2>3 DEF on_ptt_released
<1>3. CASE submit_text \/ retry_last_transmission
  <2>1. /\ state = "IDLE" /\ enabled
        /\ dispatch_pilot_transcript("PROCESSING", callbacks)
        /\ UNCHANGED <<world, pc, draining, audio, recording, atis>>
    BY <1>3 DEF submit_text, retry_last_transmission, Between
  <2>2. Mode' /\ dialog_retry_timer' = 0
    BY <1>i, <1>t, <2>1, DispatchMode DEF atis
  <2>3. Air'
    BY <1>i, <2>1 DEF Air, Voice, world, atis
  <2>4. QED
    BY <2>1, <2>2, <2>3 DEF RetryHolds, Disabled, world
<1>4. CASE Retune
  <2>1. Mode'
    BY <1>4, ModeSame
       DEF Retune, Quiet, AtisInFlight, manager, atis, dialog
  <2>2. QED
    BY <1>4, <2>1
       DEF Retune, Air, Voice, RetryHolds, Disabled, atis, dialog
<1>5. CASE LoaderRegisters \/ Disregard
  <2>1. Mode'
    BY <1>5, ModeSame
       DEF LoaderRegisters, Disregard, world, manager, atis, dialog
  <2>2. QED
    BY <1>5, <2>1 DEF LoaderRegisters, Disregard, Air, Voice, RetryHolds,
                      Disabled, world, atis, dialog
<1>6. CASE FreshFlight
  <2>1. Mode'
    BY <1>6, ModeSame DEF FreshFlight, world, manager, dialog
  <2>2. QED
    BY <1>6, <2>1 DEF FreshFlight, Air, Voice, RetryHolds, Disabled, world, dialog
<1>7. CASE XPluginDisable
  <2>1. state = "IDLE" /\ ~recording
    BY <1>7 DEF XPluginDisable, Quiet, NothingOutstanding
  <2>2. Mode'
    BY <1>7, <1>i, <2>1 DEF XPluginDisable, Mode, Resting, NoWork, manager
  <2>3. Air'
    BY <1>7, <1>i, <2>1 DEF XPluginDisable, Air, Voice
  <2>4. QED
    BY <1>7, <2>2, <2>3 DEF XPluginDisable, RetryHolds, Disabled, Between
<1>8. CASE XPluginEnable
  <2>1. state = "IDLE" /\ ~recording
    BY <1>8 DEF XPluginEnable, Disabled, Air
  <2>2. Mode'
    BY <1>8, <1>i, <2>1 DEF XPluginEnable, Mode, Resting, NoWork, manager
  <2>3. Air'
    BY <1>8, <1>i, <2>1 DEF XPluginEnable, Air, Voice
  <2>4. QED
    BY <1>8, <2>2, <2>3 DEF XPluginEnable, RetryHolds, Disabled
<1>9. QED
  BY <1>1, <1>2, <1>3, <1>4, <1>5, <1>6, <1>7, <1>8, Zenon DEF Events

\* Every drained callback keeps it.
LEMMA QuietCallbacks ==
    ASSUME TInv, QInv, SttCallback \/ LmCallback \/ GuardedTtsCallback
                       \/ PlainTtsCallback \/ AtisTtsCallback
    PROVE  QInv'
<1> USE DEF QInv
<1>t. TypeOK /\ dialog_retry_timer \in 0..kDialogRetryDelay
  BY DEF TInv, TypeOK
<1>k. {"stt", "lm", "guarded", "plain", "atis"} = JobKinds
  BY DEF JobKinds, TtsKinds
<1>d. ASSUME NEW kind \in JobKinds, Pop(kind)
      PROVE  Disabled' /\ enabled' = enabled /\ pc = "drain" /\ enabled
  BY <1>d DEF Pop, Disabled, world
<1>b. ASSUME state \in {"PROCESSING", "PLAYING"}, tts_pending \/ state = "PROCESSING"
      PROVE  dialog_retry_timer = 0 /\ ~Voice /\ ~recording
  BY <1>b, <1>t DEF RetryHolds, Air
<1>1. CASE SttCallback \/ LmCallback
  <2>1. /\ Thinking /\ Tail(callbacks) = <<>>
        /\ \A s \in Slots : workers[s] = NoJob
        /\ UNCHANGED <<audio, atis, recording>> /\ Disabled'
    BY <1>1, <1>k, <1>d, PopOnly DEF SttCallback, LmCallback, Pop
  <2>2. /\ state = "PROCESSING" /\ ~tts_pending /\ ~atis_playing
        /\ dialog_retry_timer = 0 /\ ~Voice /\ ~recording
    BY <1>b, <2>1 DEF Thinking, Air
  <2>3. Mode' /\ dialog_retry_timer' = 0
    <3>1. CASE dispatch_pilot_transcript(state, Tail(callbacks))
      BY <1>t, <2>1, <2>2, <3>1, DispatchMode DEF atis
    <3>2. CASE /\ state' = "IDLE" /\ callbacks' = Tail(callbacks)
               /\ UNCHANGED <<workers, tts_pending, dialog>>
      BY <2>1, <2>2, <3>2 DEF Mode, Resting, NoWork, dialog
    <3>3. CASE LmCallback
      <4>1. Head(callbacks).snap \in AtcVals
        BY <1>k, <3>3, PopType DEF LmCallback, Callbacks
      <4>2. QED
        BY <1>t, <2>1, <2>2, <3>3, <4>1, EngineMode DEF LmCallback, Mode, atis
    <3>4. QED
      BY <1>1, <3>1, <3>2, <3>3 DEF SttCallback
  <2>4. Air'
    BY <2>1, <2>2 DEF Air, Voice, atis
  <2>5. QED
    BY <2>1, <2>3, <2>4 DEF RetryHolds
<1>2. ASSUME NEW kind \in TtsKinds, Pop(kind), callbacks' = Tail(callbacks),
             UNCHANGED workers, tts_pending' = FALSE
      PROVE  /\ NoWork' /\ state = "PLAYING" /\ tts_pending
             /\ dialog_retry_timer = 0 /\ ~Voice /\ ~recording /\ Disabled'
             /\ state' # "PROCESSING" => Mode'
             /\ ~recording'
  <2>1. kind \in JobKinds
    BY DEF JobKinds
  <2>2. /\ \A s \in Slots : workers[s] = NoJob
        /\ Tail(callbacks) = <<>> /\ state = "PLAYING" /\ tts_pending
    BY <1>2, <2>1, PopOnly
       DEF TtsKinds, Answering, Calling, Broadcasting
  <2>3. NoWork'
    BY <1>2, <2>2 DEF NoWork
  <2>4. recording' = recording
    BY <1>2 DEF Pop
  <2>5. QED
    BY <1>2, <1>b, <1>d, <2>1, <2>2, <2>3, <2>4 DEF Mode, Resting
<1>3. CASE GuardedTtsCallback
  <2>1. /\ Pop("guarded") /\ callbacks' = Tail(callbacks)
        /\ UNCHANGED workers /\ tts_pending' = FALSE /\ UNCHANGED atis
        /\ "guarded" \in TtsKinds
    BY <1>3 DEF GuardedTtsCallback, GuardedCallback, TtsKinds
  <2>2. Answering
    BY <1>k, <2>1, PopOnly
  <2>3. /\ state = "PLAYING" /\ dialog_retry_timer = 0 /\ ~Voice
        /\ Disabled' /\ ~recording' /\ ~atis_playing' /\ req.valid
        /\ state' # "PROCESSING" => Mode'
    BY <1>2, <2>1, <2>2 DEF Answering, atis
  <2>4. CASE /\ play("dialog") /\ UNCHANGED <<state, dialog_retry_timer>>
    BY <2>1, <2>3, <2>4 DEF Air, Voice, play, RetryHolds
  <2>5. CASE /\ dialog_tts_failures' = dialog_tts_failures + 1
             /\ UNCHANGED <<audio, state, req>>
    BY <1>t, <2>1, <2>3, <2>5 DEF Air, Voice, RetryHolds, TypeOK
  <2>6. CASE state' = "IDLE" /\ dialog_retry_timer' = 0 /\ play("squelch")
    BY <2>1, <2>3, <2>6 DEF Air, Voice, play, RetryHolds
  <2>7. QED
    BY <1>3, <2>4, <2>5, <2>6
       DEF GuardedTtsCallback, GuardedCallback, GuardedGiveUp
<1>4. CASE PlainTtsCallback
  <2>1. /\ Pop("plain") /\ callbacks' = Tail(callbacks)
        /\ UNCHANGED workers /\ tts_pending' = FALSE
        /\ UNCHANGED atis /\ UNCHANGED dialog
        /\ "plain" \in TtsKinds
    BY <1>4 DEF PlainTtsCallback, PlainCallback, TtsKinds
  <2>2. Calling
    BY <1>k, <2>1, PopOnly
  <2>3. /\ state = "PLAYING" /\ dialog_retry_timer = 0 /\ ~Voice
        /\ Disabled' /\ ~recording' /\ ~atis_playing'
        /\ dialog_retry_timer' = 0
        /\ state' # "PROCESSING" => Mode'
    BY <1>2, <2>1, <2>2 DEF Calling, atis, dialog
  <2>4. CASE play("dialog") /\ UNCHANGED state
    BY <2>1, <2>3, <2>4 DEF Air, Voice, play, RetryHolds
  <2>5. CASE state' = "IDLE" /\ UNCHANGED audio
    BY <2>1, <2>3, <2>5 DEF Air, Voice, RetryHolds
  <2>6. QED
    BY <1>4, <2>4, <2>5 DEF PlainTtsCallback, PlainCallback
<1>5. CASE AtisTtsCallback
  <2>1. /\ Pop("atis") /\ callbacks' = Tail(callbacks)
        /\ UNCHANGED workers /\ tts_pending' = FALSE
        /\ UNCHANGED dialog /\ "atis" \in TtsKinds
    BY <1>5 DEF AtisTtsCallback, AtisCallback, TtsKinds
  <2>2. Broadcasting
    BY <1>k, <2>1, PopOnly
  <2>3. /\ state = "PLAYING" /\ dialog_retry_timer = 0 /\ ~Voice
        /\ Disabled' /\ ~recording' /\ atis_playing
        /\ dialog_retry_timer' = 0
        /\ state' # "PROCESSING" => Mode'
    BY <1>2, <2>1, <2>2 DEF Broadcasting, dialog
  <2>4. CASE play("atis") /\ UNCHANGED <<state, atis_playing>>
    BY <2>1, <2>3, <2>4 DEF Air, Voice, play, RetryHolds
  <2>5. CASE /\ state' = "IDLE" /\ atis_playing' = FALSE
             /\ UNCHANGED audio \/ play("squelch")
    BY <2>1, <2>3, <2>5 DEF Air, Voice, play, RetryHolds
  <2>6. QED
    BY <1>5, <2>4, <2>5 DEF AtisTtsCallback, AtisCallback
<1>6. QED
  BY <1>1, <1>3, <1>4, <1>5

\* Every section of update() keeps it.
LEMMA QuietUpdate ==
    ASSUME TInv, QInv, BeginFrame \/ FinishPlayback \/ DialogRetry
                       \/ AutoCorrect \/ PollTraffic \/ AtisAbort
                       \/ AtisTrigger
    PROVE  QInv'
<1> USE DEF QInv
<1>t. /\ TypeOK /\ dialog_retry_timer \in 0..kDialogRetryDelay
      /\ kDialogRetryDelay \in Nat
  BY SessionAssumption DEF TInv, TypeOK
<1>e. enabled /\ enabled' = enabled
  BY DEF BeginFrame, FinishPlayback, DialogRetry, AutoCorrect, PollTraffic,
         AtisAbort, AtisTrigger, Between, Disabled, world
<1>y. ASSUME NEW kind \in TtsKinds, synthesize_async(kind, callbacks), Resting
      PROVE  Only(kind)'
  <2>1. Job(kind, atc.val) \in Jobs /\ Job(kind, atc.val).kind = kind
    BY <1>t, JobType DEF TypeOK, JobKinds, Job
  <2>2. QED
    BY <1>t, <1>y, <2>1, SubmitOnly DEF synthesize_async, Resting, NoWork
<1>i. ASSUME state = "IDLE"
      PROVE  /\ Resting /\ ~atis_playing /\ ~Voice
             /\ dialog_retry_timer = 0 /\ ~recording
  <2>1. Resting
    BY <1>i DEF Mode, Thinking, Answering, Calling, Broadcasting
  <2>2. dialog_retry_timer = 0
    BY <1>i, <1>t DEF RetryHolds
  <2>3. QED
    BY <1>i, <2>1, <2>2 DEF Air
<1>1. CASE BeginFrame \/ AutoCorrect
  <2>1. Mode'
    BY <1>1, ModeSame DEF BeginFrame, AutoCorrect, world, manager, atis, dialog
  <2>2. QED
    BY <1>e, <1>1, <2>1 DEF BeginFrame, AutoCorrect, Air, Voice, RetryHolds,
                            Disabled, world, atis, dialog
<1>2. CASE FinishPlayback
  <2>1. CASE /\ state = "PLAYING" /\ ~tts_pending /\ audio = "none"
             /\ dialog_retry_timer = 0
             /\ state' = "IDLE" /\ atis_playing' = FALSE
    <3>1. Resting
      BY <2>1 DEF Mode, Thinking, Answering, Calling, Broadcasting
    <3>2. Mode'
      BY <1>2, <2>1, <3>1 DEF FinishPlayback, Mode, Resting, NoWork, manager
    <3>3. QED
      BY <1>e, <1>2, <2>1, <3>2
         DEF FinishPlayback, Air, Voice, RetryHolds, Disabled, world, dialog
  <2>2. CASE UNCHANGED <<state, atis_playing>>
    <3>1. Mode'
      BY <1>2, <2>2, ModeSame DEF FinishPlayback, world, manager, dialog
    <3>2. QED
      BY <1>e, <1>2, <2>2, <3>1
         DEF FinishPlayback, Air, Voice, RetryHolds, Disabled, world, dialog
  <2>3. QED
    BY <1>2, <2>1, <2>2 DEF FinishPlayback, PlaybackOver
<1>3. CASE DialogRetry
  <2>1. CASE dialog_retry_timer = 1
    <3>1. /\ state = "PLAYING" /\ ~tts_pending /\ ~atis_playing /\ req.valid
          /\ ~Voice /\ ~recording
      BY <2>1 DEF RetryHolds, Air
    <3>2. Resting
      BY <3>1 DEF Mode, Thinking, Answering, Calling, Broadcasting
    <3>3. /\ dispatch_guarded_tts(callbacks) /\ dialog_retry_timer' = 0
      BY <1>3, <2>1, <3>1 DEF DialogRetry
    <3>4. Only("guarded")'
      BY <1>y, <3>2, <3>3 DEF dispatch_guarded_tts, TtsKinds
    <3>5. Mode'
      BY <1>3, <3>1, <3>3, <3>4
         DEF DialogRetry, dispatch_guarded_tts, Mode, Answering, atis
    <3>6. QED
      BY <1>e, <1>3, <3>1, <3>3, <3>5
         DEF DialogRetry, dispatch_guarded_tts, Air, Voice, RetryHolds,
             Disabled, world, atis
  <2>2. CASE dialog_retry_timer # 1
    <3>1. UNCHANGED <<state, tts_pending, manager>>
      BY <1>3, <2>2 DEF DialogRetry
    <3>2. Mode'
      BY <1>3, <3>1, ModeSame DEF DialogRetry, world, manager, atis
    <3>3. dialog_retry_timer = 0 => dialog_retry_timer' = 0
      BY <1>3, <1>t DEF DialogRetry
    <3>4. dialog_retry_timer' > 0 => dialog_retry_timer > 0
      BY <1>3, <1>t DEF DialogRetry
    <3>5. QED
      BY <1>e, <1>3, <3>1, <3>2, <3>3, <3>4
         DEF DialogRetry, Air, Voice, RetryHolds, Disabled, world, atis
  <2>3. QED
    BY <2>1, <2>2
<1>4. CASE PollTraffic
  <2>1. CASE /\ state = "IDLE" /\ state' = "PLAYING" /\ tts_pending' = TRUE
             /\ synthesize_async("plain", callbacks)
    <3>1. Only("plain")'
      BY <1>i, <1>y, <2>1 DEF TtsKinds
    <3>2. Mode'
      BY <1>i, <1>4, <2>1, <3>1 DEF PollTraffic, Mode, Calling, atis
    <3>3. QED
      BY <1>e, <1>i, <1>4, <2>1, <3>2
         DEF PollTraffic, Air, Voice, RetryHolds, Disabled, world, atis, dialog
  <2>2. CASE UNCHANGED <<budget, state, tts_pending, manager>>
    <3>1. Mode'
      BY <1>4, <2>2, ModeSame DEF PollTraffic, world, manager, atis, dialog
    <3>2. QED
      BY <1>e, <1>4, <2>2, <3>1
         DEF PollTraffic, Air, Voice, RetryHolds, Disabled, world, atis, dialog
  <2>3. QED
    BY <1>4, <2>1, <2>2 DEF PollTraffic
<1>5. CASE AtisAbort
  <2>1. CASE /\ atis_playing /\ atis_com(radio) # atis_active_com
             /\ audio' = "none" /\ atis_playing' = FALSE /\ state' = "IDLE"
    <3>1. Resting /\ dialog_retry_timer = 0 /\ ~recording
      BY <1>t, <2>1 DEF Mode, Thinking, Answering, Calling, Broadcasting, Air,
                        RetryHolds
    <3>2. Mode'
      BY <1>5, <2>1, <3>1 DEF AtisAbort, Mode, Resting, NoWork, manager
    <3>3. QED
      BY <1>e, <1>5, <2>1, <3>1, <3>2
         DEF AtisAbort, Air, Voice, RetryHolds, Disabled, world, dialog
  <2>2. CASE UNCHANGED <<audio, atis_playing, state>>
    <3>1. Mode'
      BY <1>5, <2>2, ModeSame DEF AtisAbort, world, manager, dialog
    <3>2. QED
      BY <1>e, <1>5, <2>2, <3>1
         DEF AtisAbort, Air, Voice, RetryHolds, Disabled, world, dialog
  <2>3. QED
    BY <1>5, <2>1, <2>2 DEF AtisAbort, AbortBroadcast
<1>6. CASE AtisTrigger
  <2>1. CASE AtisDue
    <3>1. /\ state = "IDLE" /\ atis_playing' = TRUE
          /\ atis_active_com' = atis_com(radio) /\ radio' = radio
          /\ state' = "PLAYING" /\ tts_pending' = TRUE
          /\ synthesize_async("atis", callbacks)
      BY <1>6, <2>1 DEF AtisTrigger, AtisDue, world
    <3>2. Only("atis")'
      BY <1>i, <1>y, <3>1 DEF TtsKinds
    <3>3. Mode'
      BY <3>1, <3>2 DEF Mode, Broadcasting
    <3>4. QED
      BY <1>e, <1>i, <1>6, <3>1, <3>3
         DEF AtisTrigger, Air, Voice, RetryHolds, Disabled, world, dialog
  <2>2. CASE ~AtisDue
    <3>1. UNCHANGED <<atis_playing, atis_active_com, state, tts_pending,
                      manager>>
      BY <1>6, <2>2 DEF AtisTrigger
    <3>2. Mode'
      BY <1>6, <3>1, ModeSame DEF AtisTrigger, world, manager, dialog
    <3>3. QED
      BY <1>e, <1>6, <3>1, <3>2
         DEF AtisTrigger, Air, Voice, RetryHolds, Disabled, world, dialog
  <2>3. QED
    BY <2>1, <2>2
<1>7. QED
  BY <1>1, <1>2, <1>3, <1>4, <1>5, <1>6

\* The worker threads and the FMOD callback keep it.
LEMMA QuietThreads ==
    ASSUME TInv, QInv, PlaybackDone \/ \E s \in Slots : WorkerDone(s)
    PROVE  QInv'
<1> USE DEF QInv
<1>1. ASSUME NEW s \in Slots, WorkerDone(s)
      PROVE  QInv'
  <2>1. PICK r \in Results :
          callbacks' = Append(callbacks, [kind |-> workers[s].kind,
                                          snap |-> workers[s].snap,
                                          result |-> r])
    BY <1>1 DEF WorkerDone
  <2>2. /\ workers[s] # NoJob /\ workers'[s] = NoJob
        /\ \A t \in Slots \ {s} : workers'[t] = workers[t]
    BY <1>1, SessionAssumption DEF WorkerDone, TInv, TypeOK
  <2>3. ASSUME NEW k, Only(k)
        PROVE  Only(k)'
    <3>1. AtWorker(k)
      BY <2>2, <2>3 DEF Only, AtQueue
    <3>2. /\ callbacks = <<>> /\ workers[s].kind = k
          /\ \A t \in Slots \ {s} : workers[t] = NoJob
      BY <2>2, <3>1 DEF AtWorker
    <3>3. Len(callbacks') = 1 /\ callbacks'[1].kind = k
      BY <2>1, <3>2
    <3>4. QED
      BY <2>2, <3>2, <3>3 DEF Only, AtQueue
  <2>4. ~Resting
    BY <2>2 DEF Resting, NoWork
  <2>5. UNCHANGED <<world, pc, audio, recording, state, tts_pending, atis,
                    dialog>>
    BY <1>1 DEF WorkerDone
  <2>6. Mode'
    BY <2>3, <2>4, <2>5 DEF Mode, Thinking, Answering, Calling, Broadcasting,
                            world, atis, dialog
  <2>7. QED
    BY <2>5, <2>6 DEF Air, Voice, RetryHolds, Disabled, world, atis, dialog
<1>2. CASE PlaybackDone
  <2>1. Mode'
    BY <1>2, ModeSame DEF PlaybackDone, world, manager, atis, dialog
  <2>2. QED
    BY <1>2, <2>1
       DEF PlaybackDone, Air, Voice, RetryHolds, Disabled, world, atis, dialog
<1>3. QED
  BY <1>1, <1>2

\* QInv is an invariant of the uninterrupted session.
LEMMA QInvariant == Spec /\ Quiet => [](TInv /\ QInv)
<1> SUFFICES ASSUME Quiet PROVE Spec => [](TInv /\ QInv)
  OBVIOUS
<1>1. Init => QInv
  <2> SUFFICES ASSUME Init PROVE QInv
    OBVIOUS
  <2>1. Mode
    BY DEF Init, Mode, Resting, NoWork
  <2>2. Air /\ RetryHolds /\ Disabled
    BY DEF Init, Air, Voice, RetryHolds, Disabled
  <2>3. QED
    BY <2>1, <2>2 DEF QInv
<1>2. TInv /\ QInv /\ [Next]_vars => QInv'
  <2>1. TInv /\ QInv /\ Next => QInv'
    BY QuietEvents, QuietCallbacks, QuietUpdate, QuietThreads, Zenon
       DEF Next, Frame
  <2>2. QInv /\ UNCHANGED vars => QInv'
    <3> SUFFICES ASSUME QInv, UNCHANGED vars PROVE QInv'
      OBVIOUS
    <3>1. Mode'
      BY ModeSame DEF QInv, vars
    <3>2. QED
      BY <3>1 DEF QInv, Air, Voice, RetryHolds, Disabled, vars
  <2>3. QED
    BY <2>1, <2>2
<1>3. QED
  BY <1>1, <1>2, TInvariant, PTL DEF Spec

\* What Only and NoWork say of the outstanding jobs.
LEMMA OnlyOutstanding ==
    ASSUME TypeOK, NEW K
    PROVE  /\ NoWork => ~Outstanding(K)
           /\ \A k : Only(k) => (Outstanding(K) <=> k \in K)
<1>1. NoWork => ~Outstanding(K)
  BY DEF NoWork, Outstanding
<1>2. ASSUME NEW k, Only(k)
      PROVE  Outstanding(K) <=> k \in K
  <2>1. CASE AtWorker(k)
    BY <2>1 DEF AtWorker, Outstanding
  <2>2. CASE AtQueue(k)
    BY <2>2 DEF AtQueue, Outstanding
  <2>3. QED
    BY <1>2, <2>1, <2>2 DEF Only
<1>3. QED
  BY <1>1, <1>2

\* An uninterrupted session has at most one job outstanding, and its PTT state
\* and tts_pending_ say which (atc_session.cpp, manager.cpp).
THEOREM OneJobAtATime == Spec /\ Quiet => []Sequential
<1>1. TInv /\ QInv => Sequential
  <2> SUFFICES ASSUME TInv, QInv PROVE Sequential
    OBVIOUS
  <2>1. TypeOK /\ callbacks \in Seq(Callbacks)
    BY DEF TInv, TypeOK
  <2>2. ASSUME NEW k, Only(k)
        PROVE  /\ \A s, t \in Slots :
                    workers[s] # NoJob /\ workers[t] # NoJob => s = t
               /\ Len(callbacks) <= 1
               /\ callbacks # <<>> => \A s \in Slots : workers[s] = NoJob
    <3>1. CASE AtWorker(k)
      BY <3>1 DEF AtWorker
    <3>2. CASE AtQueue(k)
      BY <3>2 DEF AtQueue
    <3>3. QED
      BY <2>2, <3>1, <3>2 DEF Only
  <2>3. CASE Resting
    <3>1. ~Outstanding(TtsKinds) /\ ~Outstanding({"stt", "lm"})
      BY <2>1, <2>3, OnlyOutstanding DEF Resting
    <3>2. Len(callbacks) = 0
      BY <2>3 DEF Resting, NoWork
    <3>3. QED
      BY <2>3, <3>1, <3>2 DEF Resting, NoWork, Sequential
  <2>4. CASE Thinking
    <3>1. PICK k \in {"stt", "lm"} : Only(k)
      BY <2>4 DEF Thinking
    <3>2. ~Outstanding(TtsKinds) /\ Outstanding({"stt", "lm"})
      BY <2>1, <3>1, OnlyOutstanding DEF TtsKinds
    <3>3. QED
      BY <2>2, <2>4, <3>1, <3>2 DEF Thinking, Sequential
  <2>5. ASSUME NEW k \in TtsKinds, Only(k), tts_pending, state = "PLAYING"
        PROVE  Sequential
    <3>1. Outstanding(TtsKinds) /\ ~Outstanding({"stt", "lm"})
      BY <2>1, <2>5, OnlyOutstanding DEF TtsKinds
    <3>2. QED
      BY <2>2, <2>5, <3>1 DEF Sequential
  <2>6. CASE Answering \/ Calling \/ Broadcasting
    BY <2>5, <2>6 DEF Answering, Calling, Broadcasting, TtsKinds
  <2>7. QED
    BY <2>3, <2>4, <2>6 DEF QInv, Mode
<1>2. QED
  BY <1>1, QInvariant, PTL

\* Microphone and loudspeaker exclude each other: half duplex.
THEOREM NeverBothWays == Spec /\ Quiet => []HalfDuplex
<1>1. QInv => HalfDuplex
  BY DEF QInv, Air, HalfDuplex, Voice
<1>2. QED
  BY <1>1, QInvariant, PTL

\* Between two tries of a reply nothing overtakes it (Issue #46 retry).
THEOREM RetryBlocksPtt == Spec /\ Quiet => []RetryHolds
<1>1. QInv => RetryHolds
  BY DEF QInv
<1>2. QED
  BY <1>1, QInvariant, PTL

\* A reply that may still be heard has not been given up.
THEOREM HeardReplyStands == Spec /\ Quiet => []HeardIsKept
<1>1. TInv /\ QInv => HeardIsKept
  <2> SUFFICES ASSUME TInv, QInv, Outstanding({"guarded"}) PROVE req.valid
    BY DEF HeardIsKept
  <2>1. TypeOK
    BY DEF TInv
  <2>2. \A k : Only(k) => k = "guarded"
    BY <2>1, OnlyOutstanding
  <2>3. ~Resting
    BY <2>1, OnlyOutstanding DEF Resting
  <2>4. Answering
    BY <2>2, <2>3
       DEF QInv, Mode, Thinking, Calling, Broadcasting
  <2>5. QED
    BY <2>4 DEF Answering
<1>2. QED
  BY <1>1, QInvariant, PTL

-----------------------------------------------------------------------------
(* Refinement of the half-duplex radio.                                    *)

\* The PTT state only moves along these edges, and enters PLAYING with the
\* synthesis still pending.
Edge ==
    \/ UNCHANGED <<state, recording>>
    \/ state = "IDLE" /\ state' \in {"RECORDING", "PROCESSING"}
    \/ state = "IDLE" /\ (state' = "PLAYING" /\ tts_pending')
    \/ state = "RECORDING" /\ state' \in {"IDLE", "PROCESSING"}
    \/ state = "PROCESSING" /\ state' = "IDLE"
    \/ state = "PROCESSING" /\ (state' = "PLAYING" /\ tts_pending')
    \/ state = "PLAYING" /\ state' = "IDLE"

\* Every step of an uninterrupted session is an Edge.
LEMMA EdgeStep == ASSUME Quiet, TInv, QInv, Next PROVE Edge
<1>1. CASE Events
  <2>1. ASSUME NEW q, dispatch_pilot_transcript("PROCESSING", q)
        PROVE  state' \in {"IDLE", "PROCESSING"}
                 \/ (state' = "PLAYING" /\ tts_pending')
    BY <2>1 DEF dispatch_pilot_transcript, EngineReply, EngineSilent, AskLm,
                speak_response_guarded, dispatch_guarded_tts
  <2>2. CASE submit_text \/ retry_last_transmission
    BY <2>1, <2>2 DEF submit_text, retry_last_transmission, Edge
  <2>3. CASE on_ptt_pressed \/ on_ptt_released
    BY <2>3 DEF on_ptt_pressed, on_ptt_released, Edge
  <2>4. CASE Retune \/ LoaderRegisters \/ FreshFlight \/ Disregard
    BY <2>4 DEF Retune, LoaderRegisters, FreshFlight, Disregard, Edge
  <2>5. CASE XPluginDisable \/ XPluginEnable
    BY <2>5 DEF XPluginDisable, XPluginEnable, Quiet, NothingOutstanding,
                QInv, Disabled, Edge
  <2>6. QED
    BY <1>1, <2>2, <2>3, <2>4, <2>5 DEF Events
<1>k. {"stt", "lm", "guarded", "plain", "atis"} = JobKinds
  BY DEF JobKinds, TtsKinds
<1>2. CASE SttCallback \/ LmCallback
  <2>1. state = "PROCESSING" /\ UNCHANGED recording
    BY <1>2, <1>k, PopOnly DEF SttCallback, LmCallback, QInv, Thinking, Pop
  <2>2. ASSUME NEW snap, NEW cleared, NEW q, EngineReply(snap, cleared, q)
        PROVE  state' = "IDLE" \/ (state' = "PLAYING" /\ tts_pending')
    BY <2>2 DEF EngineReply, EngineSilent, speak_response_guarded,
                dispatch_guarded_tts
  <2>3. state' \in {"IDLE", state} \/ (state' = "PLAYING" /\ tts_pending')
    BY <1>2, <2>2 DEF SttCallback, LmCallback, dispatch_pilot_transcript, AskLm
  <2>4. QED
    BY <2>1, <2>3 DEF Edge
<1>3. CASE GuardedTtsCallback \/ PlainTtsCallback \/ AtisTtsCallback
  <2>1. state = "PLAYING" /\ UNCHANGED recording
    BY <1>3, <1>k, PopOnly DEF GuardedTtsCallback, PlainTtsCallback,
          AtisTtsCallback, QInv, Answering, Calling, Broadcasting, Pop
  <2>2. state' \in {"IDLE", state}
    BY <1>3 DEF GuardedTtsCallback, GuardedCallback, GuardedGiveUp,
          PlainTtsCallback, PlainCallback, AtisTtsCallback, AtisCallback
  <2>3. QED
    BY <2>1, <2>2 DEF Edge
<1>4. CASE BeginFrame \/ AutoCorrect \/ PlaybackDone
           \/ \E s \in Slots : WorkerDone(s)
  BY <1>4 DEF BeginFrame, AutoCorrect, PlaybackDone, WorkerDone, Edge
<1>5. CASE FinishPlayback \/ PollTraffic \/ AtisTrigger
  BY <1>5 DEF FinishPlayback, PlaybackOver, PollTraffic, AtisTrigger,
              AtisDue, Edge
<1>6. CASE DialogRetry
  <2>1. dialog_retry_timer = 1 => state = "PLAYING"
    BY DEF QInv, RetryHolds
  <2>2. QED
    BY <1>6, <2>1 DEF DialogRetry, dispatch_guarded_tts, Edge
<1>7. CASE AtisAbort
  BY <1>7 DEF AtisAbort, AbortBroadcast, QInv, Air, Edge
<1>8. QED
  BY <1>1, <1>2, <1>3, <1>4, <1>5, <1>6, <1>7 DEF Next, Frame

\* Every step of an uninterrupted session is a step of the abstract radio, or
\* leaves phase, microphone and voice alone.
LEMMA RadioStep ==
    ASSUME Quiet, TInv, QInv, TInv', QInv', [Next]_vars
    PROVE  [Radio!RNext]_(Radio!rvars)
<1>a. /\ Voice => state = "PLAYING"
      /\ recording => state = "RECORDING"
      /\ Voice' => state' = "PLAYING"
      /\ recording' => state' = "RECORDING"
      /\ state \in PTTState
      /\ recording \in BOOLEAN /\ recording' \in BOOLEAN
  BY DEF QInv, Air, TInv, TypeOK
<1>v. Voice \in BOOLEAN /\ Voice' \in BOOLEAN
  BY DEF Voice
<1>1. Edge
  BY EdgeStep DEF Edge, vars
<1> USE DEF Radio!RNext, Radio!rvars
<1>2. CASE UNCHANGED <<state, recording>>
  <2>1. CASE state = "PLAYING"
    BY <1>a, <1>v, <1>2, <2>1 DEF Radio!Speak
  <2>2. CASE state # "PLAYING"
    <3>1. ~Voice /\ ~Voice'
      BY <1>a, <1>2, <2>2
    <3>2. Voice' = Voice
      BY <1>v, <3>1
    <3>3. QED
      BY <1>2, <3>2
  <2>3. QED
    BY <2>1, <2>2
<1>p. ASSUME state' = "PLAYING", tts_pending'
      PROVE  ~Voice'
  BY <1>p DEF QInv, Air
<1>3. CASE state = "IDLE"
  <2>1. CASE state' = "RECORDING"
    BY <1>a, <1>3, <2>1 DEF Radio!Press
  <2>2. CASE state' = "PROCESSING"
    BY <1>a, <1>3, <2>2 DEF Radio!Start
  <2>3. CASE (state' = "PLAYING" /\ tts_pending')
    BY <1>a, <1>p, <1>3, <2>3 DEF Radio!Start
  <2>4. QED
    BY <1>1, <1>2, <1>3, <2>1, <2>2, <2>3 DEF Edge
<1>4. CASE state = "RECORDING" /\ state' \in {"IDLE", "PROCESSING"}
  BY <1>a, <1>4 DEF Radio!Release
<1>5. CASE state = "PROCESSING"
  <2>1. CASE state' = "IDLE"
    BY <1>a, <1>5, <2>1 DEF Radio!Answer
  <2>2. CASE (state' = "PLAYING" /\ tts_pending')
    BY <1>a, <1>p, <1>5, <2>2 DEF Radio!Answer
  <2>3. QED
    BY <1>1, <1>2, <1>5, <2>1, <2>2 DEF Edge
<1>6. CASE state = "PLAYING" /\ state' = "IDLE"
  BY <1>a, <1>6 DEF Radio!Over
<1>7. QED
  BY <1>1, <1>2, <1>3, <1>4, <1>5, <1>6 DEF Edge

\* The uninterrupted session implements the half-duplex radio of
\* HalfDuplexRadio: phase is the PTT state, mic the recorder, voice the audio
\* channel (PTTState in atc_session.hpp).
THEOREM RadioRefinement == Spec /\ Quiet => ImplementsRadio
<1> SUFFICES ASSUME Quiet PROVE Spec => ImplementsRadio
  OBVIOUS
<1>1. Init => Radio!RInit
  BY DEF Init, Radio!RInit, Voice
<1>2. TInv /\ QInv /\ TInv' /\ QInv' /\ [Next]_vars
        => [Radio!RNext]_(Radio!rvars)
  BY RadioStep
<1>3. Spec => [](TInv /\ QInv)
  BY QInvariant
<1>4. QED
  BY <1>1, <1>2, <1>3, PTL DEF Spec, ImplementsRadio, Radio!RSpec

-----------------------------------------------------------------------------
(* Refinement of the promise of the rollback (UnheardReply).               *)

\* A request is valid only while its synthesis is outstanding or its next try
\* is scheduled: last_guarded_req_ never outlives its reply.
Due == req.valid => Answering \/ dialog_retry_timer > 0

\* A worker that hands over its result leaves the kind of the one outstanding
\* job as it was.
LEMMA WorkerOnly ==
    ASSUME TInv, NEW s \in Slots, WorkerDone(s), NEW k, Only(k)
    PROVE  /\ Only(k)' /\ callbacks = <<>> /\ workers[s].kind = k
           /\ \A t \in Slots \ {s} : workers[t] = NoJob
           /\ \A t \in Slots : workers'[t] = NoJob
           /\ Len(callbacks') = 1 /\ callbacks'[1].kind = k
           /\ callbacks'[1].snap = workers[s].snap
<1>1. PICK r \in Results :
        callbacks' = Append(callbacks, [kind |-> workers[s].kind,
                                        snap |-> workers[s].snap,
                                        result |-> r])
  BY DEF WorkerDone
<1>2. /\ workers[s] # NoJob
      /\ workers' = [workers EXCEPT ![s] = NoJob]
      /\ workers \in [Slots -> Jobs \cup {NoJob}]
  BY DEF WorkerDone, TInv, TypeOK
<1>3. AtWorker(k)
  BY <1>2 DEF Only, AtQueue
<1>4. /\ callbacks = <<>> /\ workers[s].kind = k
      /\ \A t \in Slots \ {s} : workers[t] = NoJob
  BY <1>2, <1>3 DEF AtWorker
<1>5. /\ Len(callbacks') = 1 /\ callbacks'[1].kind = k
      /\ callbacks'[1].snap = workers[s].snap
  BY <1>1, <1>4
<1>6. \A t \in Slots : workers'[t] = NoJob
  BY <1>2, <1>4
<1>7. QED
  BY <1>4, <1>5, <1>6 DEF Only, AtQueue

\* Outside PLAYING there is no reply to lose, ...
LEMMA NotPlaying ==
    ASSUME TInv, QInv, Due, state # "PLAYING"
    PROVE  ~req.valid /\ dialog_retry_timer = 0
BY DEF TInv, TypeOK, QInv, RetryHolds, Due, Answering

\* ... nor while the callback of another call is drained.
LEMMA OtherVoice ==
    ASSUME TInv, QInv, Due, NEW kind \in {"plain", "atis"}, Pop(kind)
    PROVE  ~req.valid
<1>1. kind \in JobKinds
  BY DEF JobKinds, TtsKinds
<1>2. callbacks # <<>> /\ callbacks[1].kind = kind /\ tts_pending
  BY <1>1, PopType, PopOnly DEF QInv, Calling, Broadcasting
<1>3. ~Answering
  BY <1>2 DEF Answering, Only, AtWorker, AtQueue
<1>4. QED
  BY <1>2, <1>3 DEF Due, QInv, RetryHolds

\* The engine's answer keeps Due.
LEMMA EngineDue ==
    ASSUME TypeOK, \A s \in Slots : workers[s] = NoJob,
           ~tts_pending, ~atis_playing, UNCHANGED atis_playing, ~req.valid,
           NEW snap \in AtcVals, NEW cleared \in BOOLEAN,
           EngineReply(snap, cleared, <<>>)
    PROVE  Due'
<1>1. CASE Answering'
  BY <1>1 DEF Due
<1>2. CASE state' = "IDLE"
  <2>1. UNCHANGED req
    BY <1>2 DEF EngineReply, EngineSilent, speak_response_guarded,
                dispatch_guarded_tts
  <2>2. QED
    BY <2>1 DEF Due
<1>3. QED
  BY <1>1, <1>2, EngineMode

\* What a session that is idle or thinks dispatches keeps Due.
LEMMA DispatchDue ==
    ASSUME TypeOK, \A s \in Slots : workers[s] = NoJob,
           ~tts_pending, ~atis_playing, UNCHANGED atis_playing, ~req.valid,
           NEW st, dispatch_pilot_transcript(st, <<>>)
    PROVE  Due'
<1>1. atc.val \in AtcVals
  BY DEF TypeOK
<1>2. CASE EngineReply(atc.val, TRUE, <<>>)
  BY <1>1, <1>2, EngineDue
<1>3. CASE AskLm(st, <<>>)
  BY <1>3 DEF AskLm, Due
<1>4. QED
  BY <1>2, <1>3 DEF dispatch_pilot_transcript

\* A session in one of these states has no work and is silent.
LEMMA AtRest ==
    ASSUME TInv, QInv, state \in {"IDLE", "RECORDING"}
    PROVE  /\ Resting /\ callbacks = <<>>
           /\ \A s \in Slots : workers[s] = NoJob
           /\ ~tts_pending /\ ~atis_playing
BY DEF QInv, Mode, Resting, NoWork, Thinking, Answering, Calling,
       Broadcasting, Air

\* Every step keeps Due.
LEMMA DueStep == ASSUME Quiet, TInv, QInv, Due, Next PROVE Due'
<1>t. /\ TypeOK /\ req \in Requests
      /\ dialog_retry_timer \in 0..kDialogRetryDelay
      /\ kDialogRetryDelay \in Nat \ {0}
  BY SessionAssumption DEF TInv, TypeOK
<1>u. ASSUME UNCHANGED <<workers, callbacks, tts_pending, state, req,
                         atis_playing, dialog_retry_timer>>
      PROVE  Due'
  BY <1>u DEF Due, Answering, Only, AtWorker, AtQueue
<1>x. ASSUME req' = [req EXCEPT !.valid = FALSE]
      PROVE  Due'
  BY <1>t, <1>x DEF Due, Requests
<1>i. ASSUME ~req.valid, UNCHANGED req
      PROVE  Due'
  BY <1>i DEF Due
<1>n. ASSUME state # "PLAYING", UNCHANGED req
      PROVE  Due'
  BY <1>i, <1>n, NotPlaying
<1>k. {"stt", "lm", "guarded", "plain", "atis"} = JobKinds
  BY DEF JobKinds, TtsKinds
<1>1. CASE Events
  <2>1. CASE on_ptt_pressed \/ on_ptt_released
    BY <1>u, <1>n, <2>1
       DEF on_ptt_pressed, on_ptt_released, manager, atis, dialog
  <2>2. CASE submit_text \/ retry_last_transmission
    <3>1. /\ state = "IDLE" /\ UNCHANGED atis_playing
          /\ dispatch_pilot_transcript("PROCESSING", callbacks)
      BY <2>2 DEF submit_text, retry_last_transmission, atis
    <3>2. QED
      BY <1>t, <3>1, AtRest, NotPlaying, DispatchDue
  <2>3. CASE Retune \/ LoaderRegisters \/ Disregard \/ FreshFlight
    BY <1>u, <2>3 DEF Retune, LoaderRegisters, Disregard, FreshFlight,
                      manager, atis, dialog
  <2>4. CASE XPluginDisable \/ XPluginEnable
    BY <1>x, <2>4 DEF XPluginDisable, XPluginEnable
  <2>5. QED
    BY <1>1, <2>1, <2>2, <2>3, <2>4 DEF Events
<1>2. CASE SttCallback \/ LmCallback
  <2>1. /\ Thinking /\ Tail(callbacks) = <<>>
        /\ \A s \in Slots : workers[s] = NoJob
        /\ UNCHANGED atis_playing
    BY <1>2, <1>k, PopOnly DEF SttCallback, LmCallback, QInv, atis
  <2>2. /\ state = "PROCESSING" /\ ~tts_pending /\ ~atis_playing
        /\ ~req.valid
    BY <2>1, NotPlaying DEF Thinking, QInv, Air
  <2>3. CASE SttCallback
    <3>1. CASE dispatch_pilot_transcript(state, Tail(callbacks))
      BY <1>t, <2>1, <2>2, <3>1, DispatchDue
    <3>2. CASE UNCHANGED dialog
      BY <1>i, <2>2, <3>2 DEF dialog
    <3>3. QED
      BY <2>3, <3>1, <3>2 DEF SttCallback
  <2>4. CASE LmCallback
    <3>1. Head(callbacks).snap \in AtcVals
      BY <1>k, <2>4, PopType DEF LmCallback, Callbacks
    <3>2. QED
      BY <1>t, <2>1, <2>2, <2>4, <3>1, EngineDue DEF LmCallback
  <2>5. QED
    BY <1>2, <2>3, <2>4
<1>3. CASE GuardedTtsCallback
  <2>1. CASE dialog_retry_timer' = kDialogRetryDelay
    BY <1>t, <2>1 DEF Due
  <2>2. QED
    BY <1>x, <1>3, <2>1
       DEF GuardedTtsCallback, GuardedCallback, GuardedGiveUp
<1>4. CASE PlainTtsCallback \/ AtisTtsCallback
  BY <1>i, <1>4, OtherVoice DEF PlainTtsCallback, AtisTtsCallback, dialog
<1>5. CASE FinishPlayback
  <2>1. CASE PlaybackOver
    BY <1>i, <1>5, <2>1
       DEF FinishPlayback, PlaybackOver, Due, Answering, dialog
  <2>2. CASE ~PlaybackOver
    BY <1>u, <1>5, <2>2 DEF FinishPlayback, manager, atis, dialog
  <2>3. QED
    BY <2>1, <2>2
<1>6. CASE DialogRetry
  <2>1. CASE dialog_retry_timer = 1 /\ req.valid
    <3>1. /\ ~tts_pending /\ ~atis_playing /\ state = "PLAYING"
      BY <2>1 DEF QInv, RetryHolds
    <3>2. /\ callbacks = <<>> /\ \A s \in Slots : workers[s] = NoJob
      BY <3>1 DEF QInv, Mode, Resting, NoWork, Thinking, Answering, Calling,
                  Broadcasting
    <3>3. dispatch_guarded_tts(<<>>) /\ UNCHANGED <<req, atis_playing>>
      BY <1>6, <2>1, <3>2 DEF DialogRetry, atis
    <3>4. Job("guarded", atc.val) \in Jobs
          /\ Job("guarded", atc.val).kind = "guarded"
      BY <1>t, JobType DEF TypeOK, JobKinds, TtsKinds, Job
    <3>5. Only("guarded")'
      BY <1>t, <3>2, <3>3, <3>4, SubmitOnly
         DEF dispatch_guarded_tts, synthesize_async
    <3>6. QED
      BY <2>1, <3>1, <3>3, <3>5 DEF Due, Answering, dispatch_guarded_tts
  <2>2. CASE dialog_retry_timer > 1
    BY <1>6, <1>t, <2>2 DEF DialogRetry, Due
  <2>3. CASE ~req.valid
    BY <1>i, <1>6, <2>3 DEF DialogRetry
  <2>4. CASE dialog_retry_timer = 0
    BY <1>u, <1>6, <2>4 DEF DialogRetry, manager, atis
  <2>5. QED
    BY <1>t, <2>1, <2>2, <2>3, <2>4
<1>7. CASE BeginFrame \/ AutoCorrect \/ PlaybackDone
  BY <1>u, <1>7 DEF BeginFrame, AutoCorrect, PlaybackDone, manager, atis, dialog
<1>8. CASE PollTraffic \/ AtisTrigger
  BY <1>u, <1>n, <1>8 DEF PollTraffic, AtisTrigger, AtisDue, manager, atis, dialog
<1>9. CASE AtisAbort
  <2>1. CASE atis_playing /\ AbortBroadcast
    BY <1>i, <1>9, <2>1
       DEF AtisAbort, Due, Answering, QInv, RetryHolds, dialog
  <2>2. CASE UNCHANGED <<audio, atis_playing, state>>
    BY <1>u, <1>9, <2>2 DEF AtisAbort, manager, dialog
  <2>3. QED
    BY <1>9, <2>1, <2>2 DEF AtisAbort
<1>10. ASSUME NEW s \in Slots, WorkerDone(s)
       PROVE  Due'
  <2>1. UNCHANGED <<state, tts_pending, atis_playing, req, dialog_retry_timer>>
    BY <1>10 DEF WorkerDone, atis, dialog
  <2>2. Answering => Answering'
    BY <1>10, <2>1, WorkerOnly DEF Answering
  <2>3. QED
    BY <2>1, <2>2 DEF Due
<1>11. QED
  BY <1>1, <1>2, <1>3, <1>4, <1>5, <1>6, <1>7, <1>8, <1>9, <1>10
     DEF Next, Frame

\* The snapshots of what is now with the language model.
Questioned == LmSnapshots(workers, callbacks)

\* Nothing is kept for the model when it has no question, ...
LEMMA NoQuestion ==
    ASSUME NEW w, NEW q,
           \A s \in Slots : w[s] # NoJob => w[s].kind # "lm",
           \A i \in 1..Len(q) : q[i].kind # "lm"
    PROVE  LmSnapshots(w, q) = {}
BY DEF LmSnapshots

\* ... and one snapshot when it has one, with a worker ...
LEMMA QuestionAtWorker ==
    ASSUME NEW w, NEW s \in Slots, w[s] # NoJob, w[s].kind = "lm",
           \A t \in Slots \ {s} : w[t] = NoJob
    PROVE  LmSnapshots(w, <<>>) = {w[s].snap}
<1>1. {t \in Slots : w[t] # NoJob /\ w[t].kind = "lm"} = {s}
  OBVIOUS
<1>2. {j \in 1..Len(<<>>) : <<>>[j].kind = "lm"} = {}
  OBVIOUS
<1>3. QED
  BY <1>1, <1>2 DEF LmSnapshots

\* ... or in the callback queue.
LEMMA QuestionInQueue ==
    ASSUME NEW w, \A t \in Slots : w[t] = NoJob,
           NEW q, Len(q) = 1, q[1].kind = "lm"
    PROVE  LmSnapshots(w, q) = {q[1].snap}
<1>1. {t \in Slots : w[t] # NoJob /\ w[t].kind = "lm"} = {}
  OBVIOUS
<1>2. {j \in 1..Len(q) : q[j].kind = "lm"} = {1}
  OBVIOUS
<1>3. QED
  BY <1>1, <1>2 DEF LmSnapshots

\* A worker that hands over its answer hands over the snapshot with it.
LEMMA WorkerKeepsQuestion ==
    ASSUME TInv, QInv, NEW s \in Slots, WorkerDone(s)
    PROVE  Questioned' = Questioned
<1>1. workers[s] # NoJob
  BY DEF WorkerDone
<1>2. PICK k : Only(k)
  BY <1>1 DEF QInv, Mode, Resting, NoWork, Thinking, Answering, Calling,
              Broadcasting
<1>3. /\ callbacks = <<>> /\ workers[s].kind = k
      /\ \A t \in Slots \ {s} : workers[t] = NoJob
      /\ \A t \in Slots : workers'[t] = NoJob
      /\ Len(callbacks') = 1 /\ callbacks'[1].kind = k
      /\ callbacks'[1].snap = workers[s].snap
  BY <1>2, WorkerOnly
<1>4. CASE k = "lm"
  <2>1. Questioned = {workers[s].snap}
    BY <1>1, <1>3, <1>4, QuestionAtWorker DEF Questioned
  <2>2. Questioned' = {callbacks'[1].snap}
    BY <1>3, <1>4, QuestionInQueue DEF Questioned
  <2>3. QED
    BY <1>3, <2>1, <2>2
<1>5. CASE k # "lm"
  <2>1. Questioned = {}
    BY <1>3, <1>5, NoQuestion DEF Questioned
  <2>2. Questioned' = {}
    BY <1>3, <1>5, NoQuestion DEF Questioned
  <2>3. QED
    BY <2>1, <2>2
<1>6. QED
  BY <1>4, <1>5

\* A job of another kind is no question.
LEMMA OnlyNoQuestion ==
    /\ NoWork => Questioned = {}
    /\ NoWork' => Questioned' = {}
    /\ \A k : k # "lm" /\ Only(k) => Questioned = {}
    /\ \A k : k # "lm" /\ Only(k)' => Questioned' = {}
<1>1. NoWork => Questioned = {}
  BY NoQuestion DEF NoWork, Questioned
<1>2. NoWork' => Questioned' = {}
  BY NoQuestion DEF NoWork, Questioned
<1>3. ASSUME NEW k, k # "lm"
      PROVE  /\ Only(k) => Questioned = {}
             /\ Only(k)' => Questioned' = {}
  <2>1. Only(k) => Questioned = {}
    BY <1>3, NoQuestion DEF Only, AtWorker, AtQueue, Questioned
  <2>2. Only(k)' => Questioned' = {}
    BY <1>3, NoQuestion DEF Only, AtWorker, AtQueue, Questioned
  <2>3. QED
    BY <2>1, <2>2
<1>4. QED
  BY <1>1, <1>2, <1>3

\* What the engine answers at once, or after the model answered, is an Answer:
\* the snapshot it can lose is the one taken when the pilot spoke.
LEMMA EngineAnswers ==
    ASSUME TypeOK, \A s \in Slots : workers[s] = NoJob,
           ~tts_pending, ~atis_playing, UNCHANGED atis_playing, ~req.valid,
           NEW snap \in AtcVals, NEW cleared \in BOOLEAN,
           EngineReply(snap, cleared, <<>>),
           snap \in IF Questioned = {} THEN {atc.val} ELSE Questioned
    PROVE  Promise!Answer
<1>1. Questioned' = {}
  BY EngineMode, OnlyNoQuestion DEF Resting, Answering
<1>2. Unspoken = {}
  BY DEF Unspoken
<1>3. Unspoken' = {} \/ Unspoken' = Promise!Unheard(snap)
  <2>1. PICK after \in Processed :
          /\ atc' = after
          /\ \/ EngineSilent(after, cleared, <<>>)
             \/ speak_response_guarded(after, snap, cleared, <<>>)
    BY DEF EngineReply
  <2>2. CASE EngineSilent(after, cleared, <<>>)
    BY <2>2 DEF EngineSilent, Unspoken
  <2>3. CASE speak_response_guarded(after, snap, cleared, <<>>)
    <3>1. /\ req'.valid = TRUE /\ req'.pre_snap = snap
          /\ req'.expected_gen = atc'.gen
      BY <2>1, <2>3 DEF speak_response_guarded
    <3>2. (atc'.gen # req'.expected_gen) = FALSE
      BY <3>1
    <3>3. QED
      BY <3>1, <3>2 DEF Unspoken, Promise!Unheard
  <2>4. QED
    BY <2>1, <2>2, <2>3
<1>4. QED
  BY <1>1, <1>2, <1>3 DEF Promise!Answer, Questioned

\* A dispatched transcript is answered or asked about.
LEMMA DispatchPromises ==
    ASSUME TypeOK, \A s \in Slots : workers[s] = NoJob, Questioned = {},
           ~tts_pending, ~atis_playing, UNCHANGED atis_playing, ~req.valid,
           NEW st, dispatch_pilot_transcript(st, <<>>)
    PROVE  Promise!Ask \/ Promise!Answer
<1>1. atc.val \in AtcVals
  BY DEF TypeOK
<1>2. CASE EngineReply(atc.val, TRUE, <<>>)
  BY <1>1, <1>2, EngineAnswers
<1>3. CASE AskLm(st, <<>>)
  <2>1. spawn_worker(Job("lm", atc.val), <<>>) /\ UNCHANGED req
    BY <1>3 DEF AskLm
  <2>2. PICK s \in Slots :
          /\ workers' = [workers EXCEPT ![s] = Job("lm", atc.val)]
          /\ callbacks' = <<>>
    BY <2>1 DEF spawn_worker
  <2>3. /\ Job("lm", atc.val) # NoJob /\ Job("lm", atc.val).kind = "lm"
        /\ Job("lm", atc.val).snap = atc.val
    BY <1>1, SessionAssumption DEF Job, Jobs, JobKinds
  <2>4. /\ workers'[s] = Job("lm", atc.val)
        /\ \A t \in Slots \ {s} : workers'[t] = NoJob
    BY <2>2 DEF TypeOK
  <2>5. Questioned' = {atc.val}
    <3>1. LmSnapshots(workers', <<>>) = {workers'[s].snap}
      BY <2>3, <2>4, QuestionAtWorker
    <3>2. QED
      BY <2>2, <2>3, <2>4, <3>1 DEF Questioned
  <2>6. Unspoken = {} /\ Unspoken' = {}
    BY <2>1 DEF Unspoken
  <2>7. QED
    BY <2>5, <2>6 DEF Promise!Ask, Questioned
<1>4. QED
  BY <1>2, <1>3 DEF dispatch_pilot_transcript

\* Whoever else mutates the state machine is noticed by the reply on its way.
LEMMA ForeignNoticed ==
    ASSUME TypeOK, GenTells, ForeignMutation, UNCHANGED req,
           Questioned' = Questioned
    PROVE  Promise!Elsewhere
<1>1. /\ atc'.gen = atc.gen + 1 /\ atc.gen \in Nat
      /\ req.expected_gen \in Nat
  BY DEF ForeignMutation, Mutated, TypeOK, Requests
<1>2. CASE req.valid
  <2>1. (atc'.gen # req.expected_gen) = TRUE
    BY <1>1, <1>2 DEF GenTells
  <2>2. Unspoken' = {[before |-> req.pre_snap, moved |-> TRUE]}
    BY <1>2, <2>1 DEF Unspoken
  <2>3. \A r \in Unspoken : r.before = req.pre_snap
    BY <1>2 DEF Unspoken
  <2>4. Unspoken # {}
    BY <1>2 DEF Unspoken
  <2>5. Unspoken' = {[before |-> r.before, moved |-> TRUE] : r \in Unspoken}
    BY <2>2, <2>3, <2>4
  <2>6. QED
    BY <2>5 DEF Promise!Elsewhere, Questioned
<1>3. CASE ~req.valid
  BY <1>3 DEF Unspoken, Promise!Elsewhere, Questioned
<1>4. QED
  BY <1>2, <1>3

\* The three ends of a synthesis: heard, tried again, given up.
LEMMA GuardedPromise ==
    ASSUME TInv, QInv, Next, GuardedTtsCallback
    PROVE  \/ Promise!Heard \/ Promise!Lost
           \/ UNCHANGED <<atc, req>> /\ Questioned' = Questioned
<1>k. "guarded" \in JobKinds
  BY DEF JobKinds, TtsKinds
<1>1. /\ Pop("guarded") /\ UNCHANGED workers
      /\ callbacks' = Tail(callbacks)
  BY DEF GuardedTtsCallback
<1>2. /\ Answering /\ Tail(callbacks) = <<>>
      /\ \A s \in Slots : workers[s] = NoJob
  BY <1>k, <1>1, PopOnly DEF QInv
<1>3. Questioned = {} /\ Questioned' = {}
  BY <1>1, <1>2, OnlyNoQuestion DEF Answering, NoWork
<1>4. req.valid /\ req \in Requests
  BY <1>2 DEF Answering, TInv, TypeOK
<1>5. Unspoken = {[before |-> req.pre_snap, moved |-> atc.gen # req.expected_gen]}
  BY <1>4 DEF Unspoken
<1>6. CASE req' = [req EXCEPT !.valid = FALSE] /\ UNCHANGED atc
  <2>1. Unspoken' = {}
    BY <1>4, <1>6 DEF Unspoken, Requests
  <2>2. QED
    BY <1>3, <1>5, <1>6, <2>1 DEF Promise!Heard, Questioned
<1>7. CASE UNCHANGED <<atc, req>>
  BY <1>3, <1>7
<1>8. CASE \E blocked : GuardedGiveUp(blocked)
  <2>1. req' = [req EXCEPT !.valid = FALSE] /\ restore_snapshot_if_gen
    BY <1>8 DEF GuardedGiveUp
  <2>2. Unspoken' = {}
    BY <1>4, <2>1 DEF Unspoken, Requests
  <2>3. atc'.val = IF atc.gen # req.expected_gen THEN atc.val ELSE req.pre_snap
    BY <2>1 DEF restore_snapshot_if_gen, Mutated
  <2>4. QED
    BY <1>3, <1>5, <2>2, <2>3 DEF Promise!Lost, Questioned
<1>9. QED
  BY <1>6, <1>7, <1>8 DEF GuardedTtsCallback, GuardedCallback

\* Every step of an uninterrupted session is a step of UnheardReply, or leaves
\* what that specification speaks about alone.
LEMMA PromiseStep ==
    ASSUME Quiet, TInv, QInv, QInv', GenTells, Due, Next
    PROVE  [Promise!UNext]_(Promise!uvars)
<1>t. TypeOK /\ req \in Requests /\ callbacks \in Seq(Callbacks)
  BY DEF TInv, TypeOK
<1>s. ASSUME UNCHANGED <<atc, req>>, Questioned' = Questioned
      PROVE  [Promise!UNext]_(Promise!uvars)
  BY <1>s DEF Promise!uvars, Unspoken, Questioned
<1>x. ASSUME UNCHANGED atc, ~req.valid, req' = [req EXCEPT !.valid = FALSE],
             Questioned' = Questioned
      PROVE  [Promise!UNext]_(Promise!uvars)
  BY <1>t, <1>x DEF Promise!uvars, Unspoken, Questioned, Requests
<1>m. ASSUME UNCHANGED <<workers, callbacks>>
      PROVE  Questioned' = Questioned
  BY <1>m DEF Questioned
<1>f. ASSUME ForeignMutation, UNCHANGED <<workers, callbacks, req>>
      PROVE  [Promise!UNext]_(Promise!uvars)
  BY <1>t, <1>m, <1>f, ForeignNoticed DEF Promise!UNext
<1>r. state \in {"IDLE", "RECORDING"} => Questioned = {}
  BY AtRest, OnlyNoQuestion DEF Resting
<1>y. ASSUME state' = "PLAYING"
      PROVE  Questioned' = {}
  BY <1>y, OnlyNoQuestion
     DEF QInv, Mode, Resting, Thinking, Answering, Calling, Broadcasting
<1>k. {"stt", "lm", "guarded", "plain", "atis"} = JobKinds
  BY DEF JobKinds, TtsKinds
<1>1. CASE Events
  <2>1. CASE on_ptt_pressed \/ Retune \/ LoaderRegisters
    BY <1>s, <1>m, <2>1
       DEF on_ptt_pressed, Retune, LoaderRegisters, manager, dialog
  <2>2. CASE on_ptt_released
    <3>1. UNCHANGED <<atc, req>>
      BY <2>2 DEF on_ptt_released, dialog
    <3>2. CASE UNCHANGED manager
      BY <1>s, <1>m, <3>1, <3>2 DEF manager
    <3>3. CASE state = "RECORDING" /\ transcribe_async(callbacks)
      <4>1. Job("stt", atc.val) \in Jobs /\ Job("stt", atc.val).kind = "stt"
        BY <1>t, JobType DEF TypeOK, JobKinds, Job
      <4>2. Only("stt")'
        BY <1>t, <3>3, <4>1, AtRest, SubmitOnly DEF transcribe_async
      <4>3. Questioned = {} /\ Questioned' = {}
        BY <1>r, <3>3, <4>2, OnlyNoQuestion
      <4>4. QED
        BY <1>s, <3>1, <4>3
    <3>4. QED
      BY <2>2, <3>2, <3>3 DEF on_ptt_released
  <2>3. CASE submit_text \/ retry_last_transmission
    <3>1. /\ state = "IDLE" /\ UNCHANGED atis_playing
          /\ dispatch_pilot_transcript("PROCESSING", callbacks)
      BY <2>3 DEF submit_text, retry_last_transmission, atis
    <3>2. Promise!Ask \/ Promise!Answer
      BY <1>t, <1>r, <3>1, AtRest, NotPlaying, DispatchPromises
    <3>3. QED
      BY <3>2 DEF Promise!UNext
  <2>4. CASE FreshFlight \/ Disregard
    BY <1>s, <1>m, <1>f, <2>4 DEF FreshFlight, Disregard, manager, dialog
  <2>5. CASE XPluginDisable \/ XPluginEnable
    <3>1. state = "IDLE"
      BY <2>5 DEF XPluginDisable, XPluginEnable, Quiet, NothingOutstanding,
                  QInv, Disabled
    <3>2. ~req.valid
      BY <3>1, NotPlaying
    <3>3. QED
      BY <1>x, <1>m, <2>5, <3>2 DEF XPluginDisable, XPluginEnable, manager
  <2>6. QED
    BY <1>1, <2>1, <2>2, <2>3, <2>4, <2>5 DEF Events
<1>2. CASE SttCallback \/ LmCallback
  <2>1. /\ Thinking /\ Tail(callbacks) = <<>>
        /\ \A s \in Slots : workers[s] = NoJob
        /\ UNCHANGED atis_playing
    BY <1>2, <1>k, PopOnly DEF SttCallback, LmCallback, QInv, atis
  <2>2. /\ state = "PROCESSING" /\ ~tts_pending /\ ~atis_playing
        /\ ~req.valid
    BY <2>1, NotPlaying DEF Thinking, QInv, Air
  <2>3. ASSUME NEW kind \in JobKinds, Pop(kind)
        PROVE  AtQueue(kind) /\ Head(callbacks) = callbacks[1]
    BY <2>1, <2>3, PopType DEF Thinking, Only, AtWorker, AtQueue
  <2>4. CASE SttCallback
    <3>1. Questioned = {}
      <4>1. AtQueue("stt")
        BY <1>k, <2>3, <2>4 DEF SttCallback
      <4>2. QED
        BY <4>1, OnlyNoQuestion DEF Only
    <3>2. CASE dispatch_pilot_transcript(state, Tail(callbacks))
      BY <1>t, <2>1, <2>2, <3>1, <3>2, DispatchPromises DEF Promise!UNext
    <3>3. CASE callbacks' = Tail(callbacks) /\ UNCHANGED <<workers, dialog, atc>>
      <4>1. Questioned' = {}
        BY <2>1, <3>3, OnlyNoQuestion DEF NoWork
      <4>2. QED
        BY <1>s, <3>1, <3>3, <4>1 DEF dialog
    <3>4. QED
      BY <2>4, <3>2, <3>3 DEF SttCallback
  <2>5. CASE LmCallback
    <3>1. Head(callbacks).snap \in AtcVals
      BY <1>k, <2>5, PopType DEF LmCallback, Callbacks
    <3>2. Questioned = {Head(callbacks).snap}
      BY <1>k, <2>3, <2>5, QuestionInQueue DEF LmCallback, AtQueue, Questioned
    <3>3. EngineReply(Head(callbacks).snap, FALSE, <<>>)
      BY <2>1, <2>5 DEF LmCallback
    <3>4. Promise!Answer
      BY <1>t, <2>1, <2>2, <3>1, <3>2, <3>3, EngineAnswers
    <3>5. QED
      BY <3>4 DEF Promise!UNext
  <2>6. QED
    BY <1>2, <2>4, <2>5
<1>3. CASE GuardedTtsCallback
  BY <1>s, <1>3, GuardedPromise DEF Promise!UNext
<1>4. CASE PlainTtsCallback \/ AtisTtsCallback
  <2>1. UNCHANGED <<atc, req, workers>> /\ callbacks' = Tail(callbacks)
    BY <1>4 DEF PlainTtsCallback, AtisTtsCallback, dialog
  <2>2. /\ \A s \in Slots : workers[s] = NoJob
        /\ Tail(callbacks) = <<>> /\ (Calling \/ Broadcasting)
    BY <1>4, <1>k, PopOnly DEF PlainTtsCallback, AtisTtsCallback, QInv
  <2>3. Questioned = {} /\ Questioned' = {}
    BY <2>1, <2>2, OnlyNoQuestion DEF Calling, Broadcasting, NoWork
  <2>4. QED
    BY <1>s, <2>1, <2>3
<1>5. CASE DialogRetry
  <2>1. UNCHANGED <<atc, req>>
    BY <1>5 DEF DialogRetry
  <2>2. CASE dialog_retry_timer = 1
    <3>1. state = "PLAYING" /\ ~tts_pending
      BY <2>2 DEF QInv, RetryHolds
    <3>2. NoWork
      BY <3>1 DEF QInv, Mode, Resting, Thinking, Answering, Calling,
                  Broadcasting
    <3>3. Questioned = {} /\ (state' = "PLAYING" => Questioned' = {})
      BY <1>y, <3>2, OnlyNoQuestion
    <3>4. state' = "PLAYING"
      BY <1>5, <3>1 DEF DialogRetry, dispatch_guarded_tts
    <3>5. QED
      BY <1>s, <2>1, <3>3, <3>4
  <2>3. CASE dialog_retry_timer # 1
    BY <1>s, <1>m, <1>5, <2>1, <2>3 DEF DialogRetry, manager
  <2>4. QED
    BY <2>2, <2>3
<1>6. CASE BeginFrame \/ AutoCorrect
  BY <1>s, <1>m, <1>f, <1>6 DEF BeginFrame, AutoCorrect, manager, dialog
<1>7. CASE PollTraffic \/ AtisTrigger
  <2>1. UNCHANGED <<atc, req>>
    BY <1>7 DEF PollTraffic, AtisTrigger, dialog
  <2>2. CASE UNCHANGED manager
    BY <1>s, <1>m, <2>1, <2>2 DEF manager
  <2>3. CASE state = "IDLE" /\ state' = "PLAYING"
    BY <1>s, <1>r, <1>y, <2>1, <2>3
  <2>4. QED
    BY <1>7, <2>2, <2>3 DEF PollTraffic, AtisTrigger, AtisDue
<1>8. CASE FinishPlayback \/ AtisAbort \/ PlaybackDone
  BY <1>s, <1>m, <1>8 DEF FinishPlayback, AtisAbort, PlaybackDone, manager, dialog
<1>9. CASE \E s \in Slots : WorkerDone(s)
  BY <1>s, <1>9, WorkerKeepsQuestion DEF WorkerDone, dialog
<1>10. QED
  BY <1>1, <1>2, <1>3, <1>4, <1>5, <1>6, <1>7, <1>8, <1>9 DEF Next, Frame

\* The uninterrupted session implements UnheardReply: a reply that cannot be
\* spoken takes the state machine back to where it was before the pilot spoke,
\* and takes nothing else back (speak_response_guarded, dispatch_guarded_tts,
\* restore_snapshot_if_gen), through rule path, language model and retries.
THEOREM SessionPromise == Spec /\ Quiet => SessionKeepsPromise
<1> SUFFICES ASSUME Quiet PROVE Spec => SessionKeepsPromise
  OBVIOUS
<1>1. Init => Promise!UInit /\ Due
  <2> SUFFICES ASSUME Init PROVE Promise!UInit /\ Due
    OBVIOUS
  <2>1. LmSnapshots(workers, callbacks) = {}
    BY NoQuestion DEF Init
  <2>2. QED
    BY <2>1 DEF Init, Unspoken, Due, Promise!UInit
<1>2. TInv /\ QInv /\ Due /\ [Next]_vars => Due'
  BY DueStep DEF Due, Answering, Only, AtWorker, AtQueue, vars
<1>3. TInv /\ QInv /\ QInv' /\ GenTells /\ Due /\ [Next]_vars
        => [Promise!UNext]_(Promise!uvars)
  <2>1. ASSUME UNCHANGED vars
        PROVE  UNCHANGED Promise!uvars
    BY <2>1 DEF vars, Promise!uvars, Unspoken
  <2>2. QED
    BY <2>1, PromiseStep
<1>4. Spec => [](TInv /\ QInv)
  BY QInvariant
<1>5. QED
  BY <1>1, <1>2, <1>3, <1>4, GenInvariant, PTL
     DEF Spec, SessionKeepsPromise, Promise!USpec
=============================================================================
