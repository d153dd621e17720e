------------------------ MODULE BackendManagerProofs ------------------------
(***************************************************************************)
(* Proofs about the backend manager, for every set of requests, providers, *)
(* voices and entry points: one answer per request, an honest verdict and  *)
(* a clean stop.                                                           *)
(***************************************************************************)
EXTENDS BackendManager, TLAPS

(***************************************************************************)
(* Types.                                                                  *)
(***************************************************************************)

Bodies == {"text", "empty", "error", "policy"} \union LmBodies \union TtsBodies
Result == [ok : BOOLEAN, value : Bodies \union {"none", "audio"}, blocked : BOOLEAN]
Job == [pc : {"idle", "spawned", "calling", "queued", "delivered", "dropped"},
        op : AllOps \union {"none"}, inst : Providers \union {None},
        voice : Voices \union {""}, res : Result,
        truth : {"none", "answered", "rejected", "failed"}]
Callback == [req : Requests, res : Result]

TypeOK ==
    /\ registry \in [Stages -> Providers \union {None}]
    /\ job \in [Requests -> Job]
    /\ callbacks \in Seq(Callback)
    /\ local \in Seq(Callback)
    /\ phase \in {"up", "stopping", "stopped"}
    /\ forced \in BOOLEAN

LEMMA FailureType ==
    /\ \A v \in {"none", "_INVALID"} : Failure(v) \in Result
    /\ \A op : NotLoaded(op) \in Result
  BY DEF Failure, NotLoaded, Result, Bodies, LmBodies

LEMMA NoJobType == NoJob \in Job
  BY FailureType DEF NoJob, Job

LEMMA StageType == \A op : Stage(op) \in Stages
  BY DEF Stage, Stages

LEMMA VerdictFields ==
    ASSUME NEW x \in BOOLEAN, NEW v, NEW y \in BOOLEAN
    PROVE  LET res == [ok |-> x, value |-> v, blocked |-> y]
           IN  res.ok = x /\ res.blocked = y
  OBVIOUS

\* What a provider can send back, split into the three ways a call ends.
LEMMA ReplyShape ==
    ASSUME NEW op, NEW p, NEW reply \in Replies(op, p)
    PROVE  /\ reply.rc \in {"ok", "error"} /\ reply.body \in Bodies
           /\ p = "local" /\ reply.rc = "ok" => HttpOk(reply)
           /\ HttpOk(reply) /\ Stage(op) = "lm" => reply.body \in LmBodies \union {"empty"}
           /\ reply.http = 403 => ~HttpOk(reply)
  BY DEF Replies, HttpOk, Bodies, LmBodies, TtsBodies

\* What the worker reports is a result, and it agrees with what the provider did.
LEMMA CallIsHonest ==
    ASSUME NEW op \in AllOps, NEW p, NEW v, NEW reply \in Replies(op, p)
    PROVE  LET res == CallResult(op, p, v, reply)
           IN  /\ res \in Result
               /\ res.ok => Truth(reply) = "answered"
               /\ res.blocked => ~res.ok /\ Truth(reply) = "rejected"
               /\ op = "repair" /\ res.ok => res.value \in {"listed", "_INVALID"}
  <1> DEFINE text == IF p = "local" THEN WhisperTranscribe(reply)
                     ELSE IF p = "openai" THEN OpenAiTranscribe(reply) ELSE MistralTranscribe(reply)
             raw  == IF p = "local" THEN LlamaRespond(reply)
                     ELSE IF p = "openai" THEN OpenAiRespond(reply) ELSE MistralRespond(reply)
             a    == IF p = "local" THEN PiperSynthesize(v, reply)
                     ELSE IF p = "openai" THEN OpenAiSynthesize(v, reply)
                     ELSE MistralSynthesize(v, reply)
             res  == CallResult(op, p, v, reply)
  <1>1. res = IF op = "transcribe" THEN TranscriptResult(text)
              ELSE IF op = "respond" THEN TranscriptResult(raw)
              ELSE IF op = "repair" THEN ClassifyResult(raw)
              ELSE IF op = "classify" THEN FirstToken(raw)
              ELSE AudioResult(a)
    BY DEF CallResult
  <1>2. /\ text \in Bodies /\ raw \in Bodies
        /\ text # "empty" \/ raw # "empty" => HttpOk(reply)
    BY ReplyShape DEF WhisperTranscribe, OpenAiTranscribe, MistralTranscribe, LlamaRespond,
       OpenAiRespond, MistralRespond, HttpText, Bodies
  <1>3. Stage(op) = "lm" => raw \in LmBodies \union {"empty"}
    BY ReplyShape DEF LlamaRespond, OpenAiRespond, MistralRespond, HttpText
  <1>4. /\ a.pcm \in BOOLEAN /\ a.rate \in Nat /\ a.fail \in {"None", "Transient", "ContentBlocked"}
        /\ a.pcm /\ a.rate > 0 => HttpOk(reply)
        /\ a.fail = "ContentBlocked" => ~a.pcm /\ ~HttpOk(reply)
                                        /\ (reply.http = 403 \/ reply.body = "policy")
    <2>1. CASE p = "local"
      BY <2>1, ReplyShape DEF PiperSynthesize, Silent
    <2>2. CASE p # "local" /\ p = "openai"
      BY <2>2 DEF OpenAiSynthesize, Silent, HttpOk, wav_to_pcm_int16
    <2>3. CASE p # "local" /\ p # "openai"
      BY <2>3 DEF MistralSynthesize, Silent, HttpOk, wav_to_pcm_int16
    <2> QED BY <2>1, <2>2, <2>3
  <1> HIDE DEF text, raw, a
  <1>5. CASE op = "transcribe"
    BY <1>1, <1>2, <1>5 DEF TranscriptResult, Failure, Result, Truth
  <1>6. CASE op = "respond"
    BY <1>1, <1>2, <1>6 DEF TranscriptResult, Failure, Result, Truth
  <1>7. CASE op = "repair"
    <2>1. Stage(op) = "lm"
      BY <1>7 DEF Stage
    <2> QED BY <1>1, <1>2, <1>3, <1>7, <2>1 DEF ClassifyResult, Failure, Result, Truth, LmBodies, Bodies
  <1>8. CASE op = "classify"
    BY <1>1, <1>2, <1>8 DEF FirstToken, Failure, Result, Truth, Bodies, LmBodies
  <1>9. CASE op = "synthesize"
    <2>1. res = AudioResult(a)
      BY <1>1, <1>9
    <2>2. (a.pcm /\ a.rate > 0) \in BOOLEAN /\ (a.fail = "ContentBlocked") \in BOOLEAN
      OBVIOUS
    <2>3. res \in Result
      BY <2>1, <2>2 DEF AudioResult, Result
    <2>4. /\ res.ok = (a.pcm /\ a.rate > 0)
          /\ res.blocked = (a.fail = "ContentBlocked")
      BY <2>1, <2>2, VerdictFields DEF AudioResult
    <2> QED BY <1>4, <1>9, <2>3, <2>4 DEF Truth
  <1> QED BY <1>5, <1>6, <1>7, <1>8, <1>9 DEF AllOps

(***************************************************************************)
(* The inductive invariant.                                                *)
(***************************************************************************)

\* A worker knows which entry point it serves.
WorkersHaveOp == \A r \in Requests : InFlight(r) => job[r].op \in AllOps

\* stop() starts between two drains and nothing drains after it; once it returned
\* in time, no worker is left and the queue stays empty.
StopInv ==
    /\ phase # "up" => local = <<>>
    /\ phase = "stopped" /\ ~forced => ActiveWorkers = {} /\ callbacks = <<>>

Inv == TypeOK /\ WorkersHaveOp /\ OneAnswer /\ HonestVerdict /\ StopInv

\* The request numbers of two queues, seen as one.
PendingOf(a, b) == [i \in 1 .. Len(a \o b) |-> (a \o b)[i].req]

LEMMA PendingShape ==
    ASSUME NEW a \in Seq(Callback), NEW b \in Seq(Callback)
    PROVE  /\ DOMAIN PendingOf(a, b) = 1 .. (Len(a) + Len(b))
           /\ \A i \in 1 .. Len(a) : PendingOf(a, b)[i] = a[i].req
           /\ \A i \in Len(a) + 1 .. Len(a) + Len(b) : PendingOf(a, b)[i] = b[i - Len(a)].req
  <1> DEFINE Q == a \o b
  <1>1. /\ Len(Q) = Len(a) + Len(b) /\ Len(a) \in Nat /\ Len(b) \in Nat
        /\ \A i \in 1 .. Len(Q) : Q[i] = IF i <= Len(a) THEN a[i] ELSE b[i - Len(a)]
    OBVIOUS
  <1>2. \A i \in 1 .. Len(Q) : PendingOf(a, b)[i] = Q[i].req
    BY DEF PendingOf
  <1>3. DOMAIN PendingOf(a, b) = 1 .. Len(Q)
    BY DEF PendingOf
  <1> HIDE DEF Q
  <1>4. ASSUME NEW i \in 1 .. Len(a) PROVE PendingOf(a, b)[i] = a[i].req
    <2>1. i \in 1 .. Len(Q) /\ i <= Len(a)
      BY <1>1
    <2> QED BY <1>1, <1>2, <2>1
  <1>5. ASSUME NEW i \in Len(a) + 1 .. Len(a) + Len(b) PROVE PendingOf(a, b)[i] = b[i - Len(a)].req
    <2>1. i \in 1 .. Len(Q) /\ ~(i <= Len(a))
      BY <1>1
    <2> QED BY <1>1, <1>2, <2>1
  <1> QED BY <1>1, <1>3, <1>4, <1>5

\* enqueue_callback for a request that has no callback waiting.
LEMMA EnqueueKeepsOneAnswer ==
    ASSUME TypeOK, OneAnswer, NEW r \in Requests, NEW j \in Job, NEW res \in Result,
           job[r].pc # "queued", j.pc = "queued",
           job' = [job EXCEPT ![r] = j], enqueue_callback(r, res), local' = local
    PROVE  OneAnswer' /\ callbacks' \in Seq(Callback)
  <1> DEFINE n == Len(local) + Len(callbacks)
  <1>0. local \in Seq(Callback) /\ callbacks \in Seq(Callback) /\ job \in [Requests -> Job]
    BY DEF TypeOK
  <1>1. /\ callbacks' \in Seq(Callback) /\ Len(callbacks') = Len(callbacks) + 1
        /\ \A i \in 1 .. Len(callbacks) : callbacks'[i] = callbacks[i]
        /\ callbacks'[Len(callbacks) + 1].req = r
    BY <1>0 DEF enqueue_callback, Callback
  <1>2. local' \in Seq(Callback) /\ Len(local) \in Nat /\ Len(callbacks) \in Nat
    BY <1>0
  <1>3. /\ DOMAIN Pending = 1 .. n
        /\ \A i \in 1 .. Len(local) : Pending[i] = local[i].req
        /\ \A i \in Len(local) + 1 .. n : Pending[i] = callbacks[i - Len(local)].req
    BY <1>0, PendingShape DEF Pending, PendingOf
  <1>4. /\ DOMAIN Pending' = 1 .. n + 1
        /\ \A i \in 1 .. Len(local) : Pending'[i] = local[i].req
        /\ \A i \in Len(local) + 1 .. n + 1 : Pending'[i] = callbacks'[i - Len(local)].req
    <2>1. /\ DOMAIN Pending' = 1 .. (Len(local') + Len(callbacks'))
          /\ \A i \in 1 .. Len(local') : Pending'[i] = local'[i].req
          /\ \A i \in Len(local') + 1 .. Len(local') + Len(callbacks') :
               Pending'[i] = callbacks'[i - Len(local')].req
      BY <1>1, <1>2, PendingShape DEF Pending, PendingOf
    <2> QED BY <1>1, <1>2, <2>1
  <1>5. /\ \A i \in 1 .. n : Pending'[i] = Pending[i]
        /\ Pending'[n + 1] = r
    <2>1. ASSUME NEW i \in 1 .. n PROVE Pending'[i] = Pending[i]
      <3>1. CASE i \in 1 .. Len(local)
        BY <1>3, <1>4, <3>1
      <3>2. CASE i \in Len(local) + 1 .. n
        <4>1. i - Len(local) \in 1 .. Len(callbacks) /\ i \in Len(local) + 1 .. n + 1
          BY <1>2, <3>2
        <4> QED BY <1>1, <1>3, <1>4, <3>2, <4>1
      <3> QED BY <1>2, <3>1, <3>2
    <2>2. Pending'[n + 1] = r
      <3>1. n + 1 \in Len(local) + 1 .. n + 1 /\ (n + 1) - Len(local) = Len(callbacks) + 1
        BY <1>2
      <3> QED BY <1>1, <1>4, <3>1
    <2> QED BY <2>1, <2>2
  <1>6. \A i \in DOMAIN Pending : Pending[i] # r
    BY DEF OneAnswer
  <1>7. \A q \in Requests : (job'[q].pc = "queued") <=> (\E i \in DOMAIN Pending' : Pending'[i] = q)
    <2> TAKE q \in Requests
    <2>1. CASE q = r
      BY <1>0, <1>2, <1>4, <1>5, <2>1
    <2>2. CASE q # r
      <3>1. job'[q] = job[q]
        BY <1>0, <2>2
      <3>2. ASSUME NEW i \in DOMAIN Pending', Pending'[i] = q
            PROVE  i \in DOMAIN Pending /\ Pending[i] = q
        <4>1. i \in 1 .. n + 1 /\ i # n + 1
          BY <1>4, <1>5, <2>2, <3>2
        <4>2. i \in 1 .. n
          BY <1>2, <4>1
        <4> QED BY <1>3, <1>5, <3>2, <4>2
      <3>3. ASSUME NEW i \in DOMAIN Pending, Pending[i] = q
            PROVE  i \in DOMAIN Pending' /\ Pending'[i] = q
        BY <1>2, <1>3, <1>4, <1>5, <3>3
      <3> QED BY <3>1, <3>2, <3>3 DEF OneAnswer
    <2> QED BY <2>1, <2>2
  <1>8. \A i, k \in DOMAIN Pending' : Pending'[i] = Pending'[k] => i = k
    BY <1>2, <1>3, <1>4, <1>5, <1>6 DEF OneAnswer
  <1> QED BY <1>1, <1>7, <1>8 DEF OneAnswer

LEMMA RunKeepsOneAnswer ==
    ASSUME TypeOK, OneAnswer, RunCallback
    PROVE  OneAnswer' /\ local' \in Seq(Callback) /\ Head(local) \in Callback
  <1> DEFINE n == Len(local) + Len(callbacks)
             r == Head(local).req
  <1>0. local \in Seq(Callback) /\ callbacks \in Seq(Callback) /\ job \in [Requests -> Job]
    BY DEF TypeOK
  <1>1. /\ local # <<>> /\ local' = Tail(local) /\ callbacks' = callbacks
        /\ job' = [job EXCEPT ![r] = [NoJob EXCEPT !.pc = "delivered"]]
    BY DEF RunCallback
  <1>2. /\ Head(local) = local[1] /\ Head(local) \in Callback /\ Len(local) \in Nat /\ Len(local) > 0
        /\ local' \in Seq(Callback) /\ Len(local') = Len(local) - 1
        /\ \A i \in 1 .. Len(local) - 1 : local'[i] = local[i + 1]
        /\ Len(callbacks) \in Nat /\ r \in Requests
    <2>1. /\ Head(local) = local[1] /\ Head(local) \in Callback
          /\ Len(local) \in Nat /\ Len(local) > 0 /\ Len(callbacks) \in Nat
      BY <1>0, <1>1
    <2>2. /\ Tail(local) \in Seq(Callback) /\ Len(Tail(local)) = Len(local) - 1
          /\ \A i \in 1 .. Len(local) - 1 : Tail(local)[i] = local[i + 1]
      BY <1>0, <1>1
    <2>3. r \in Requests
      BY <2>1 DEF Callback
    <2> QED BY <1>1, <2>1, <2>2, <2>3
  <1>3. /\ DOMAIN Pending = 1 .. n
        /\ \A i \in 1 .. Len(local) : Pending[i] = local[i].req
        /\ \A i \in Len(local) + 1 .. n : Pending[i] = callbacks[i - Len(local)].req
    BY <1>0, PendingShape DEF Pending, PendingOf
  <1>4. /\ DOMAIN Pending' = 1 .. n - 1
        /\ \A i \in 1 .. Len(local) - 1 : Pending'[i] = local'[i].req
        /\ \A i \in Len(local) .. n - 1 : Pending'[i] = callbacks[i - Len(local) + 1].req
    <2>1. /\ DOMAIN Pending' = 1 .. (Len(local') + Len(callbacks'))
          /\ \A i \in 1 .. Len(local') : Pending'[i] = local'[i].req
          /\ \A i \in Len(local') + 1 .. Len(local') + Len(callbacks') :
               Pending'[i] = callbacks'[i - Len(local')].req
      BY <1>0, <1>1, <1>2, PendingShape DEF Pending, PendingOf
    <2> QED BY <1>1, <1>2, <2>1
  <1>5. /\ \A i \in 1 .. n - 1 : Pending'[i] = Pending[i + 1]
        /\ Pending[1] = r
    <2>1. ASSUME NEW i \in 1 .. n - 1 PROVE Pending'[i] = Pending[i + 1]
      <3>1. CASE i \in 1 .. Len(local) - 1
        BY <1>2, <1>3, <1>4, <3>1
      <3>2. CASE i \in Len(local) .. n - 1
        <4>1. /\ i + 1 \in Len(local) + 1 .. n
              /\ (i + 1) - Len(local) = i - Len(local) + 1
          BY <1>2, <3>2
        <4> QED BY <1>3, <1>4, <3>2, <4>1
      <3> QED BY <1>2, <3>1, <3>2
    <2>2. Pending[1] = r
      BY <1>2, <1>3
    <2> QED BY <2>1, <2>2
  <1>6. \A i \in 2 .. n : Pending[i] # r
    <2> TAKE i \in 2 .. n
    <2>1. i \in DOMAIN Pending /\ 1 \in DOMAIN Pending /\ i # 1
      BY <1>2, <1>3
    <2>2. Pending[i] # Pending[1]
      BY <2>1 DEF OneAnswer
    <2> QED BY <1>5, <2>2
  <1>7. \A q \in Requests : (job'[q].pc = "queued") <=> (\E i \in DOMAIN Pending' : Pending'[i] = q)
    <2> TAKE q \in Requests
    <2>1. CASE q = r
      <3>1. job'[q].pc # "queued"
        BY <1>0, <1>1, <1>2, <2>1 DEF NoJob
      <3>2. \A i \in DOMAIN Pending' : Pending'[i] # q
        BY <1>2, <1>4, <1>5, <1>6, <2>1
      <3> QED BY <3>1, <3>2
    <2>2. CASE q # r
      <3>1. job'[q] = job[q]
        BY <1>0, <1>1, <2>2
      <3>2. ASSUME NEW i \in DOMAIN Pending, Pending[i] = q
            PROVE  i - 1 \in DOMAIN Pending' /\ Pending'[i - 1] = q
        BY <1>2, <1>3, <1>4, <1>5, <2>2, <3>2
      <3>3. ASSUME NEW i \in DOMAIN Pending', Pending'[i] = q
            PROVE  i + 1 \in DOMAIN Pending /\ Pending[i + 1] = q
        BY <1>2, <1>3, <1>4, <1>5, <3>3
      <3> QED BY <3>1, <3>2, <3>3 DEF OneAnswer
    <2> QED BY <2>1, <2>2
  <1>8. ASSUME NEW i \in DOMAIN Pending', NEW k \in DOMAIN Pending', Pending'[i] = Pending'[k]
        PROVE  i = k
    <2>1. /\ i + 1 \in DOMAIN Pending /\ k + 1 \in DOMAIN Pending
          /\ Pending[i + 1] = Pending[k + 1]
      BY <1>2, <1>3, <1>4, <1>5, <1>8
    <2>2. i + 1 = k + 1
      BY <2>1 DEF OneAnswer
    <2> QED BY <1>2, <1>4, <2>2
  <1> QED BY <1>2, <1>7, <1>8 DEF OneAnswer

LEMMA InitInv == Init => Inv
  <1> SUFFICES ASSUME Init PROVE Inv
    OBVIOUS
  <1>1. /\ job = [r \in Requests |-> NoJob] /\ local = <<>> /\ callbacks = <<>>
        /\ registry = [s \in Stages |-> None] /\ phase = "up" /\ forced = FALSE
    BY DEF Init
  <1>2. TypeOK
    <2>1. job \in [Requests -> Job]
      BY <1>1, NoJobType
    <2>2. local \in Seq(Callback) /\ callbacks \in Seq(Callback)
      BY <1>1
    <2> QED BY <1>1, <2>1, <2>2 DEF TypeOK
  <1>3. \A r \in Requests : job[r].pc = "idle"
    BY <1>1 DEF NoJob
  <1>4. DOMAIN Pending = {}
    <2>1. DOMAIN Pending = 1 .. Len(local) + Len(callbacks)
      BY <1>2, PendingShape DEF TypeOK, Pending, PendingOf
    <2> QED BY <1>1, <2>1
  <1> QED BY <1>1, <1>2, <1>3, <1>4
          DEF Inv, WorkersHaveOp, InFlight, OneAnswer, HonestVerdict, StopInv

\* A step that leaves requests and queues alone.
LEMMA QuietStep ==
    ASSUME Inv, UNCHANGED <<job, callbacks, local, phase, forced>>,
           registry' \in [Stages -> Providers \union {None}]
    PROVE  Inv'
  <1>1. TypeOK'
    BY DEF Inv, TypeOK
  <1>2. Pending' = Pending
    BY DEF Pending
  <1> QED BY <1>1, <1>2 DEF Inv, WorkersHaveOp, InFlight, OneAnswer, HonestVerdict, StopInv, ActiveWorkers

\* A request is answered at once, or its worker reports: one callback is enqueued.
LEMMA EnqueueStep ==
    ASSUME Inv, NEW r \in Requests, NEW j \in Job,
           job[r].pc # "queued", j.pc = "queued",
           job' = [job EXCEPT ![r] = j], enqueue_callback(r, j.res),
           j.res.ok => j.truth = "answered",
           j.res.blocked => ~j.res.ok /\ j.truth = "rejected",
           j.op = "repair" /\ j.res.ok => j.res.value \in {"listed", "_INVALID"},
           phase # "stopped" \/ InFlight(r),
           UNCHANGED <<registry, local, phase, forced>>
    PROVE  Inv'
  <1>1. TypeOK /\ OneAnswer /\ job \in [Requests -> Job] /\ j.res \in Result
    BY DEF Inv, TypeOK, Job
  <1>2. OneAnswer' /\ callbacks' \in Seq(Callback)
    BY <1>1, EnqueueKeepsOneAnswer
  <1>3. job' \in [Requests -> Job] /\ job'[r] = j
        /\ \A q \in Requests \ {r} : job'[q] = job[q]
    BY <1>1
  <1>4. TypeOK'
    BY <1>1, <1>2, <1>3 DEF TypeOK
  <1>5. WorkersHaveOp'
    BY <1>3 DEF Inv, WorkersHaveOp, InFlight
  <1>6. HonestVerdict'
    <2> SUFFICES ASSUME NEW q \in Requests, job'[q].pc = "queued"
                 PROVE  LET k == job'[q] IN
                        /\ k.res.ok => k.truth = "answered"
                        /\ k.res.blocked => ~k.res.ok /\ k.truth = "rejected"
                        /\ k.op = "repair" /\ k.res.ok => k.res.value \in {"listed", "_INVALID"}
      BY DEF HonestVerdict
    <2>1. CASE q = r
      BY <1>3, <2>1
    <2>2. CASE q # r
      BY <1>3, <2>2 DEF Inv, HonestVerdict
    <2> QED BY <2>1, <2>2
  <1>7. StopInv'
    BY <1>3 DEF Inv, StopInv, ActiveWorkers
  <1> QED BY <1>2, <1>4, <1>5, <1>6, <1>7 DEF Inv

\* A request is submitted to a worker, or its worker goes on to call the backend.
LEMMA WorkerStep ==
    ASSUME Inv, NEW r \in Requests, NEW j \in Job,
           job[r].pc # "queued", j.pc \in {"spawned", "calling"}, j.op \in AllOps,
           job' = [job EXCEPT ![r] = j],
           phase = "up" \/ InFlight(r),
           UNCHANGED <<registry, callbacks, local, phase, forced>>
    PROVE  Inv'
  <1>1. job \in [Requests -> Job]
    BY DEF Inv, TypeOK
  <1>2. job' \in [Requests -> Job] /\ job'[r] = j
        /\ \A q \in Requests \ {r} : job'[q] = job[q]
    BY <1>1
  <1>3. TypeOK'
    BY <1>2 DEF Inv, TypeOK
  <1>4. WorkersHaveOp'
    BY <1>2 DEF Inv, WorkersHaveOp, InFlight
  <1>5. Pending' = Pending
    BY DEF Pending
  <1>6. \A q \in Requests : job'[q].pc = "queued" <=> job[q].pc = "queued"
    BY <1>2
  <1>7. OneAnswer'
    BY <1>5, <1>6 DEF Inv, OneAnswer
  <1>8. HonestVerdict'
    BY <1>2, <1>6 DEF Inv, HonestVerdict
  <1>9. StopInv'
    BY DEF Inv, StopInv, ActiveWorkers
  <1> QED BY <1>3, <1>4, <1>7, <1>8, <1>9 DEF Inv

LEMMA SubmitInv ==
    ASSUME Inv, NEW r \in Requests, NEW op \in Ops, NEW v \in Voices \union {""}, Submit(r, op, v)
    PROVE  Inv'
  <1>0. op \in AllOps /\ job[r].pc = "idle" /\ phase = "up"
    BY OpsAssumption DEF Submit
  <1>1. CASE registry[Stage(op)] = None
    <2> DEFINE j == [NoJob EXCEPT !.pc = "queued", !.op = op, !.res = NotLoaded(op)]
    <2>1. /\ j \in Job /\ j.pc = "queued" /\ j.res = NotLoaded(op)
          /\ ~j.res.ok /\ ~j.res.blocked
      <3>1. NotLoaded(op) \in Result
        BY FailureType
      <3>2. j \in Job /\ j.pc = "queued" /\ j.res = NotLoaded(op)
        BY <1>0, <3>1, NoJobType DEF Job
      <3>3. ~NotLoaded(op).ok /\ ~NotLoaded(op).blocked
        BY DEF NotLoaded, Failure
      <3> HIDE DEF j
      <3> QED BY <3>2, <3>3
    <2>2. /\ job' = [job EXCEPT ![r] = j] /\ enqueue_callback(r, j.res)
          /\ UNCHANGED <<registry, local, phase, forced>>
      BY <1>1, <2>1 DEF Submit
    <2> HIDE DEF j
    <2> QED BY <1>0, <2>1, <2>2, EnqueueStep
  <1>2. CASE registry[Stage(op)] # None
    <2> DEFINE j == [NoJob EXCEPT !.pc = "spawned", !.op = op, !.voice = v]
    <2>1. j \in Job /\ j.pc = "spawned" /\ j.op = op
      BY <1>0, NoJobType DEF Job
    <2>2. /\ job' = [job EXCEPT ![r] = j]
          /\ UNCHANGED <<registry, callbacks, local, phase, forced>>
      BY <1>2 DEF Submit
    <2> HIDE DEF j
    <2> QED BY <1>0, <2>1, <2>2, WorkerStep
  <1> QED BY <1>1, <1>2

LEMMA TakeBackendInv ==
    ASSUME Inv, NEW r \in Requests, TakeBackend(r)
    PROVE  Inv'
  <1> DEFINE inst == registry[Stage(job[r].op)]
             v    == IF job[r].op = "synthesize" /\ inst # None /\ job[r].voice \notin voices
                     THEN DefaultVoice ELSE job[r].voice
             j    == [job[r] EXCEPT !.pc = "calling", !.inst = inst, !.voice = v]
  <1>1. job \in [Requests -> Job] /\ job[r] \in Job /\ InFlight(r) /\ job[r].op \in AllOps
    BY DEF Inv, TypeOK, TakeBackend, WorkersHaveOp, InFlight
  <1>2. inst \in Providers \union {None} /\ v \in Voices \union {""}
    BY <1>1, StageType, VoiceAssumption DEF Inv, TypeOK, Job
  <1>3. /\ job' = [job EXCEPT ![r] = j]
        /\ UNCHANGED <<registry, callbacks, local, phase, forced>>
    BY <1>1 DEF TakeBackend
  <1> HIDE DEF inst, v
  <1>4. j \in Job /\ j.pc = "calling" /\ j.op = job[r].op
    BY <1>1, <1>2 DEF Job
  <1> HIDE DEF j
  <1>5. job[r].pc # "queued"
    BY <1>1 DEF InFlight
  <1> QED BY <1>1, <1>3, <1>4, <1>5, WorkerStep

LEMMA FinishCallInv ==
    ASSUME Inv, NEW r \in Requests, FinishCall(r)
    PROVE  Inv'
  <1> DEFINE op == job[r].op
             p  == job[r].inst
  <1>1. job \in [Requests -> Job] /\ job[r] \in Job /\ InFlight(r) /\ op \in AllOps
        /\ job[r].pc = "calling"
    BY DEF Inv, TypeOK, FinishCall, WorkersHaveOp, InFlight
  <1>2. PICK reply \in Replies(op, p) :
          LET res == IF p = None THEN NotLoaded(op) ELSE CallResult(op, p, job[r].voice, reply)
          IN  /\ job' = [job EXCEPT ![r] = [NoJob EXCEPT !.pc = "queued", !.op = op, !.res = res,
                                              !.truth = IF p = None THEN "none" ELSE Truth(reply)]]
              /\ enqueue_callback(r, res)
              /\ UNCHANGED <<registry, local, phase, forced>>
    BY DEF FinishCall
  <1> DEFINE res == IF p = None THEN NotLoaded(op) ELSE CallResult(op, p, job[r].voice, reply)
             truth == IF p = None THEN "none" ELSE Truth(reply)
             j == [NoJob EXCEPT !.pc = "queued", !.op = op, !.res = res, !.truth = truth]
  <1>3. /\ res \in Result
        /\ res.ok => truth = "answered"
        /\ res.blocked => ~res.ok /\ truth = "rejected"
        /\ op = "repair" /\ res.ok => res.value \in {"listed", "_INVALID"}
    <2>1. CASE p = None
      <3>1. res = NotLoaded(op)
        BY <2>1
      <3> QED BY <3>1, FailureType DEF NotLoaded, Failure
    <2>2. CASE p # None
      <3>1. res = CallResult(op, p, job[r].voice, reply) /\ truth = Truth(reply)
        BY <2>2
      <3> QED BY <1>1, <3>1, CallIsHonest
    <2> QED BY <2>1, <2>2
  <1>4. truth \in {"none", "answered", "rejected", "failed"}
    BY DEF Truth
  <1>5. /\ job' = [job EXCEPT ![r] = j] /\ enqueue_callback(r, res)
        /\ UNCHANGED <<registry, local, phase, forced>>
    BY <1>2
  <1> HIDE DEF res, truth
  <1>6. j \in Job /\ j.pc = "queued" /\ j.res = res /\ j.truth = truth /\ j.op = op
    BY <1>1, <1>3, <1>4, NoJobType DEF Job
  <1> HIDE DEF j
  <1> QED BY <1>1, <1>3, <1>5, <1>6, EnqueueStep

LEMMA SwapInv == ASSUME Inv, SwapQueue PROVE Inv'
  <1>1. /\ local = <<>> /\ local' = callbacks /\ callbacks' = <<>> /\ phase = "up"
        /\ UNCHANGED <<registry, job, phase, forced>>
    BY DEF SwapQueue
  <1>2. local \o callbacks = callbacks /\ local' \o callbacks' = callbacks
    BY <1>1 DEF Inv, TypeOK
  <1>3. Pending' = Pending
    BY <1>2 DEF Pending
  <1> QED BY <1>1, <1>3 DEF Inv, TypeOK, WorkersHaveOp, InFlight, OneAnswer, HonestVerdict, StopInv

LEMMA RunInv == ASSUME Inv, RunCallback PROVE Inv'
  <1> DEFINE r == Head(local).req
             j == [NoJob EXCEPT !.pc = "delivered"]
  <1>1. OneAnswer' /\ local' \in Seq(Callback) /\ r \in Requests
    BY RunKeepsOneAnswer DEF Inv, Callback
  <1>2. /\ job' = [job EXCEPT ![r] = j] /\ local # <<>>
        /\ UNCHANGED <<registry, callbacks, phase, forced>>
    BY DEF RunCallback
  <1>3. j \in Job /\ j.pc = "delivered"
    BY NoJobType DEF Job
  <1> HIDE DEF j
  <1>4. /\ job' \in [Requests -> Job] /\ job'[r] = j
        /\ \A q \in Requests \ {r} : job'[q] = job[q]
    BY <1>1, <1>2, <1>3 DEF Inv, TypeOK
  <1>5. phase = "up"
    BY <1>2 DEF Inv, StopInv
  <1> QED BY <1>1, <1>2, <1>3, <1>4, <1>5
          DEF Inv, TypeOK, WorkersHaveOp, InFlight, HonestVerdict, StopInv

LEMMA DropInv ==
    ASSUME Inv, phase = "stopping", DropAll, forced' \in BOOLEAN,
           forced' \/ ActiveWorkers = {}
    PROVE  Inv'
  <1>1. /\ local' = <<>> /\ callbacks' = <<>> /\ phase' = "stopped"
        /\ registry' = [s \in Stages |-> None]
        /\ job' = [r \in Requests |-> IF job[r].pc = "queued"
                                      THEN [NoJob EXCEPT !.pc = "dropped"] ELSE job[r]]
    BY DEF DropAll, Inv, StopInv
  <1>2. [NoJob EXCEPT !.pc = "dropped"] \in Job /\ [NoJob EXCEPT !.pc = "dropped"].pc = "dropped"
    BY NoJobType DEF Job
  <1>3. /\ job' \in [Requests -> Job]
        /\ \A r \in Requests : /\ job'[r].pc # "queued"
                               /\ job'[r].pc \in {"spawned", "calling"} => job'[r] = job[r]
    BY <1>1, <1>2 DEF Inv, TypeOK
  <1>4. TypeOK'
    BY <1>1, <1>3 DEF TypeOK
  <1>5. DOMAIN Pending' = {}
    <2>1. DOMAIN PendingOf(local', callbacks') = 1 .. Len(local') + Len(callbacks')
      BY <1>4, PendingShape DEF TypeOK
    <2> QED BY <1>1, <2>1 DEF Pending, PendingOf
  <1>6. ActiveWorkers' \subseteq ActiveWorkers
    BY <1>3 DEF ActiveWorkers, InFlight
  <1>7. WorkersHaveOp'
    BY <1>3 DEF Inv, WorkersHaveOp, InFlight
  <1> QED BY <1>1, <1>3, <1>4, <1>5, <1>6, <1>7 DEF Inv, OneAnswer, HonestVerdict, StopInv

LEMMA NextInv == Inv /\ [Next]_vars => Inv'
  <1> SUFFICES ASSUME Inv, [Next]_vars PROVE Inv'
    OBVIOUS
  <1>1. ASSUME NEW s \in Stages, NEW p \in Providers, Register(s, p) PROVE Inv'
    BY <1>1, QuietStep DEF Register, Inv, TypeOK
  <1>2. ASSUME NEW s \in Stages, Unregister(s) PROVE Inv'
    BY <1>2, QuietStep DEF Unregister, Inv, TypeOK
  <1>3. ASSUME NEW v \in Voices, ChangeVoice(v) PROVE Inv'
    BY <1>3, QuietStep DEF ChangeVoice, Inv, TypeOK
  <1>4. ASSUME NEW r \in Requests, NEW op \in Ops,
               \E v \in IF op = "synthesize" THEN Voices ELSE {""} : Submit(r, op, v)
        PROVE  Inv'
    BY <1>4, SubmitInv
  <1>5. ASSUME NEW r \in Requests, Worker(r) PROVE Inv'
    BY <1>5, TakeBackendInv, FinishCallInv DEF Worker
  <1>6. CASE SwapQueue \/ RunCallback
    BY <1>6, SwapInv, RunInv
  <1>7. CASE StopBegins
    <2>1. Pending' = Pending
      BY <1>7 DEF StopBegins, Pending
    <2> QED BY <1>7, <2>1 DEF StopBegins, Inv, TypeOK, WorkersHaveOp, InFlight, OneAnswer,
              HonestVerdict, StopInv
  <1>8. CASE StopEnds \/ StopTimesOut
    BY <1>8, DropInv DEF StopEnds, StopTimesOut, Inv, TypeOK
  <1>9. CASE Done \/ UNCHANGED vars
    <2>1. UNCHANGED <<job, callbacks, local, phase, forced>> /\ registry' = registry
      BY <1>9 DEF Done, vars
    <2> QED BY <2>1, QuietStep DEF Inv, TypeOK
  <1> QED BY <1>1, <1>2, <1>3, <1>4, <1>5, <1>6, <1>7, <1>8, <1>9 DEF Next

LEMMA InvAlways == Spec => []Inv
  BY InitInv, NextInv, PTL DEF Spec

\* No answer of a backend is lost and none is given twice, however submissions,
\* worker threads, registrations, drains and a stop interleave and however many
\* requests are under way.
THEOREM EveryRequestOneAnswer == Spec => []OneAnswer
  <1>1. Inv => OneAnswer
    BY DEF Inv
  <1> QED BY <1>1, InvAlways, PTL

\* What the session is told about a request agrees with what the provider did, for
\* all nine backends and everything a provider can send back.
THEOREM VerdictsAreHonest == Spec => []HonestVerdict
  <1>1. Inv => HonestVerdict
    BY DEF Inv
  <1> QED BY <1>1, InvAlways, PTL

\* After stop() returned in time no worker is left and no callback is waiting, and
\* that stays so.
THEOREM StopLeavesNothing == Spec => []StoppedClean
  <1>1. Inv => StoppedClean
    <2> SUFFICES ASSUME Inv, phase = "stopped", ~forced
                 PROVE  ActiveWorkers = {} /\ Pending = <<>>
      BY DEF StoppedClean
    <2>1. ActiveWorkers = {} /\ local = <<>> /\ callbacks = <<>>
      BY DEF Inv, StopInv
    <2>2. Len(local \o callbacks) = 0
      BY <2>1
    <2>3. Pending \in Seq(Requests) /\ Len(Pending) = 0
      BY <2>2 DEF Pending
    <2> QED BY <2>1, <2>3
  <1> QED BY <1>1, InvAlways, PTL
=============================================================================
