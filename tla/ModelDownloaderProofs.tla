------------------------ MODULE ModelDownloaderProofs ------------------------
(***************************************************************************)
(* Proofs about the model loader and downloader, for every manifest, every *)
(* content of the model directory and any number of clicks.                *)
(***************************************************************************)
EXTENDS ModelDownloader, FiniteSetTheorems, TLAPS

(***************************************************************************)
(* Sets as sequences.                                                      *)
(***************************************************************************)

\* SetToSeq lists elements of a finite set.
LEMMA SetToSeqType ==
    ASSUME NEW S, IsFiniteSet(S)
    PROVE  SetToSeq(S) \in Seq(S)
  <1>1. Cardinality(S) \in Nat /\ ExistsBijection(1 .. Cardinality(S), S)
    BY FS_CardinalityType
  <1>2. PICK f \in [1 .. Cardinality(S) -> S] : IsInjective(f)
    BY <1>1 DEF ExistsBijection, Bijection, Injection, IsInjective
  <1>3. SetToSeq(S) \in [1 .. Cardinality(S) -> S]
    BY <1>2 DEF SetToSeq
  <1> QED BY <1>1, <1>3

\* The head and the rest of a queue.
LEMMA HeadAndTail ==
    ASSUME NEW S, NEW q \in Seq(S), q # <<>>
    PROVE  /\ Len(q) \in Nat /\ Len(q) > 0 /\ Head(q) = q[1] /\ Head(q) \in S
           /\ Tail(q) \in Seq(S) /\ Len(Tail(q)) = Len(q) - 1
           /\ DOMAIN q = 1 .. Len(q) /\ DOMAIN Tail(q) = 1 .. Len(q) - 1
           /\ \A i \in 1 .. Len(q) - 1 : Tail(q)[i] = q[i + 1]
           /\ Len(q) # 1 => Tail(q) # <<>>
  <1>1. Len(q) \in Nat /\ Len(q) > 0 /\ Head(q) = q[1] /\ Head(q) \in S /\ DOMAIN q = 1 .. Len(q)
    OBVIOUS
  <1>2. Tail(q) \in Seq(S) /\ Len(Tail(q)) = Len(q) - 1
    OBVIOUS
  <1>3. DOMAIN Tail(q) = 1 .. Len(q) - 1
    BY <1>2
  <1>4. \A i \in 1 .. Len(q) - 1 : Tail(q)[i] = q[i + 1]
    OBVIOUS
  <1>5. Len(q) # 1 => Tail(q) # <<>>
    BY <1>1, <1>2
  <1> QED BY <1>1, <1>2, <1>3, <1>4, <1>5

LEMMA UnitsOfEntries ==
    /\ \A e \in Entries : Unit(e) \subseteq Entries
    /\ Units \subseteq SUBSET Entries
    /\ VoicePairs \subseteq SUBSET Entries
    /\ {{e} : e \in Whisper} \subseteq SUBSET Entries
    /\ {{e} : e \in Llama} \subseteq SUBSET Entries
  <1>1. VoicePairs \subseteq SUBSET Entries
    BY DEF Entries
  <1>2. ASSUME NEW e \in Entries PROVE Unit(e) \subseteq Entries
    <2>1. CASE \E p \in VoicePairs : e \in p
      BY <1>1, <2>1 DEF Unit
    <2>2. CASE ~\E p \in VoicePairs : e \in p
      BY <2>2 DEF Unit
    <2> QED BY <2>1, <2>2
  <1>3. Units \subseteq SUBSET Entries
    BY <1>2 DEF Units
  <1> QED BY <1>1, <1>2, <1>3 DEF Entries

LEMMA FiniteFamilies ==
    /\ \A u \in SUBSET Entries : IsFiniteSet(u)
    /\ \A U \in SUBSET (SUBSET Entries) : IsFiniteSet(U)
  <1>1. IsFiniteSet(Entries)
    BY ManifestAssumption
  <1>2. IsFiniteSet(SUBSET Entries)
    BY <1>1, FS_SUBSET
  <1> QED BY <1>1, <1>2, FS_Subset

(***************************************************************************)
(* What is loaded was verified.                                            *)
(***************************************************************************)

\* The thread's list of units to load: apart from a Llama, which goes by its size,
\* only units all of whose files verified in this run.
LoadList(load, ok) ==
    /\ load \in Seq(SUBSET Entries)
    /\ \A i \in DOMAIN load : load[i] \subseteq Llama \/ load[i] \subseteq ok

\* A file that verified in this run is still good, or was removed by a forced
\* download: nobody else writes to a final path, and a download only renames a
\* file whose hash matched.
LoadInv ==
    /\ disk \in [Entries -> Files]
    /\ DOMAIN thread = {"pc", "plan", "todo", "load", "ok"}
    /\ \A e \in Entries : e \in thread.ok => disk[e] \in {"good", "absent"}
    /\ LoadList(thread.load, thread.ok)
    /\ thread.pc \in {"load", "opening", "mark", "next"} => thread.load # <<>>
    /\ DOMAIN content = Units
    /\ OnlyVerifiedLoaded

LEMMA ToLoadIsVerified == LoadList(ToLoad, thread.ok)
  <1> DEFINE complete == {u \in Units : u \subseteq thread.ok}
             L(s) == LoadList(s, thread.ok)
  <1>0. /\ \A U \in SUBSET (SUBSET Entries) : SetToSeq(U) \in Seq(U)
        /\ \A U \in SUBSET (SUBSET Entries) : Seq(U) \subseteq Seq(SUBSET Entries)
    BY FiniteFamilies, SetToSeqType
  <1>1. ASSUME NEW U \in SUBSET (SUBSET Entries),
               \A u \in U : u \subseteq Llama \/ u \subseteq thread.ok
        PROVE  L(SetToSeq(U))
    <2>1. SetToSeq(U) \in Seq(U) /\ SetToSeq(U) \in Seq(SUBSET Entries)
      BY <1>0
    <2>2. \A i \in DOMAIN SetToSeq(U) : SetToSeq(U)[i] \in U
      BY <2>1
    <2> QED BY <1>1, <2>1, <2>2 DEF LoadList
  <1>2. L(SetToSeq(complete)) /\ L(SetToSeq(complete \intersect VoicePairs))
    <2>1. complete \in SUBSET (SUBSET Entries) /\ complete \intersect VoicePairs \in SUBSET (SUBSET Entries)
      BY UnitsOfEntries
    <2> QED BY <1>1, <2>1
  <1>3. L(<<>>)
    BY DEF LoadList
  <1>4. ASSUME NEW s, NEW t, L(s), L(t) PROVE L(s \o t)
    <2>1. s \in Seq(SUBSET Entries) /\ t \in Seq(SUBSET Entries)
      BY <1>4 DEF LoadList
    <2>2. /\ s \o t \in Seq(SUBSET Entries) /\ DOMAIN (s \o t) = 1 .. Len(s) + Len(t)
          /\ \A i \in 1 .. Len(s) + Len(t) : (s \o t)[i] = IF i <= Len(s) THEN s[i] ELSE t[i - Len(s)]
      BY <2>1
    <2>3. \A i \in 1 .. Len(s) + Len(t) : IF i <= Len(s) THEN i \in DOMAIN s ELSE i - Len(s) \in DOMAIN t
      BY <2>1
    <2> QED BY <1>4, <2>2, <2>3 DEF LoadList
  <1>5. Entries \ Llama \subseteq thread.ok =>
          L(SetToSeq({{e} : e \in Whisper}) \o SetToSeq({{e} : e \in Llama}) \o SetToSeq(VoicePairs))
    <2> SUFFICES ASSUME Entries \ Llama \subseteq thread.ok
                 PROVE  L(SetToSeq({{e} : e \in Whisper}) \o SetToSeq({{e} : e \in Llama}) \o SetToSeq(VoicePairs))
      OBVIOUS
    <2>1. \A e \in Whisper : {e} \subseteq thread.ok
      BY ManifestAssumption DEF Entries
    <2>2. \A p \in VoicePairs : p \subseteq thread.ok
      BY ManifestAssumption DEF Entries
    <2>3. /\ L(SetToSeq({{e} : e \in Whisper})) /\ L(SetToSeq({{e} : e \in Llama}))
          /\ L(SetToSeq(VoicePairs))
      BY <1>1, <2>1, <2>2, UnitsOfEntries
    <2> QED BY <1>4, <2>3
  <1> QED BY <1>2, <1>3, <1>5 DEF ToLoad

LEMMA LoadInitInv == Init => LoadInv
  <1> SUFFICES ASSUME Init PROVE LoadInv
    OBVIOUS
  <1>1. /\ disk \in [Entries -> InitFiles] /\ thread = NoThread
        /\ content = [u \in Units |-> "none"]
    BY DEF Init, LoaderInit
  <1>2. LoadList(<<>>, {})
    BY DEF LoadList
  <1>3. disk \in [Entries -> Files]
    BY <1>1, FilesAssumption DEF Files
  <1> QED BY <1>1, <1>2, <1>3 DEF LoadInv, NoThread, OnlyVerifiedLoaded

\* A thread that does not exist, or has just been started, loads nothing.
LEMMA FreshThread ==
    ASSUME LoadInv, thread' = NoThread \/ Spawn, UNCHANGED <<disk, content>>
    PROVE  LoadInv'
  <1>1. /\ DOMAIN thread' = {"pc", "plan", "todo", "load", "ok"}
        /\ thread'.load = <<>> /\ thread'.ok = {} /\ thread'.pc \in {"none", "begin"}
    BY DEF Spawn, NoThread
  <1>2. LoadList(<<>>, {})
    BY DEF LoadList
  <1> QED BY <1>1, <1>2 DEF LoadInv, OnlyVerifiedLoaded

\* A step that touches no file, no unit and neither the list nor the verified files.
LEMMA ThreadMoves ==
    ASSUME LoadInv, UNCHANGED <<disk, content>>,
           DOMAIN thread' = {"pc", "plan", "todo", "load", "ok"},
           thread'.load = thread.load, thread'.ok = thread.ok,
           thread'.pc \in {"load", "opening", "mark", "next"} =>
             thread.pc \in {"load", "opening", "mark", "next"}
    PROVE  LoadInv'
  BY DEF LoadInv, OnlyVerifiedLoaded

LEMMA LoaderStepLoadInv == ASSUME LoadInv, Loader PROVE LoadInv'
  <1>0. DOMAIN thread = {"pc", "plan", "todo", "load", "ok"}
    BY DEF LoadInv
  <1>1. CASE BeginRun
    BY <1>0, <1>1, ThreadMoves DEF BeginRun
  <1>2. ASSUME VerifyAborted, UNCHANGED <<disk, content>> PROVE LoadInv'
    BY <1>0, <1>2, ThreadMoves, FreshThread DEF VerifyAborted, Leave
  <1>3. CASE VerifySize
    BY <1>0, <1>2, <1>3, ThreadMoves DEF VerifySize
  <1>4. CASE VerifyHash
    <2>1. CASE exiting /\ VerifyAborted
      BY <1>2, <1>4, <2>1 DEF VerifyHash
    <2>2. CASE ~exiting
      <3>1. PICK e, ok : /\ ok \in {thread.ok, thread.ok \union {e}}
                         /\ ok # thread.ok => disk[e] = "good"
                         /\ thread' = [thread EXCEPT !.pc = "verify", !.todo = Tail(@), !.ok = ok]
                         /\ UNCHANGED <<disk, content>>
        BY <1>4, <2>2 DEF VerifyHash, Mismatch
      <3>2. /\ DOMAIN thread' = {"pc", "plan", "todo", "load", "ok"}
            /\ thread'.load = thread.load /\ thread'.ok = ok /\ thread'.pc = "verify"
        BY <1>0, <3>1
      <3>3. LoadList(thread.load, ok)
        BY <3>1 DEF LoadInv, LoadList
      <3>4. \A x \in Entries : x \in ok => disk[x] \in {"good", "absent"}
        BY <3>1 DEF LoadInv
      <3> QED BY <3>1, <3>2, <3>3, <3>4 DEF LoadInv, OnlyVerifiedLoaded
    <2> QED BY <1>4, <2>1, <2>2 DEF VerifyHash
  <1>5. CASE VerifyDone
    <2>1. CASE Leave
      BY <1>5, <2>1, FreshThread DEF VerifyDone, Leave
    <2>2. CASE ~Leave
      <3>1. /\ thread' = [thread EXCEPT !.pc = "load", !.load = ToLoad] /\ ToLoad # <<>>
            /\ UNCHANGED <<disk, content>>
        BY <1>5, <2>2 DEF VerifyDone
      <3>2. /\ DOMAIN thread' = {"pc", "plan", "todo", "load", "ok"}
            /\ thread'.load = ToLoad /\ thread'.ok = thread.ok
        BY <1>0, <3>1
      <3> QED BY <3>1, <3>2, ToLoadIsVerified DEF LoadInv, OnlyVerifiedLoaded
    <2> QED BY <2>1, <2>2
  <1>6. CASE LoadBegin
    <2>1. CASE Leave
      BY <1>6, <2>1, FreshThread DEF LoadBegin, Leave
    <2>2. CASE ~Leave
      <3>1. PICK pc : thread' = [thread EXCEPT !.pc = pc]
        BY <1>6, <2>2 DEF LoadBegin, ensure_piper_init_fails
      <3>2. thread.pc = "load" /\ UNCHANGED <<disk, content>>
        BY <1>6 DEF LoadBegin
      <3> QED BY <1>0, <3>1, <3>2, ThreadMoves
    <2> QED BY <2>1, <2>2
  <1>7. CASE LoadEnd
    <2> DEFINE u == Head(thread.load)
    <2>1. /\ thread' = [thread EXCEPT !.pc = "next"] /\ thread.pc = "opening"
          /\ UNCHANGED disk
      BY <1>7 DEF LoadEnd
    <2>2. /\ DOMAIN thread' = {"pc", "plan", "todo", "load", "ok"}
          /\ thread'.load = thread.load /\ thread'.ok = thread.ok
      BY <1>0, <2>1
    <2>3. u \subseteq Llama \/ u \subseteq thread.ok
      <3>1. thread.load # <<>> /\ LoadList(thread.load, thread.ok)
        BY <2>1 DEF LoadInv
      <3>2. 1 \in DOMAIN thread.load /\ u = thread.load[1]
        BY <3>1 DEF LoadList
      <3> QED BY <3>1, <3>2 DEF LoadList
    <2>4. DOMAIN content' = Units /\ OnlyVerifiedLoaded'
      <3>1. CASE UNCHANGED content
        BY <3>1 DEF LoadInv, OnlyVerifiedLoaded
      <3>2. CASE ~UNCHANGED content
        <4>1. /\ \A e \in u : disk[e] \notin {"absent", "short"}
              /\ content' = [content EXCEPT ![u] = IF \E e \in u : disk[e] # "good"
                                                   THEN "corrupt" ELSE "good"]
          BY <1>7, <3>2 DEF LoadEnd
        <4>2. ASSUME u \in Units, ~(u \subseteq Llama) PROVE \A e \in u : disk[e] = "good"
          <5>1. u \subseteq Entries
            BY <4>2, UnitsOfEntries
          <5> QED BY <2>3, <4>1, <4>2, <5>1 DEF LoadInv
        <4> HIDE DEF u
        <4>3. DOMAIN content = Units /\ OnlyVerifiedLoaded
          BY DEF LoadInv
        <4> QED BY <4>1, <4>2, <4>3 DEF OnlyVerifiedLoaded
      <3> QED BY <3>1, <3>2
    <2> QED BY <2>1, <2>2, <2>4 DEF LoadInv
  <1>8. CASE LoadMark
    BY <1>0, <1>8, ThreadMoves DEF LoadMark
  <1>9. CASE LoadNext
    <2>1. CASE Leave
      BY <1>9, <2>1, FreshThread DEF LoadNext, Leave
    <2>2. CASE ~Leave
      <3>1. /\ thread' = [thread EXCEPT !.pc = "load", !.load = Tail(thread.load)]
            /\ Len(thread.load) # 1 /\ thread.pc = "next" /\ UNCHANGED <<disk, content>>
        BY <1>9, <2>2 DEF LoadNext
      <3>2. thread.load \in Seq(SUBSET Entries) /\ thread.load # <<>>
        BY <3>1 DEF LoadInv, LoadList
      <3>3. /\ Tail(thread.load) \in Seq(SUBSET Entries) /\ Tail(thread.load) # <<>>
            /\ \A i \in DOMAIN Tail(thread.load) :
                 i + 1 \in DOMAIN thread.load /\ Tail(thread.load)[i] = thread.load[i + 1]
        BY <3>1, <3>2, HeadAndTail
      <3>4. LoadList(Tail(thread.load), thread.ok)
        BY <3>3 DEF LoadInv, LoadList
      <3>5. /\ DOMAIN thread' = {"pc", "plan", "todo", "load", "ok"}
            /\ thread'.load = Tail(thread.load) /\ thread'.ok = thread.ok
        BY <1>0, <3>1
      <3> QED BY <3>1, <3>3, <3>4, <3>5 DEF LoadInv, OnlyVerifiedLoaded
    <2> QED BY <2>1, <2>2
  <1> QED BY <1>1, <1>3, <1>4, <1>5, <1>6, <1>7, <1>8, <1>9 DEF Loader

(***************************************************************************)
(* The inductive invariant of the three threads.                           *)
(***************************************************************************)

Call == {"enqueue", "cancel", "drop", "again"} \X Entries

\* force_redownload: the removal of a file is followed by its new enqueue.
Paired(todo) ==
    \A i \in DOMAIN todo : todo[i][1] = "drop" =>
        i + 1 \in DOMAIN todo /\ todo[i + 1] = <<"again", todo[i][2]>>

ShapeInv ==
    /\ prog \in [Entries -> States]
    /\ queue \in Seq(Entries)
    /\ dl \in [pc : {"off", "check", "parking", "asleep", "one", "arm", "transfer",
                     "hash", "finish", "kick", "spawn"},
               key : Entries \union {None}, part : Files]
    /\ main \in [pc : {"off", "up", "spawn", "restart", "start", "join", "disable"},
                 todo : Seq(Call)]
    /\ Paired(main.todo)

\* From its look at the queue to its sleep the worker holds the mutex.
QueueInv ==
    /\ QueuedOnce
    /\ dl.pc \in {"parking", "asleep"} => queue = <<>>

\* The main thread has removed the file and is about to enqueue it again.
Replacing(e) == main.todo # <<>> /\ Head(main.todo) = <<"again", e>>

RowsInv ==
    /\ \A e \in Entries : prog[e] = "Done" => disk[e] = "good" \/ Replacing(e)
    /\ main.pc \in {"join", "disable"} => disabled
    /\ QueuedIsPending

\* Disabling waits for the download worker first, so that nobody can start a loader
\* run while, or after, the loader is stopped.
OffInv ==
    /\ main.pc \in {"off", "disable"} => dl.pc = "off"
    /\ NothingSurvivesDisable

Inv == LoadInv /\ ShapeInv /\ QueueInv /\ RowsInv /\ OffInv

LEMMA CallsArePaired ==
    ASSUME NEW op \in {"enqueue", "cancel", "force"}, NEW u \in SUBSET Entries
    PROVE  Calls(op, u) \in Seq(Call) /\ Paired(Calls(op, u))
  <1> DEFINE es == SetToSeq(u)
             n == Len(es)
  <1>1. es \in Seq(Entries) /\ n \in Nat /\ DOMAIN es = 1 .. n
    <2>1. es \in Seq(u)
      BY FiniteFamilies, SetToSeqType
    <2>2. Seq(u) \subseteq Seq(Entries)
      OBVIOUS
    <2> QED BY <2>1, <2>2
  <1>2. CASE op # "force"
    <2>1. Calls(op, u) = [i \in 1 .. n |-> <<op, es[i]>>]
      BY <1>1, <1>2 DEF Calls
    <2> HIDE DEF es, n
    <2>2. \A i \in 1 .. n : <<op, es[i]>> \in Call
      BY <1>1, <1>2 DEF Call
    <2>3. Calls(op, u) \in Seq(Call)
      BY <1>1, <2>1, <2>2
    <2>4. \A i \in DOMAIN Calls(op, u) : Calls(op, u)[i][1] = op
      BY <2>1
    <2> QED BY <1>2, <2>3, <2>4 DEF Paired
  <1>3. CASE op = "force"
    <2> DEFINE name(i) == IF i % 2 = 1 THEN "drop" ELSE "again"
               call(i) == <<name(i), es[(i + 1) \div 2]>>
    <2>1. Calls(op, u) = [i \in 1 .. 2 * n |-> call(i)]
      BY <1>3 DEF Calls
    <2> HIDE DEF es, n
    <2>2. ASSUME NEW i \in 1 .. 2 * n
          PROVE  call(i) \in Call
      <3>1. (i + 1) \div 2 \in 1 .. n
        BY <1>1
      <3>2. es[(i + 1) \div 2] \in Entries
        BY <1>1, <3>1
      <3> QED BY <3>2 DEF Call
    <2>3. Calls(op, u) \in Seq(Call) /\ DOMAIN Calls(op, u) = 1 .. 2 * n
      <3> HIDE DEF call
      <3> QED BY <1>1, <2>1, <2>2
    <2>4. ASSUME NEW i \in 1 .. 2 * n, name(i) = "drop"
          PROVE  i + 1 \in 1 .. 2 * n /\ call(i + 1) = <<"again", es[(i + 1) \div 2]>>
      <3>1. i % 2 = 1
        BY <2>4
      <3>2. i + 1 \in 1 .. 2 * n /\ (i + 1) % 2 # 1 /\ ((i + 1) + 1) \div 2 = (i + 1) \div 2
        BY <1>1, <3>1
      <3> QED BY <3>2
    <2>5. \A i \in 1 .. 2 * n : Calls(op, u)[i] = <<name(i), es[(i + 1) \div 2]>>
      BY <2>1
    <2> HIDE DEF call, name
    <2>6. \A i \in 1 .. 2 * n : Calls(op, u)[i][1] = name(i) /\ Calls(op, u)[i][2] = es[(i + 1) \div 2]
      BY <2>5
    <2>7. \A i \in 1 .. 2 * n : Calls(op, u)[i] = call(i)
      BY <2>1
    <2> QED BY <2>3, <2>4, <2>6, <2>7 DEF Paired
  <1> QED BY <1>2, <1>3

\* One call less: the pairing stays, and the enqueue follows the removal.
LEMMA NextCall ==
    ASSUME NEW todo \in Seq(Call), todo # <<>>, Paired(todo)
    PROVE  /\ Head(todo) \in Call /\ Head(todo) = <<Head(todo)[1], Head(todo)[2]>>
           /\ Tail(todo) \in Seq(Call) /\ Paired(Tail(todo))
           /\ Head(todo)[1] = "drop" =>
                Tail(todo) # <<>> /\ Head(Tail(todo)) = <<"again", Head(todo)[2]>>
  <1>1. /\ Len(todo) \in Nat /\ Len(todo) > 0 /\ Head(todo) = todo[1] /\ Head(todo) \in Call
        /\ Tail(todo) \in Seq(Call) /\ Len(Tail(todo)) = Len(todo) - 1
        /\ DOMAIN todo = 1 .. Len(todo) /\ DOMAIN Tail(todo) = 1 .. Len(todo) - 1
        /\ \A i \in 1 .. Len(todo) - 1 : Tail(todo)[i] = todo[i + 1]
        /\ Len(todo) # 1 => Tail(todo) # <<>>
    BY HeadAndTail
  <1>2. Head(todo) = <<Head(todo)[1], Head(todo)[2]>>
    BY <1>1 DEF Call
  <1>3. ASSUME NEW i \in DOMAIN Tail(todo), Tail(todo)[i][1] = "drop"
        PROVE  i + 1 \in DOMAIN Tail(todo) /\ Tail(todo)[i + 1] = <<"again", Tail(todo)[i][2]>>
    <2>1. i + 1 \in DOMAIN todo /\ Tail(todo)[i] = todo[i + 1]
      BY <1>1
    <2>2. (i + 1) + 1 \in DOMAIN todo /\ todo[(i + 1) + 1] = <<"again", todo[i + 1][2]>>
      BY <1>3, <2>1 DEF Paired
    <2> QED BY <1>1, <2>1, <2>2
  <1>4. ASSUME Head(todo)[1] = "drop"
        PROVE  Tail(todo) # <<>> /\ Head(Tail(todo)) = <<"again", Head(todo)[2]>>
    <2>1. 1 + 1 \in DOMAIN todo /\ todo[1 + 1] = <<"again", todo[1][2]>>
      BY <1>1, <1>4 DEF Paired
    <2>2. Len(todo) # 1 /\ Tail(todo)[1] = todo[1 + 1]
      BY <1>1, <2>1
    <2>3. Head(Tail(todo)) = Tail(todo)[1]
      BY <1>1, <2>2
    <2> QED BY <1>1, <2>1, <2>2, <2>3
  <1> QED BY <1>1, <1>2, <1>3, <1>4 DEF Paired

\* What cancel() leaves of the queue.
LEMMA ErasedQueue ==
    ASSUME queue \in Seq(Entries), NEW e
    PROVE  /\ Erased(e) \in Seq(Entries)
           /\ ToSet(Erased(e)) \subseteq ToSet(queue)
           /\ \A x \in ToSet(queue) : x # e => x \in ToSet(Erased(e))
           /\ IsInjective(queue) => IsInjective(Erased(e))
           /\ queue = <<>> => Erased(e) = <<>>
  <1>1. CASE e \notin ToSet(queue)
    BY <1>1 DEF Erased
  <1>2. CASE e \in ToSet(queue)
    <2>1. PICK i \in DOMAIN queue : queue[i] = e /\ Erased(e) = RemoveAt(queue, i)
      BY <1>2 DEF ToSet, Erased
    <2> DEFINE n == Len(queue)
               r == RemoveAt(queue, i)
    <2>2. n \in Nat /\ DOMAIN queue = 1 .. n /\ i \in 1 .. n
      OBVIOUS
    <2>3. /\ r \in Seq(Entries) /\ DOMAIN r = 1 .. n - 1
          /\ \A k \in 1 .. n - 1 : r[k] = IF k < i THEN queue[k] ELSE queue[k + 1]
      <3> DEFINE a == SubSeq(queue, 1, i - 1)
                 b == SubSeq(queue, i + 1, n)
      <3>1. /\ a \in Seq(Entries) /\ Len(a) = i - 1
            /\ \A k \in 1 .. i - 1 : a[k] = queue[k]
        BY <2>2
      <3>2. /\ b \in Seq(Entries) /\ Len(b) = n - i
            /\ \A k \in 1 .. n - i : b[k] = queue[i + k]
        BY <2>2
      <3>3. r = a \o b
        BY DEF RemoveAt
      <3> HIDE DEF a, b, r
      <3>4. /\ r \in Seq(Entries) /\ DOMAIN r = 1 .. Len(a) + Len(b)
            /\ \A k \in 1 .. Len(a) + Len(b) : r[k] = IF k <= Len(a) THEN a[k] ELSE b[k - Len(a)]
        BY <3>1, <3>2, <3>3
      <3>5. ASSUME NEW k \in 1 .. n - 1 PROVE r[k] = IF k < i THEN queue[k] ELSE queue[k + 1]
        <4>1. CASE k < i
          BY <2>2, <3>1, <3>2, <3>4, <4>1
        <4>2. CASE ~(k < i)
          <5>1. k - (i - 1) \in 1 .. n - i /\ i + (k - (i - 1)) = k + 1
            BY <2>2, <4>2
          <5>2. r[k] = b[k - (i - 1)]
            BY <2>2, <3>1, <3>2, <3>4, <4>2
          <5> QED BY <3>2, <4>2, <5>1, <5>2
        <4> QED BY <4>1, <4>2
      <3> QED BY <2>2, <3>1, <3>2, <3>4, <3>5
    <2> HIDE DEF r
    <2>4. \A k \in 1 .. n - 1 : r[k] \in ToSet(queue)
      <3> TAKE k \in 1 .. n - 1
      <3>1. k \in DOMAIN queue /\ k + 1 \in DOMAIN queue
        BY <2>2
      <3> QED BY <2>3, <3>1 DEF ToSet
    <2>5. ASSUME NEW x \in ToSet(queue), x # e PROVE x \in ToSet(r)
      <3>1. PICK k \in 1 .. n : queue[k] = x
        BY <2>2 DEF ToSet
      <3>2. CASE k < i
        <4>1. k \in 1 .. n - 1 /\ r[k] = x
          BY <2>2, <2>3, <3>1, <3>2
        <4> QED BY <2>3, <4>1 DEF ToSet
      <3>3. CASE ~(k < i)
        <4>1. k # i
          BY <2>1, <2>5, <3>1
        <4>2. k - 1 \in 1 .. n - 1 /\ ~(k - 1 < i) /\ (k - 1) + 1 = k
          BY <2>2, <3>3, <4>1
        <4>3. r[k - 1] = x
          BY <2>3, <3>1, <4>2
        <4> QED BY <2>3, <4>2, <4>3 DEF ToSet
      <3> QED BY <3>2, <3>3
    <2>6. ASSUME IsInjective(queue) PROVE IsInjective(r)
      <3> SUFFICES ASSUME NEW k \in 1 .. n - 1, NEW l \in 1 .. n - 1, r[k] = r[l] PROVE k = l
        BY <2>3 DEF IsInjective
      <3> DEFINE f(m) == IF m < i THEN m ELSE m + 1
      <3>1. f(k) \in 1 .. n /\ f(l) \in 1 .. n /\ r[k] = queue[f(k)] /\ r[l] = queue[f(l)]
        BY <2>2, <2>3
      <3>2. f(k) = f(l)
        BY <2>2, <2>6, <3>1 DEF IsInjective
      <3> QED BY <2>2, <3>2
    <2>7. ToSet(r) \subseteq ToSet(queue)
      BY <2>3, <2>4 DEF ToSet
    <2>8. queue # <<>>
      BY <2>2
    <2> QED BY <2>1, <2>3, <2>5, <2>6, <2>7, <2>8 DEF r
  <1> QED BY <1>1, <1>2

LEMMA InitInv == Init => Inv
  <1> SUFFICES ASSUME Init PROVE Inv
    OBVIOUS
  <1>1. LoadInv
    BY LoadInitInv
  <1>2. /\ prog = [e \in Entries |-> "Idle"] /\ queue = <<>> /\ active = None
        /\ dl = [pc |-> "off", key |-> None, part |-> "absent"]
        /\ main = [pc |-> "off", todo |-> <<>>]
        /\ thread = NoThread /\ running = FALSE /\ voices = {} /\ piper = FALSE
        /\ registered = [s \in {"stt", "lm", "tts"} |-> None]
    BY DEF Init, LoaderInit, Worker
  <1>3. <<>> \in Seq(Call) /\ <<>> \in Seq(Entries) /\ Paired(<<>>)
    BY DEF Paired
  <1>4. ShapeInv
    BY <1>2, <1>3 DEF ShapeInv, States, Files
  <1>5. QueueInv
    BY <1>2 DEF QueueInv, QueuedOnce, IsInjective, ToSet
  <1>6. RowsInv
    BY <1>2 DEF RowsInv, QueuedIsPending
  <1>7. OffInv
    BY <1>2 DEF OffInv, NothingSurvivesDisable
  <1> QED BY <1>1, <1>4, <1>5, <1>6, <1>7 DEF Inv

(***************************************************************************)
(* The loader's thread.                                                    *)
(***************************************************************************)

LEMMA LoaderKeepsInv == ASSUME Inv, LoaderStep PROVE Inv'
  <1>1. UNCHANGED <<prog, queue, active, cancelled, stopping, dl, main, clicks, disabled>>
    BY DEF LoaderStep, dlVars
  <1>2. Loader /\ LoadInv'
    BY LoaderStepLoadInv DEF LoaderStep, Inv
  <1>3. thread.pc # "none" /\ UNCHANGED disk
    BY <1>2 DEF Loader, BeginRun, VerifySize, VerifyHash, VerifyDone, LoadBegin, LoadEnd,
       LoadMark, LoadNext
  <1>4. main.pc # "off"
    BY <1>3 DEF Inv, OffInv, NothingSurvivesDisable, NoThread
  <1>5. ShapeInv' /\ QueueInv'
    BY <1>1 DEF Inv, ShapeInv, QueueInv, QueuedOnce
  <1>6. RowsInv'
    BY <1>1, <1>3 DEF Inv, RowsInv, QueuedIsPending, Replacing
  <1>7. OffInv'
    BY <1>1, <1>4 DEF Inv, OffInv, NothingSurvivesDisable
  <1> QED BY <1>2, <1>5, <1>6, <1>7 DEF Inv

(***************************************************************************)
(* The download worker.                                                    *)
(***************************************************************************)

\* The worker moves without touching queue, rows or files.
LEMMA WorkerMoves ==
    ASSUME Inv, UNCHANGED <<disk, prog, queue, main, disabled, content>>,
           UNCHANGED thread \/ Spawn,
           active' \in {active, None},
           dl.pc \notin {"off", "one"},
           dl' \in [pc : {"check", "asleep", "transfer", "kick", "spawn"},
                    key : Entries \union {None}, part : Files],
           dl'.pc = "asleep" => dl.pc = "parking"
    PROVE  Inv'
  <1>1. LoadInv'
    BY FreshThread DEF Inv, LoadInv, OnlyVerifiedLoaded
  <1>2. ShapeInv'
    BY DEF Inv, ShapeInv
  <1>3. QueueInv'
    <2>1. None \notin ToSet(queue)
      BY ManifestAssumption DEF Inv, ShapeInv, ToSet
    <2> QED BY <2>1 DEF Inv, QueueInv, QueuedOnce
  <1>4. RowsInv'
    BY DEF Inv, RowsInv, QueuedIsPending, Replacing
  <1>5. OffInv'
    BY DEF Inv, OffInv, NothingSurvivesDisable
  <1> QED BY <1>1, <1>2, <1>3, <1>4, <1>5 DEF Inv

\* The worker gives the row of its entry a new state; Done only with a good file.
LEMMA WorkerMarks ==
    ASSUME Inv, NEW s \in States \ {"Queued"}, NEW pc \in {"finish", "arm", "hash"},
           set_state(dl.key, s), dl'.pc = pc, dl.pc \notin {"off", "asleep", "parking"},
           dl' \in [pc : {"finish", "arm", "hash"}, key : {dl.key}, part : Files],
           \/ UNCHANGED disk
           \/ disk' = [disk EXCEPT ![dl.key] = "good"],
           s = "Done" => dl.key \notin Entries \/ disk'[dl.key] = "good",
           UNCHANGED <<queue, active, main, disabled, thread, content>>
    PROVE  Inv'
  <1>1. LoadInv'
    BY DEF Inv, LoadInv, OnlyVerifiedLoaded, Files
  <1>2. prog \in [Entries -> States] /\ prog' = [prog EXCEPT ![dl.key] = s]
        /\ disk \in [Entries -> Files]
    BY DEF Inv, ShapeInv, LoadInv, set_state
  <1>3. ShapeInv'
    BY <1>2 DEF Inv, ShapeInv
  <1>4. QueueInv'
    BY DEF Inv, QueueInv, QueuedOnce
  <1>5. \A e \in Entries : prog'[e] = "Done" => disk'[e] = "good" \/ Replacing(e)'
    <2> SUFFICES ASSUME NEW e \in Entries, prog'[e] = "Done"
                 PROVE  disk'[e] = "good" \/ Replacing(e)
      BY DEF Replacing
    <2>1. CASE e = dl.key
      BY <1>2, <2>1
    <2>2. CASE e # dl.key
      <3>1. prog[e] = "Done" /\ disk'[e] = disk[e]
        BY <1>2, <2>2
      <3> QED BY <3>1 DEF Inv, RowsInv
    <2> QED BY <2>1, <2>2
  <1>6. QueuedIsPending'
    <2> SUFFICES ASSUME ~disabled, NEW e \in Entries, prog'[e] = "Queued"
                 PROVE  e \in ToSet(queue)
      BY DEF QueuedIsPending
    <2>1. e # dl.key /\ prog[e] = "Queued"
      BY <1>2
    <2> QED BY <2>1 DEF Inv, RowsInv, QueuedIsPending
  <1>7. RowsInv'
    BY <1>5, <1>6 DEF Inv, RowsInv
  <1>8. OffInv'
    BY DEF Inv, OffInv, NothingSurvivesDisable
  <1> QED BY <1>1, <1>3, <1>4, <1>7, <1>8 DEF Inv

LEMMA DownloaderKeepsInv == ASSUME Inv, Downloader PROVE Inv'
  <1>0. /\ dl \in [pc : {"off", "check", "parking", "asleep", "one", "arm", "transfer",
                         "hash", "finish", "kick", "spawn"},
                   key : Entries \union {None}, part : Files]
        /\ queue \in Seq(Entries)
        /\ UNCHANGED <<main, disabled>>
    BY DEF Inv, ShapeInv, Downloader
  <1>1. CASE WorkerCheck /\ UNCHANGED <<disk, loaderVars>>
    <2>0. UNCHANGED <<disk, prog, thread, content>> /\ dl.pc = "check"
      BY <1>1 DEF WorkerCheck, At, loaderVars
    <2>0a. LoadInv'
      BY <2>0 DEF Inv, LoadInv, OnlyVerifiedLoaded
    <2>0b. OffInv'
      BY <1>0, <2>0 DEF Inv, OffInv, NothingSurvivesDisable
    <2>1. CASE stopping
      <3>1. UNCHANGED <<queue, active>> /\ dl' = [pc |-> "off", key |-> None, part |-> "absent"]
        BY <1>1, <2>1 DEF WorkerCheck, Worker
      <3>2. ShapeInv'
        BY <1>0, <2>0, <3>1 DEF Inv, ShapeInv, Files
      <3>3. QueueInv'
        BY <3>1 DEF Inv, QueueInv, QueuedOnce
      <3>4. RowsInv'
        BY <1>0, <2>0, <3>1 DEF Inv, RowsInv, QueuedIsPending, Replacing
      <3> QED BY <2>0a, <2>0b, <3>2, <3>3, <3>4 DEF Inv
    <2>2. CASE ~stopping /\ queue # <<>>
      <3>1. /\ queue' = Tail(queue) /\ active' = Head(queue)
            /\ dl' = [pc |-> "one", key |-> Head(queue), part |-> "absent"]
        BY <1>1, <2>2 DEF WorkerCheck, Worker
      <3>2. /\ Len(queue) \in Nat /\ Len(queue) > 0 /\ Head(queue) = queue[1] /\ Head(queue) \in Entries
            /\ Tail(queue) \in Seq(Entries)
            /\ DOMAIN queue = 1 .. Len(queue) /\ DOMAIN Tail(queue) = 1 .. Len(queue) - 1
            /\ \A i \in 1 .. Len(queue) - 1 : Tail(queue)[i] = queue[i + 1]
        BY <1>0, <2>2, HeadAndTail
      <3>3. ShapeInv'
        BY <1>0, <2>0, <3>1, <3>2 DEF Inv, ShapeInv, Files
      <3>4. QueueInv'
        <4>1. IsInjective(Tail(queue))
          <5> SUFFICES ASSUME NEW i \in 1 .. Len(queue) - 1, NEW k \in 1 .. Len(queue) - 1,
                              Tail(queue)[i] = Tail(queue)[k]
                       PROVE  i = k
            BY <3>2 DEF IsInjective
          <5>1. i + 1 \in DOMAIN queue /\ k + 1 \in DOMAIN queue /\ queue[i + 1] = queue[k + 1]
            BY <3>2
          <5>2. i + 1 = k + 1
            BY <5>1 DEF Inv, QueueInv, QueuedOnce, IsInjective
          <5> QED BY <3>2, <5>2
        <4>2. \A i \in 1 .. Len(queue) - 1 : Tail(queue)[i] # Head(queue)
          <5> TAKE i \in 1 .. Len(queue) - 1
          <5>1. i + 1 \in DOMAIN queue /\ 1 \in DOMAIN queue /\ i + 1 # 1
            BY <3>2
          <5> QED BY <3>2, <5>1 DEF Inv, QueueInv, QueuedOnce, IsInjective
        <4> QED BY <3>1, <3>2, <4>1, <4>2 DEF QueueInv, QueuedOnce, ToSet
      <3>5. \A e \in ToSet(queue) : e = Head(queue) \/ e \in ToSet(Tail(queue))
        <4> SUFFICES ASSUME NEW i \in DOMAIN queue, queue[i] # Head(queue)
                     PROVE  queue[i] \in ToSet(Tail(queue))
          BY DEF ToSet
        <4>1. i - 1 \in 1 .. Len(queue) - 1 /\ (i - 1) + 1 = i
          BY <3>2
        <4>2. Tail(queue)[i - 1] = queue[i]
          BY <3>2, <4>1
        <4> QED BY <3>2, <4>1, <4>2 DEF ToSet
      <3>6. RowsInv'
        BY <1>0, <2>0, <3>1, <3>5 DEF Inv, RowsInv, QueuedIsPending, Replacing
      <3> QED BY <2>0a, <2>0b, <3>3, <3>4, <3>6 DEF Inv
    <2>3. CASE ~stopping /\ queue = <<>>
      <3>1. UNCHANGED <<queue, active>> /\ dl' = [dl EXCEPT !.pc = "parking"]
        BY <1>1, <2>3 DEF WorkerCheck, Goto
      <3>2. dl' \in [pc : {"parking"}, key : Entries \union {None}, part : Files]
        BY <1>0, <3>1
      <3>3. ShapeInv'
        BY <1>0, <2>0, <3>1, <3>2 DEF Inv, ShapeInv
      <3>4. QueueInv'
        BY <2>3, <3>1 DEF Inv, QueueInv, QueuedOnce
      <3>5. RowsInv'
        BY <1>0, <2>0, <3>1 DEF Inv, RowsInv, QueuedIsPending, Replacing
      <3> QED BY <2>0a, <2>0b, <3>3, <3>4, <3>5 DEF Inv
    <2> QED BY <2>1, <2>2, <2>3
  <1>2. CASE (WorkerSleeps \/ WorkerFinish) /\ UNCHANGED <<disk, loaderVars>>
    <2>1. /\ UNCHANGED <<disk, prog, queue, content, thread>> /\ active' \in {active, None}
          /\ \/ dl.pc = "parking" /\ dl' = [dl EXCEPT !.pc = "asleep"]
             \/ dl.pc = "finish" /\ dl' = [dl EXCEPT !.pc = "kick"]
      BY <1>2 DEF WorkerSleeps, WorkerFinish, At, Goto, loaderVars
    <2> QED BY <1>0, <2>1, WorkerMoves
  <1>3. CASE (Precheck \/ ArmTransfer \/ Transfer) /\ UNCHANGED loaderVars
    <2>0. UNCHANGED <<disk, queue, active, thread, content>>
      BY <1>3 DEF Precheck, ArmTransfer, Transfer, loaderVars
    <2>1. CASE Precheck
      <3>1. PICK s \in {"Done", "Failed", "Downloading"}, pc \in {"finish", "arm"} :
              /\ set_state(dl.key, s) /\ dl' = [dl EXCEPT !.pc = pc] /\ dl.pc = "one"
              /\ s = "Done" => disk[dl.key] = "good"
        BY <2>1 DEF Precheck, At, Goto
      <3>2. dl' \in [pc : {"finish", "arm", "hash"}, key : {dl.key}, part : Files] /\ dl'.pc = pc
        BY <1>0, <3>1
      <3> QED BY <1>0, <2>0, <3>1, <3>2, WorkerMarks DEF States
    <2>2. CASE ArmTransfer
      <3>1. CASE UNCHANGED prog /\ dl' = [dl EXCEPT !.pc = "transfer"]
        BY <1>0, <2>0, <2>2, <3>1, WorkerMoves DEF ArmTransfer, At
      <3>2. CASE set_state(dl.key, "Failed") /\ dl' = [dl EXCEPT !.pc = "finish"]
        <4>1. dl' \in [pc : {"finish", "arm", "hash"}, key : {dl.key}, part : Files] /\ dl'.pc = "finish"
          BY <1>0, <3>2
        <4> QED BY <1>0, <2>0, <2>2, <3>2, <4>1, WorkerMarks DEF ArmTransfer, At, States
      <3> QED BY <2>2, <3>1, <3>2 DEF ArmTransfer, Goto
    <2>3. CASE Transfer
      <3>1. PICK s \in {"Cancelled", "Failed", "Verifying"}, pc \in {"finish", "hash"}, f \in Files :
              /\ set_state(dl.key, s) /\ dl' = [dl EXCEPT !.pc = pc, !.part = f] /\ dl.pc = "transfer"
        <4>1. \A x : [dl EXCEPT !.pc = x, !.part = dl.part] = [dl EXCEPT !.pc = x] /\ dl.part \in Files
          BY <1>0
        <4> QED BY <2>3, <4>1 DEF Transfer, At, Goto, Files
      <3>2. dl' \in [pc : {"finish", "arm", "hash"}, key : {dl.key}, part : Files] /\ dl'.pc = pc
        BY <1>0, <3>1
      <3> QED BY <1>0, <2>0, <3>1, <3>2, WorkerMarks DEF States
    <2> QED BY <1>3, <2>1, <2>2, <2>3
  <1>4. CASE HashAndRename /\ UNCHANGED loaderVars
    <2>1. PICK s \in {"Done", "Failed"} :
            /\ set_state(dl.key, s)
            /\ IF s = "Done" THEN disk' = [disk EXCEPT ![dl.key] = "good"] ELSE UNCHANGED disk
            /\ dl' = [pc |-> "finish", key |-> dl.key, part |-> "absent"] /\ dl.pc = "hash"
            /\ UNCHANGED <<queue, active, thread, content>>
      BY <1>4 DEF HashAndRename, HashAccepts, Worker, At, loaderVars
    <2>2. dl.key \in Entries /\ s = "Done" => disk'[dl.key] = "good"
      BY <2>1 DEF Inv, LoadInv
    <2>3. dl' \in [pc : {"finish", "arm", "hash"}, key : {dl.key}, part : Files] /\ dl'.pc = "finish"
      BY <2>1 DEF Files
    <2> QED BY <1>0, <2>1, <2>2, <2>3, WorkerMarks DEF States
  <1>5. CASE KickLoader
    <2>1. /\ UNCHANGED <<disk, prog, queue, active, content, thread>> /\ dl.pc = "kick"
          /\ \/ dl' = [pc |-> "check", key |-> None, part |-> "absent"]
             \/ dl' = [dl EXCEPT !.pc = "spawn"]
      BY <1>5 DEF KickLoader, At, Goto, Worker
    <2> QED BY <1>0, <2>1, WorkerMoves DEF Files
  <1>6. CASE WorkerSpawns
    <2>1. /\ UNCHANGED <<disk, prog, queue, active, content>> /\ Spawn /\ dl.pc = "spawn"
          /\ dl' = [pc |-> "check", key |-> None, part |-> "absent"]
      BY <1>6 DEF WorkerSpawns, At, Worker
    <2> QED BY <1>0, <2>1, WorkerMoves DEF Files
  <1> QED BY <1>1, <1>2, <1>3, <1>4, <1>5, <1>6 DEF Downloader

(***************************************************************************)
(* The main thread.                                                        *)
(***************************************************************************)

\* The main thread goes on without touching the downloader or the files.
LEMMA MainMoves ==
    ASSUME Inv, NEW pc \in {"up", "spawn", "restart", "start"}, NEW todo \in Seq(Call),
           Paired(todo), main' = [main EXCEPT !.pc = pc, !.todo = todo],
           todo = main.todo \/ main.todo = <<>>,
           UNCHANGED <<disk, prog, queue, active, dl, disabled>>,
           LoadInv'
    PROVE  Inv'
  <1>0. main'.pc = pc /\ main'.todo = todo
        /\ main' \in [pc : {"up", "spawn", "restart", "start"}, todo : Seq(Call)]
    BY DEF Inv, ShapeInv
  <1>1. ShapeInv'
    BY <1>0 DEF Inv, ShapeInv
  <1>2. QueueInv'
    BY DEF Inv, QueueInv, QueuedOnce
  <1>3. RowsInv'
    <2>1. \A e \in Entries : Replacing(e) => Replacing(e)'
      BY <1>0 DEF Replacing
    <2> QED BY <1>0, <2>1 DEF Inv, RowsInv, QueuedIsPending
  <1>4. OffInv'
    BY <1>0 DEF OffInv, NothingSurvivesDisable
  <1> QED BY <1>1, <1>2, <1>3, <1>4 DEF Inv

LEMMA EnqueueFacts ==
    ASSUME Inv, NEW e \in Entries, enqueue(e), main.pc = "up", MutexFree
    PROVE  /\ prog' \in [Entries -> States]
           /\ queue' \in Seq(Entries) /\ IsInjective(queue') /\ active \notin ToSet(queue')
           /\ dl' \in [pc : {"off", "check", "parking", "asleep", "one", "arm", "transfer",
                             "hash", "finish", "kick", "spawn"},
                       key : Entries \union {None}, part : Files]
           /\ dl'.pc \in {"parking", "asleep"} => queue' = <<>>
           /\ \A x \in Entries : prog'[x] = "Done" => prog[x] = "Done"
           /\ ~Duplicate(e) => prog'[e] = "Queued"
           /\ ~disabled => \A x \in Entries : prog'[x] = "Queued" =>
                x \in ToSet(queue') \/ (dl'.pc = "one" /\ dl'.key = x)
  <1>0. /\ prog \in [Entries -> States] /\ queue \in Seq(Entries)
        /\ dl \in [pc : {"off", "check", "parking", "asleep", "one", "arm", "transfer",
                         "hash", "finish", "kick", "spawn"},
                   key : Entries \union {None}, part : Files]
        /\ IsInjective(queue) /\ active \notin ToSet(queue)
        /\ dl.pc \in {"parking", "asleep"} => queue = <<>>
        /\ ~disabled => \A x \in Entries : prog[x] = "Queued" =>
             x \in ToSet(queue) \/ (dl.pc = "one" /\ dl.key = x)
    BY DEF Inv, ShapeInv, QueueInv, QueuedOnce, RowsInv, QueuedIsPending
  <1>1. CASE Duplicate(e)
    <2>1. UNCHANGED <<queue, prog, dl, stopping>>
      BY <1>1 DEF enqueue
    <2> QED BY <1>0, <1>1, <2>1
  <1>2. CASE ~Duplicate(e)
    <2>1. /\ queue' = Append(queue, e) /\ prog' = [prog EXCEPT ![e] = "Queued"]
          /\ dl' = ensure_worker(dl) /\ e \notin ToSet(queue) /\ active # e
      BY <1>2 DEF enqueue, Duplicate, set_state
    <2>2. /\ queue' \in Seq(Entries) /\ DOMAIN queue' = 1 .. Len(queue) + 1 /\ Len(queue) \in Nat
          /\ DOMAIN queue = 1 .. Len(queue)
          /\ \A i \in 1 .. Len(queue) : queue'[i] = queue[i]
          /\ queue'[Len(queue) + 1] = e
      BY <1>0, <2>1
    <2>3. ToSet(queue') = ToSet(queue) \union {e}
      BY <2>2 DEF ToSet
    <2>4. IsInjective(queue')
      BY <1>0, <2>1, <2>2 DEF IsInjective, ToSet
    <2>5. /\ dl' \in [pc : {"off", "check", "parking", "asleep", "one", "arm", "transfer",
                            "hash", "finish", "kick", "spawn"},
                      key : Entries \union {None}, part : Files]
          /\ dl'.pc \notin {"parking", "asleep"}
          /\ dl.pc = "one" => dl' = dl
      BY <1>0, <2>1 DEF ensure_worker, Notified, Worker, MutexFree, Files
    <2>6. /\ prog' \in [Entries -> States] /\ prog'[e] = "Queued"
          /\ \A x \in Entries \ {e} : prog'[x] = prog[x]
      BY <1>0, <2>1 DEF States
    <2> QED BY <1>0, <2>1, <2>2, <2>3, <2>4, <2>5, <2>6
  <1> QED BY <1>1, <1>2

LEMMA CancelFacts ==
    ASSUME Inv, NEW e \in Entries, cancel(e)
    PROVE  /\ prog' \in [Entries -> States]
           /\ queue' \in Seq(Entries) /\ IsInjective(queue') /\ active \notin ToSet(queue')
           /\ dl.pc \in {"parking", "asleep"} => queue' = <<>>
           /\ \A x \in Entries : prog'[x] = "Done" => prog[x] = "Done"
           /\ ~disabled => \A x \in Entries : prog'[x] = "Queued" =>
                x \in ToSet(queue') \/ (dl.pc = "one" /\ dl.key = x)
  <1>0. /\ prog \in [Entries -> States] /\ queue \in Seq(Entries)
        /\ IsInjective(queue) /\ active \notin ToSet(queue)
        /\ dl.pc \in {"parking", "asleep"} => queue = <<>>
        /\ ~disabled => \A x \in Entries : prog[x] = "Queued" =>
             x \in ToSet(queue) \/ (dl.pc = "one" /\ dl.key = x)
    BY DEF Inv, ShapeInv, QueueInv, QueuedOnce, RowsInv, QueuedIsPending
  <1>1. /\ queue' \in Seq(Entries) /\ ToSet(queue') \subseteq ToSet(queue)
        /\ \A x \in ToSet(queue) : x # e => x \in ToSet(queue')
        /\ IsInjective(queue') /\ (queue = <<>> => queue' = <<>>)
    BY <1>0, ErasedQueue DEF cancel
  <1>2. prog' = IF e \in ToSet(queue) THEN [prog EXCEPT ![e] = "Cancelled"] ELSE prog
    BY DEF cancel
  <1>3. /\ prog' \in [Entries -> States]
        /\ \A x \in Entries : x # e => prog'[x] = prog[x]
        /\ prog'[e] = IF e \in ToSet(queue) THEN "Cancelled" ELSE prog[e]
    BY <1>0, <1>2 DEF States
  <1> QED BY <1>0, <1>1, <1>3

LEMMA MainCallKeepsInv == ASSUME Inv, MainCall PROVE Inv'
  <1> DEFINE op == Head(main.todo)[1]
             e  == Head(main.todo)[2]
  <1>0. /\ main.pc = "up" /\ main.todo # <<>> /\ MutexFree
        /\ main' = [main EXCEPT !.todo = Tail(main.todo)] /\ UNCHANGED disabled
    BY DEF MainCall
  <1>1. /\ main.todo \in Seq(Call) /\ Paired(main.todo)
        /\ main' \in [pc : {"up"}, todo : Seq(Call)] /\ main'.todo = Tail(main.todo)
        /\ Paired(main'.todo)
        /\ Head(main.todo) = <<op, e>> /\ e \in Entries
        /\ op = "drop" => main'.todo # <<>> /\ Head(main'.todo) = <<"again", e>>
    <2>1. main.todo \in Seq(Call) /\ Paired(main.todo)
      BY DEF Inv, ShapeInv
    <2>2. /\ Head(main.todo) \in Call /\ Head(main.todo) = <<op, e>>
          /\ Tail(main.todo) \in Seq(Call) /\ Paired(Tail(main.todo))
          /\ op = "drop" => Tail(main.todo) # <<>> /\ Head(Tail(main.todo)) = <<"again", e>>
      BY <1>0, <2>1, NextCall
    <2>3. e \in Entries
      BY <2>2 DEF Call
    <2>4. main' \in [pc : {"up"}, todo : Seq(Call)] /\ main'.todo = Tail(main.todo)
      BY <1>0, <2>2 DEF Inv, ShapeInv
    <2> QED BY <2>1, <2>2, <2>3, <2>4
  <1>2. OffInv'
    BY <1>1 DEF OffInv, NothingSurvivesDisable
  <1>3. \A x \in Entries : prog[x] = "Done" => disk[x] = "good" \/ (op = "again" /\ x = e)
    BY <1>1 DEF Inv, RowsInv, Replacing
  <1> HIDE DEF op, e
  <1>4. CASE op = "enqueue" /\ enqueue(e) /\ UNCHANGED <<disk, loaderVars, active, cancelled>>
    <2>1. UNCHANGED <<disk, thread, content, active>>
      BY <1>4 DEF loaderVars
    <2>2. LoadInv'
      BY <2>1 DEF Inv, LoadInv, OnlyVerifiedLoaded
    <2>3. ShapeInv' /\ QueueInv'
      BY <1>0, <1>1, <1>4, <2>1, EnqueueFacts DEF ShapeInv, QueueInv, QueuedOnce
    <2>4. RowsInv'
      BY <1>0, <1>1, <1>3, <1>4, <2>1, EnqueueFacts DEF RowsInv, QueuedIsPending, Replacing
    <2> QED BY <1>2, <2>2, <2>3, <2>4 DEF Inv
  <1>5. CASE op = "cancel" /\ cancel(e) /\ UNCHANGED <<disk, loaderVars, active, stopping, dl>>
    <2>1. UNCHANGED <<disk, thread, content, active, dl>>
      BY <1>5 DEF loaderVars
    <2>2. LoadInv'
      BY <2>1 DEF Inv, LoadInv, OnlyVerifiedLoaded
    <2>3. ShapeInv' /\ QueueInv'
      BY <1>1, <1>5, <2>1, CancelFacts DEF Inv, ShapeInv, QueueInv, QueuedOnce
    <2>4. RowsInv'
      BY <1>0, <1>1, <1>3, <1>5, <2>1, CancelFacts DEF RowsInv, QueuedIsPending, Replacing
    <2> QED BY <1>2, <2>2, <2>3, <2>4 DEF Inv
  <1>6. CASE /\ op = "drop" /\ cancel(e) /\ clear_file_state(e)
             /\ disk' = [disk EXCEPT ![e] = "absent"]
             /\ UNCHANGED <<thread, active, dl>>
    <2>1. content' = [content EXCEPT ![Unit(e)] = "none"]
      BY <1>6 DEF clear_file_state
    <2>2. /\ disk' \in [Entries -> Files] /\ \A x \in Entries \ {e} : disk'[x] = disk[x]
          /\ disk'[e] = "absent"
      BY <1>1, <1>6 DEF Inv, LoadInv, Files
    <2>3. LoadInv'
      BY <1>6, <2>1, <2>2 DEF Inv, LoadInv, OnlyVerifiedLoaded
    <2>4. ShapeInv' /\ QueueInv'
      BY <1>1, <1>6, CancelFacts DEF Inv, ShapeInv, QueueInv, QueuedOnce
    <2>5. \A x \in Entries : prog'[x] = "Done" => disk'[x] = "good" \/ Replacing(x)'
      BY <1>1, <1>3, <1>6, <2>2, CancelFacts DEF Replacing
    <2>6. RowsInv'
      BY <1>0, <1>1, <1>6, <2>5, CancelFacts DEF RowsInv, QueuedIsPending
    <2> QED BY <1>2, <2>3, <2>4, <2>6 DEF Inv
  <1>7. CASE /\ op = "again"
             /\ IF Duplicate(e) THEN set_state(e, "Idle") /\ UNCHANGED <<queue, dl, stopping>>
                ELSE enqueue(e)
             /\ UNCHANGED <<disk, loaderVars, active, cancelled>>
    <2>1. UNCHANGED <<disk, thread, content, active>>
      BY <1>7 DEF loaderVars
    <2>2. LoadInv'
      BY <2>1 DEF Inv, LoadInv, OnlyVerifiedLoaded
    <2>3. CASE Duplicate(e)
      <3>1. UNCHANGED <<queue, dl>> /\ prog' = [prog EXCEPT ![e] = "Idle"]
        BY <1>7, <2>3 DEF set_state
      <3>2. /\ prog' \in [Entries -> States] /\ prog'[e] = "Idle"
            /\ \A x \in Entries \ {e} : prog'[x] = prog[x]
        BY <1>1, <3>1 DEF Inv, ShapeInv, States
      <3>3. ShapeInv' /\ QueueInv'
        BY <1>1, <2>1, <3>1, <3>2 DEF Inv, ShapeInv, QueueInv, QueuedOnce
      <3>4. \A x \in Entries : prog'[x] = "Done" => disk'[x] = "good"
        BY <1>3, <2>1, <3>2
      <3>5. QueuedIsPending'
        BY <1>0, <3>1, <3>2 DEF Inv, RowsInv, QueuedIsPending
      <3>6. RowsInv'
        BY <1>1, <3>4, <3>5 DEF RowsInv
      <3> QED BY <1>2, <2>2, <3>3, <3>6 DEF Inv
    <2>4. CASE ~Duplicate(e)
      <3>1. enqueue(e) /\ prog'[e] = "Queued"
        BY <1>0, <1>1, <1>7, <2>4, EnqueueFacts
      <3>2. ShapeInv' /\ QueueInv'
        BY <1>0, <1>1, <2>1, <3>1, EnqueueFacts DEF ShapeInv, QueueInv, QueuedOnce
      <3>3. \A x \in Entries : prog'[x] = "Done" => disk'[x] = "good"
        BY <1>0, <1>1, <1>3, <2>1, <3>1, EnqueueFacts
      <3>4. QueuedIsPending'
        BY <1>0, <1>1, <3>1, EnqueueFacts DEF QueuedIsPending
      <3>5. RowsInv'
        BY <1>1, <3>3, <3>4 DEF RowsInv
      <3> QED BY <1>2, <2>2, <3>2, <3>5 DEF Inv
    <2> QED BY <2>3, <2>4
  <1>8. \/ op = "enqueue" /\ enqueue(e) /\ UNCHANGED <<disk, loaderVars, active, cancelled>>
        \/ op = "cancel" /\ cancel(e) /\ UNCHANGED <<disk, loaderVars, active, stopping, dl>>
        \/ /\ op = "drop" /\ cancel(e) /\ clear_file_state(e)
           /\ disk' = [disk EXCEPT ![e] = "absent"]
           /\ UNCHANGED <<thread, active, dl>>
        \/ /\ op = "again"
           /\ IF Duplicate(e) THEN set_state(e, "Idle") /\ UNCHANGED <<queue, dl, stopping>>
              ELSE enqueue(e)
           /\ UNCHANGED <<disk, loaderVars, active, cancelled>>
    BY DEF MainCall, op, e
  <1> QED BY <1>4, <1>5, <1>6, <1>7, <1>8

LEMMA MainKeepsInv == ASSUME Inv, Main PROVE Inv'
  <1>0. main \in [pc : {"off", "up", "spawn", "restart", "start", "join", "disable"}, todo : Seq(Call)]
        /\ Paired(main.todo)
    BY DEF Inv, ShapeInv
  <1>0a. \A pc : [main EXCEPT !.pc = pc] = [main EXCEPT !.pc = pc, !.todo = main.todo]
    BY <1>0
  <1>0b. UNCHANGED <<disk, thread, content>> => LoadInv'
    BY DEF Inv, LoadInv, OnlyVerifiedLoaded
  <1>1. CASE MainCall
    BY <1>1, MainCallKeepsInv
  <1>2. CASE ClickDownloads
    <2>1. /\ main.pc = "up" /\ main.todo = <<>>
          /\ UNCHANGED <<disk, thread, content, prog, queue, active, dl, disabled>>
      BY <1>2 DEF ClickDownloads, Click, Free, loaderVars, dlVars
    <2>2. PICK op \in {"enqueue", "cancel", "force"}, u \in SUBSET Entries :
            main' = [main EXCEPT !.todo = Calls(op, u)]
      <3>1. Shown \subseteq SUBSET Entries
        BY UnitsOfEntries DEF Shown
      <3>2. {e \in Entries \ Llama : Missing(e)} \in SUBSET Entries
        OBVIOUS
      <3> QED BY <1>2, <3>1, <3>2 DEF ClickDownloads
    <2>3. Calls(op, u) \in Seq(Call) /\ Paired(Calls(op, u))
      BY CallsArePaired
    <2>4. main' = [main EXCEPT !.pc = "up", !.todo = Calls(op, u)]
      BY <1>0, <2>1, <2>2
    <2> QED BY <1>0b, <2>1, <2>3, <2>4, MainMoves
  <1>3. CASE ClickVerify \/ ClickRestart \/ StartAgain \/ XPluginEnable
    <2>1. PICK pc \in {"up", "spawn", "restart", "start"} : main' = [main EXCEPT !.pc = pc]
      <3>1. CASE ClickVerify
        <4>1. main' = main \/ main' = [main EXCEPT !.pc = "spawn"]
          BY <3>1 DEF ClickVerify, Start
        <4>2. main.pc = "up"
          BY <3>1 DEF ClickVerify, Click, Free
        <4> QED BY <1>0, <4>1, <4>2
      <3>2. CASE ClickRestart \/ XPluginEnable
        BY <3>2 DEF ClickRestart, XPluginEnable
      <3>3. CASE StartAgain
        BY <3>3 DEF StartAgain, Start
      <3> QED BY <1>3, <3>1, <3>2, <3>3
    <2>2. UNCHANGED <<disk, thread, content, prog, queue, active, dl, disabled>>
      BY <1>3 DEF ClickVerify, ClickRestart, StartAgain, XPluginEnable, loaderVars, dlVars
    <2> QED BY <1>0, <1>0a, <1>0b, <2>1, <2>2, MainMoves
  <1>4. CASE MainSpawns
    <2>1. /\ Spawn /\ main' = [main EXCEPT !.pc = "up"]
          /\ UNCHANGED <<disk, content, prog, queue, active, dl, disabled>>
      BY <1>4 DEF MainSpawns, dlVars
    <2>2. LoadInv'
      BY <2>1, FreshThread DEF Inv
    <2> QED BY <1>0, <1>0a, <2>1, <2>2, MainMoves
  <1>5. CASE StopReturns
    <2>1. /\ DropBackends /\ thread = NoThread /\ UNCHANGED thread
          /\ UNCHANGED <<disk, prog, queue, active, dl, disabled>>
      BY <1>5 DEF StopReturns, dlVars
    <2>2. LoadInv'
      BY <2>1 DEF Inv, LoadInv, DropBackends, OnlyVerifiedLoaded
    <2>3. CASE main.pc = "restart"
      <3>1. main' = [main EXCEPT !.pc = "start"]
        BY <1>5, <2>3 DEF StopReturns
      <3> QED BY <1>0, <1>0a, <2>1, <2>2, <3>1, MainMoves
    <2>4. CASE main.pc = "disable"
      <3>1. main' = [main EXCEPT !.pc = "off"]
        BY <1>5, <2>4 DEF StopReturns
      <3>2. main' \in [pc : {"off"}, todo : Seq(Call)] /\ main'.todo = main.todo
        BY <1>0, <3>1
      <3>3. ShapeInv' /\ QueueInv'
        BY <2>1, <3>2 DEF Inv, ShapeInv, QueueInv, QueuedOnce
      <3>4. RowsInv'
        BY <2>1, <3>2 DEF Inv, RowsInv, QueuedIsPending, Replacing
      <3>5. OffInv'
        BY <2>1, <2>4, <3>2 DEF Inv, OffInv, NothingSurvivesDisable, DropBackends
      <3> QED BY <2>2, <3>3, <3>4, <3>5 DEF Inv
    <2> QED BY <1>5, <2>3, <2>4 DEF StopReturns
  <1>6. CASE XPluginDisable
    <2>1. /\ main.pc = "up" /\ main.todo = <<>> /\ disabled' = TRUE
          /\ main' = [main EXCEPT !.pc = "join"] /\ dl' = Notified(dl)
          /\ UNCHANGED <<disk, thread, content, prog, queue, active>>
      BY <1>6 DEF XPluginDisable, loaderVars
    <2>2. main' \in [pc : {"join"}, todo : Seq(Call)] /\ main'.todo = main.todo
      BY <1>0, <2>1
    <2>3. ShapeInv' /\ QueueInv'
      BY <2>1, <2>2 DEF Inv, ShapeInv, QueueInv, QueuedOnce, Notified
    <2>4. RowsInv'
      BY <2>1, <2>2 DEF Inv, RowsInv, QueuedIsPending, Replacing
    <2>5. OffInv'
      BY <2>2 DEF OffInv, NothingSurvivesDisable
    <2> QED BY <1>0b, <2>1, <2>3, <2>4, <2>5 DEF Inv
  <1>7. CASE DownloaderJoined
    <2>1. /\ main.pc = "join" /\ dl.pc = "off" /\ queue' = <<>>
          /\ main' = [main EXCEPT !.pc = "disable"]
          /\ UNCHANGED <<disk, thread, content, prog, active, dl, disabled>>
      BY <1>7 DEF DownloaderJoined
    <2>2. main' \in [pc : {"disable"}, todo : Seq(Call)] /\ main'.todo = main.todo
      BY <1>0, <2>1
    <2>3. ShapeInv'
      BY <2>1, <2>2 DEF Inv, ShapeInv
    <2>4. QueueInv'
      BY <2>1 DEF QueueInv, QueuedOnce, IsInjective, ToSet
    <2>5. RowsInv'
      BY <2>1, <2>2 DEF Inv, RowsInv, QueuedIsPending, Replacing
    <2>6. OffInv'
      BY <2>1, <2>2 DEF OffInv, NothingSurvivesDisable
    <2> QED BY <1>0b, <2>1, <2>3, <2>4, <2>5, <2>6 DEF Inv
  <1> QED BY <1>1, <1>2, <1>3, <1>4, <1>5, <1>6, <1>7 DEF Main

LEMMA NextInv == Inv /\ [Next]_vars => Inv'
  <1> SUFFICES ASSUME Inv, [Next]_vars PROVE Inv'
    OBVIOUS
  <1>1. CASE UNCHANGED vars
    BY <1>1 DEF vars, Inv, LoadInv, OnlyVerifiedLoaded, ShapeInv, QueueInv, QueuedOnce, RowsInv,
       QueuedIsPending, Replacing, OffInv, NothingSurvivesDisable
  <1> QED BY <1>1, LoaderKeepsInv, DownloaderKeepsInv, MainKeepsInv DEF Next

LEMMA InvAlways == Spec => []Inv
  BY InitInv, NextInv, PTL DEF Spec

(***************************************************************************)
(* The theorems.                                                           *)
(***************************************************************************)

\* A Whisper model or a voice that serves the pilot was read from a file whose hash
\* matched: whatever the model directory held, and however downloads, forced
\* downloads, verifications, restarts and disabling interleave.
THEOREM OnlyVerifiedServes == Spec => []OnlyVerifiedLoaded
  <1>1. Inv => OnlyVerifiedLoaded
    BY DEF Inv, LoadInv
  <1> QED BY <1>1, InvAlways, PTL

\* A row that says Done has its good file on disk, unless the main thread is between
\* the removal of the file and its new enqueue in force_redownload.
THEOREM DoneMeansOnDisk == Spec => []DoneIsOnDisk
  <1>1. Inv => DoneIsOnDisk
    BY DEF Inv, RowsInv, Replacing, DoneIsOnDisk
  <1> QED BY <1>1, InvAlways, PTL

\* Until the plugin is disabled, a row that says Queued is in the queue or in the
\* worker's hands, whatever enqueue, cancel and force_redownload do meanwhile.
THEOREM QueuedMeansPending == Spec => []QueuedIsPending
  <1>1. Inv => QueuedIsPending
    BY DEF Inv, RowsInv
  <1> QED BY <1>1, InvAlways, PTL

\* The download queue holds an entry at most once and never the one in transfer, so
\* that cancel() has one element to erase and no file is fetched twice at a time.
THEOREM QueueHasNoDuplicates == Spec => []QueuedOnce
  <1>1. Inv => QueuedOnce
    BY DEF Inv, QueueInv
  <1> QED BY <1>1, InvAlways, PTL

\* XPluginDisable leaves no thread, no backend and no voice behind.
THEOREM DisableLeavesNothing == Spec => []NothingSurvivesDisable
  <1>1. Inv => NothingSurvivesDisable
    BY DEF Inv, OffInv
  <1> QED BY <1>1, InvAlways, PTL

\* The download worker never sleeps on a queue that holds something.
THEOREM WakeupsArrive == Spec => []NoLostWakeup
  <1>1. Inv => NoLostWakeup
    BY DEF Inv, QueueInv, NoLostWakeup
  <1> QED BY <1>1, InvAlways, PTL
=============================================================================
