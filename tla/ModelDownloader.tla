-------------------------- MODULE ModelDownloader --------------------------
(***************************************************************************)
(* The model downloader (backends/downloader.cpp) composed with the loader *)
(* and with the main thread that drives both: the Models tab's buttons,    *)
(* the backend restarts of the Settings tab, XPluginEnable and             *)
(* XPluginDisable.                                                         *)
(*                                                                         *)
(* Actors: the download worker, the loader's worker, the main thread.      *)
(* They share the model directory, the loader's state and the downloader's *)
(* queue and progress table.                                               *)
(***************************************************************************)
EXTENDS ModelLoader

CONSTANT MaxClicks   \* bound: how often the user presses something

ASSUME ClicksAssumption == MaxClicks \in Nat

VARIABLES
    prog,     \* g_progress: the State of each entry
    queue,    \* g_queue
    active,   \* g_active_index
    cancelled,\* g_cancel_active
    stopping, \* g_should_stop
    dl,       \* the download worker: where it is, its entry, what its .part came to
    main,     \* the main thread: where it is and the calls it still makes
    clicks,
    disabled  \* ghost: the plugin was disabled once

dlVars == <<prog, queue, active, cancelled, stopping, dl>>
vars == <<disk, mode, row, seeded, running, exiting, single, thread, registered,
          voices, piper, content, prog, queue, active, cancelled, stopping,
          dl, main, clicks, disabled>>

\* "Failed" stands for InsufficientDisk too: the attempt ended without a file.
States == {"Idle", "Queued", "Downloading", "Verifying", "Done", "Failed", "Cancelled"}
Worker(pc, e) == [pc |-> pc, key |-> e, part |-> "absent"]
Busy(e) == prog[e] \in {"Queued", "Downloading", "Verifying"}

Init ==
    /\ LoaderInit
    /\ prog = [e \in Entries |-> "Idle"]
    /\ queue = <<>>
    /\ active = None
    /\ cancelled = FALSE
    /\ stopping = FALSE
    /\ dl = Worker("off", None)
    /\ main = [pc |-> "off", todo |-> <<>>]
    /\ clicks = 0
    /\ disabled = FALSE

(***************************************************************************)
(* The download worker.  "parking" is inside g_wake.wait: the predicate was *)
(* false, the mutex is still held, the thread does not sleep yet.           *)
(***************************************************************************)
At(pc) == dl.pc = pc
Goto(pc) == dl' = [dl EXCEPT !.pc = pc]
set_state(e, s) == prog' = [prog EXCEPT ![e] = s]
MutexFree == dl.pc # "parking"

WorkerCheck ==
    /\ At("check")
    /\ \/ /\ stopping
          /\ dl' = Worker("off", None)
          /\ UNCHANGED <<queue, active>>
       \/ /\ ~stopping /\ queue # <<>>
          /\ queue' = Tail(queue)
          /\ active' = Head(queue)
          /\ dl' = Worker("one", Head(queue))
       \/ /\ ~stopping /\ queue = <<>>
          /\ Goto("parking")
          /\ UNCHANGED <<queue, active>>
    /\ UNCHANGED <<prog, cancelled, stopping>>

WorkerSleeps ==
    /\ At("parking")
    /\ Goto("asleep")
    /\ UNCHANGED <<prog, queue, active, cancelled, stopping>>

\* download_one up to the transfer: a file that is already good, too little disk
\* space, a .part that cannot be opened.
Precheck ==
    /\ At("one")
    /\ IF disk[dl.key] = "good"
       THEN set_state(dl.key, "Done") /\ Goto("finish")
       ELSE \/ set_state(dl.key, "Failed") /\ Goto("finish")
            \/ set_state(dl.key, "Downloading") /\ Goto("arm")
    /\ UNCHANGED <<disk, queue, active, cancelled, stopping>>

\* curl_easy_init, then g_cancel_active is cleared: a cancel() since the row said
\* Downloading is lost.
ArmTransfer ==
    /\ At("arm")
    /\ \/ set_state(dl.key, "Failed") /\ Goto("finish") /\ UNCHANGED cancelled
       \/ cancelled' = FALSE /\ Goto("transfer") /\ UNCHANGED prog
    /\ UNCHANGED <<disk, queue, active, stopping>>

\* curl_easy_perform and the size check: xferinfo_cb aborts on cancel or stop; an
\* error or a short body is Failed (its .part only shortens the next attempt).
Aborts == cancelled \/ stopping

Transfer ==
    /\ At("transfer")
    /\ \/ Aborts /\ set_state(dl.key, "Cancelled") /\ Goto("finish")
       \/ set_state(dl.key, "Failed") /\ Goto("finish")
       \/ /\ set_state(dl.key, "Verifying")
          /\ \E f \in {"good", "corrupt"} : dl' = [dl EXCEPT !.pc = "hash", !.part = f]
    /\ UNCHANGED <<disk, queue, active, cancelled, stopping>>

\* Mutant: the hash is not compared.
HashAcceptsAny(f) == f \in {"good", "corrupt"}

\* The SHA256 of the .part: only a file that matches gets the final name (and the
\* rename may fail as well).
HashAccepts(f) == f = "good"

HashAndRename ==
    /\ At("hash")
    /\ dl' = Worker("finish", dl.key)
    /\ \/ set_state(dl.key, "Failed") /\ UNCHANGED disk
       \/ /\ HashAccepts(dl.part)
          /\ disk' = [disk EXCEPT ![dl.key] = dl.part]
          /\ set_state(dl.key, "Done")
    /\ UNCHANGED <<queue, active, cancelled, stopping>>

WorkerFinish ==
    /\ At("finish")
    /\ active' = None
    /\ Goto("kick")
    /\ UNCHANGED <<prog, queue, cancelled, stopping>>

\* loader::start(key): dropped when a loader run is in progress.
KickLoader ==
    /\ At("kick")
    /\ IF running
       THEN dl' = Worker("check", None) /\ UNCHANGED <<running, exiting, single, seeded, row>>
       ELSE Goto("spawn") /\ ClaimOne(dl.key)
    /\ UNCHANGED <<disk, mode, thread, registered, voices, piper, content>>
    /\ UNCHANGED <<prog, queue, active, cancelled, stopping>>

WorkerSpawns ==
    /\ At("spawn")
    /\ thread = NoThread
    /\ Spawn
    /\ dl' = Worker("check", None)
    /\ UNCHANGED <<disk, mode, row, seeded, running, exiting, single, registered, voices, piper, content>>
    /\ UNCHANGED <<prog, queue, active, cancelled, stopping>>

Downloader ==
    /\ \/ (WorkerCheck \/ WorkerSleeps \/ WorkerFinish) /\ UNCHANGED <<disk, loaderVars>>
       \/ (Precheck \/ ArmTransfer \/ Transfer) /\ UNCHANGED loaderVars
       \/ HashAndRename /\ UNCHANGED loaderVars
       \/ KickLoader \/ WorkerSpawns
    /\ UNCHANGED <<main, clicks, disabled>>

(***************************************************************************)
(* What the main thread calls.                                             *)
(***************************************************************************)

\* A notification reaches a thread that sleeps, and no other.
Notified(d) == IF d.pc = "asleep" THEN [d EXCEPT !.pc = "check"] ELSE d

\* Mutant: a running worker is not woken.
ensure_worker_no_notify(d) == IF d.pc = "off" THEN Worker("check", None) ELSE d

\* ensure_worker: start the thread, or wake it.
ensure_worker(d) == IF d.pc = "off" THEN Worker("check", None) ELSE Notified(d)

Duplicate(e) == e \in ToSet(queue) \/ active = e

enqueue(e) ==
    IF Duplicate(e) THEN UNCHANGED <<queue, prog, dl, stopping>>
    ELSE /\ queue' = Append(queue, e)
         /\ set_state(e, "Queued")
         /\ dl' = ensure_worker(dl)
         /\ stopping' = (stopping /\ dl.pc # "off")

\* g_queue without the entry.  enqueue() never adds an entry twice (QueuedOnce), so
\* the loop that erases every match erases at most one.
Erased(e) == IF e \in ToSet(queue) THEN RemoveAt(queue, CHOOSE i \in DOMAIN queue : queue[i] = e)
             ELSE queue

\* Mutant: the row of a cancelled entry keeps its state.
cancel_row_kept(e) ==
    /\ queue' = Erased(e)
    /\ prog' = prog
    /\ cancelled' = (cancelled \/ active = e)

cancel(e) ==
    /\ queue' = Erased(e)
    /\ prog' = IF e \in ToSet(queue) THEN [prog EXCEPT ![e] = "Cancelled"] ELSE prog
    /\ cancelled' = (cancelled \/ active = e)

\* The calls a button makes are made one after the other, for the files of the
\* row's unit; force_redownload is cancel, clear_file_state and the removal of both
\* files, then the new enqueue.
Calls(op, u) ==
    LET es == SetToSeq(u)
    IN  IF op # "force" THEN [i \in DOMAIN es |-> <<op, es[i]>>]
        ELSE [i \in 1 .. 2 * Len(es) |-> <<IF i % 2 = 1 THEN "drop" ELSE "again", es[(i + 1) \div 2]>>]

MainCall ==
    /\ main.pc = "up" /\ main.todo # <<>>
    /\ MutexFree
    /\ main' = [main EXCEPT !.todo = Tail(@)]
    /\ LET op == Head(main.todo)[1]
           e  == Head(main.todo)[2]
       IN  \/ /\ op = "enqueue" /\ enqueue(e)
              /\ UNCHANGED <<disk, loaderVars, active, cancelled>>
           \/ /\ op = "cancel" /\ cancel(e)
              /\ UNCHANGED <<disk, loaderVars, active, stopping, dl>>
           \/ /\ op = "drop"
              /\ cancel(e)
              /\ clear_file_state(e)
              /\ disk' = [disk EXCEPT ![e] = "absent"]
              /\ UNCHANGED <<mode, seeded, running, exiting, single, thread>>
              /\ UNCHANGED <<active, stopping, dl>>
           \/ /\ op = "again"
              /\ IF Duplicate(e)
                 THEN set_state(e, "Idle") /\ UNCHANGED <<queue, dl, stopping>>
                 ELSE enqueue(e)
              /\ UNCHANGED <<disk, loaderVars, active, cancelled>>
    /\ UNCHANGED <<clicks, disabled>>

(***************************************************************************)
(* The user.  A row offers Cancel while its download is busy, Download when *)
(* a file is missing or wrong, Re-verify and Force re-download when it is   *)
(* settled; the cloud views show the voice rows only.                      *)
(***************************************************************************)
Free == main.pc = "up" /\ main.todo = <<>> /\ MutexFree
Click == Free /\ clicks < MaxClicks /\ clicks' = clicks + 1
Shown == IF mode = "local" THEN Units ELSE VoicePairs
Missing(e) == row[e] \in {"Missing", "SizeMismatch", "HashMismatch"}
Settled(e) == row[e] \in {"Ready", "Verified", "LoadError"}

ClickDownloads ==
    /\ Click
    /\ \/ \E u \in Shown :
            LET busy  == \E e \in u : Busy(e)
                needs == \E e \in u : Missing(e)
                op    == IF busy THEN "cancel" ELSE IF needs THEN "enqueue" ELSE "force"
            IN  /\ busy \/ needs \/ \A e \in u : Settled(e)
                /\ main' = [main EXCEPT !.todo = Calls(op, u)]
       \/ /\ mode = "local"
          /\ \A e \in Entries : ~Busy(e)
          /\ main' = [main EXCEPT !.todo = Calls("enqueue", {e \in Entries \ Llama : Missing(e)})]
    /\ UNCHANGED <<disk, loaderVars, dlVars, disabled>>

\* loader::start() and start(key) on the main thread.
Start(claim) == IF running THEN UNCHANGED <<running, exiting, single, seeded, row, main>>
                ELSE claim /\ main' = [main EXCEPT !.pc = "spawn"]

ClickVerify ==
    /\ Click
    /\ \/ mode = "local" /\ Start(ClaimFull)
       \/ \E u \in Shown :
            /\ \A e \in u : ~Busy(e) /\ Settled(e)
            /\ Start(ClaimOne(CHOOSE e \in u : TRUE))
    /\ UNCHANGED <<disk, mode, thread, registered, voices, piper, content, dlVars, disabled>>

MainSpawns ==
    /\ main.pc = "spawn"
    /\ thread = NoThread
    /\ Spawn
    /\ main' = [main EXCEPT !.pc = "up"]
    /\ UNCHANGED <<disk, mode, row, seeded, running, exiting, single, registered, voices, piper, content>>
    /\ UNCHANGED <<dlVars, clicks, disabled>>

\* A change of mode, key or voice override: loader::stop(), loader::start(); the
\* downloader goes on.
ClickRestart ==
    /\ Click
    /\ mode' \in Modes
    /\ exiting' = TRUE
    /\ main' = [main EXCEPT !.pc = "restart"]
    /\ UNCHANGED <<disk, row, seeded, running, single, thread, registered, voices, piper, content>>
    /\ UNCHANGED <<dlVars, disabled>>

\* loader::stop() once the worker is joined.
StopReturns ==
    /\ main.pc \in {"restart", "disable"}
    /\ thread = NoThread
    /\ DropBackends
    /\ main' = [main EXCEPT !.pc = IF @ = "restart" THEN "start" ELSE "off"]
    /\ UNCHANGED <<disk, mode, single, thread, dlVars, clicks, disabled>>

StartAgain ==
    /\ main.pc = "start"
    /\ IF running
       THEN /\ main' = [main EXCEPT !.pc = "up"]
            /\ UNCHANGED <<running, exiting, single, seeded, row>>
       ELSE Start(ClaimFull)
    /\ UNCHANGED <<disk, mode, thread, registered, voices, piper, content, dlVars, clicks, disabled>>

XPluginEnable ==
    /\ main.pc = "off"
    /\ clicks < MaxClicks
    /\ main' = [main EXCEPT !.pc = "start"]
    /\ UNCHANGED <<disk, loaderVars, dlVars, clicks, disabled>>

\* XPluginDisable: downloader::stop() sets its flags without the mutex and
\* notifies, then waits for the worker; loader::stop() follows.
XPluginDisable ==
    /\ main.pc = "up" /\ main.todo = <<>>
    /\ clicks < MaxClicks /\ clicks' = clicks + 1
    /\ stopping' = TRUE
    /\ cancelled' = TRUE
    /\ dl' = Notified(dl)
    /\ main' = [main EXCEPT !.pc = "join"]
    /\ disabled' = TRUE
    /\ UNCHANGED <<disk, loaderVars, prog, queue, active>>

\* Mutant: the loader is stopped without waiting for the download worker.
DownloaderNotJoined ==
    /\ main.pc = "join"
    /\ stopping' = FALSE
    /\ cancelled' = FALSE
    /\ queue' = <<>>
    /\ exiting' = TRUE
    /\ main' = [main EXCEPT !.pc = "disable"]
    /\ UNCHANGED <<disk, mode, row, seeded, running, single, thread, registered, voices, piper, content>>
    /\ UNCHANGED <<prog, active, dl, clicks, disabled>>

DownloaderJoined ==
    /\ main.pc = "join"
    /\ dl.pc = "off"
    /\ stopping' = FALSE
    /\ cancelled' = FALSE
    /\ queue' = <<>>
    /\ exiting' = TRUE
    /\ main' = [main EXCEPT !.pc = "disable"]
    /\ UNCHANGED <<disk, mode, row, seeded, running, single, thread, registered, voices, piper, content>>
    /\ UNCHANGED <<prog, active, dl, clicks, disabled>>

Main == \/ MainCall \/ ClickDownloads \/ ClickVerify \/ ClickRestart \/ MainSpawns
        \/ StopReturns \/ StartAgain \/ XPluginEnable \/ XPluginDisable \/ DownloaderJoined

LoaderStep == Loader /\ UNCHANGED <<dlVars, main, clicks, disabled>>
Next == LoaderStep \/ Downloader \/ Main

Spec == Init /\ [][Next]_vars

(***************************************************************************)
(* Properties.                                                             *)
(***************************************************************************)

\* The queue holds an entry at most once and never the one being downloaded.
QueuedOnce == IsInjective(queue) /\ active \notin ToSet(queue)

\* Every variable is in its range; the queue holds an entry at most once and never
\* the one being downloaded.
TypeOK ==
    /\ LoaderTypeOK
    /\ prog \in [Entries -> States]
    /\ active \in Entries \union {None}
    /\ cancelled \in BOOLEAN /\ stopping \in BOOLEAN /\ disabled \in BOOLEAN
    /\ dl.pc \in {"off", "check", "parking", "asleep", "one", "arm", "transfer",
                  "hash", "finish", "kick", "spawn"}
    /\ main.pc \in {"off", "up", "spawn", "restart", "start", "join", "disable"}
    /\ queue \in Seq(Entries) /\ Len(queue) <= Cardinality(Entries)
    /\ QueuedOnce

\* A Whisper model or a voice that serves the pilot was read from a file whose hash
\* matched, whatever was on disk at first and however downloads, re-verifications,
\* restarts and removals interleave.  (The Llama is loaded on its size alone.)
OnlyVerifiedLoaded ==
    \A u \in Units : ~(u \subseteq Llama) => content[u] # "corrupt"

\* A row that says Done has its good file on disk, unless the user just asked to
\* replace it (force_redownload in progress).
DoneIsOnDisk ==
    main.todo = <<>> => \A e \in Entries : prog[e] = "Done" => disk[e] = "good"

\* Until the plugin is disabled, a row that says Queued is in the queue, or in the
\* hands of the worker: no row is left offering only Cancel for a job nobody has.
QueuedIsPending ==
    ~disabled => \A e \in Entries :
        prog[e] = "Queued" => e \in ToSet(queue) \/ (dl.pc = "one" /\ dl.key = e)

\* XPluginDisable leaves no thread, no backend and no voice behind ("the
\* no-threads-survive-XPluginDisable rule").
NothingSurvivesDisable ==
    main.pc = "off" =>
        /\ dl.pc = "off" /\ thread = NoThread /\ ~running
        /\ \A s \in DOMAIN registered : registered[s] = None
        /\ voices = {} /\ ~piper

\* No wake-up is lost: the worker never sleeps on a queue that holds something,
\* whether the entry came before, during or after its own check of the queue.
NoLostWakeup == queue # <<>> => dl.pc # "asleep"

=============================================================================
