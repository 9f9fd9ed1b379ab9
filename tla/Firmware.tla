------------------------------- MODULE Firmware -------------------------------
(***************************************************************************)
(* Firmware upgrades and SD card cleaning of the GUI: OTAUpgradeWorker,    *)
(* OTAPostWorker, OTABatchWorker and SDSDCleanWorker, their FTP operations *)
(* (testagent/deployment.py), the buttons that start them and the timer    *)
(* that empties their queues.                                              *)
(*                                                                         *)
(* The firmware is a .bin file; a device has an old one, the new one       *)
(* complete, or a part of it.  FTP operations and commands hold            *)
(* _request_lock, so each is one step; it may fail whatever the state, and *)
(* succeed only on a device that is up.  Deadlines may pass at any time.   *)
(* "step" messages are left out.                                           *)
(***************************************************************************)
EXTENDS Naturals, Sequences, FiniteSets

CONSTANTS
  Boards,     \* the devices that are online in the list
  Single,     \* the owner of the single upgrade's post worker
  Attempts,   \* 3 in the code
  MaxStarts   \* bound on what the user starts, for TLC only

VARIABLES
  files,    \* in /sdcard/firmware of each device
  power,    \* "going": it has taken ota_upgrade and has not gone down yet
  post,     \* OTAPostWorkers: one per device of the batch, and the single one
  batch,    \* the OTABatchWorker
  single,   \* the OTAUpgradeWorker
  clean,    \* the SDSDCleanWorker
  window,   \* the main window's references to workers, and its buttons
  starts,   \* counts what the user has started
  touched,  \* history: somebody else changed the files since the batch's upload
  blind     \* history: devices the batch commanded without the image it uploaded

firmwareVars == <<files, power, post, batch, single, clean, window, starts, touched, blind>>

Owners == Boards \cup {Single}
None(f) == [b \in Boards |-> f]

-----------------------------------------------------------------------------
(* A device.                                                               *)

Reaches(b) == power[b] # "down"

\* ftp_delete_bin_files and ftp_clean_all: a file that cannot be deleted is passed over.
Deleted(b, left) == left \subseteq files[b] /\ files' = [files EXCEPT ![b] = left]

\* ftp_upload_file: the file of that name is deleted, then stored.
Stored(b) == files' = [files EXCEPT ![b] = (@ \ {"part"}) \cup {"new"}]
StoreBroken(b) == \E left \in {files[b], files[b] \ {"part", "new"},
                               (files[b] \ {"new"}) \cup {"part"}} :
                    files' = [files EXCEPT ![b] = left]

\* ota_upgrade arrives: the device takes it only if there is an image, and may refuse.
Commanded(b) == \/ UNCHANGED power
                \/ power[b] = "up" /\ files[b] # {} /\ power' = [power EXCEPT ![b] = "going"]

GoDown(b) ==
  /\ power[b] = "going" /\ power' = [power EXCEPT ![b] = "down"]
  /\ UNCHANGED <<files, post, batch, single, clean, window, starts, touched, blind>>

ComeUp(b) ==
  /\ power[b] = "down" /\ power' = [power EXCEPT ![b] = "up"]
  /\ UNCHANGED <<files, post, batch, single, clean, window, starts, touched, blind>>

Device == \E b \in Boards : GoDown(b) \/ ComeUp(b)

-----------------------------------------------------------------------------
(* OTAPostWorker.  at: off, try, told (result or error is in the queue),   *)
(* gone (finished_post is there too and the thread has ended).             *)

NoPost == [board |-> CHOOSE b \in Boards : TRUE, at |-> "off", queue |-> <<>>]
PostStarted(b) == [board |-> b, at |-> "try", queue |-> <<>>]

PostSay(o, word) ==
  post' = [post EXCEPT ![o].at = "told", ![o].queue = Append(@, word)]

\* configure_device is repeated until it succeeds or 120 s have passed.
PostTry(o) ==
  /\ post[o].at = "try"
  /\ \/ Reaches(post[o].board) /\ PostSay(o, "result")
     \/ PostSay(o, "error")
  /\ UNCHANGED <<files, power, batch, single, clean, window, starts, touched, blind>>

PostFinish(o) ==
  /\ post[o].at = "told"
  /\ post' = [post EXCEPT ![o].at = "gone", ![o].queue = Append(@, "finished_post")]
  /\ UNCHANGED <<files, power, batch, single, clean, window, starts, touched, blind>>

IsRunning(o) == post[o].at \in {"try", "told"}

-----------------------------------------------------------------------------
(* OTABatchWorker.  at: off, begin, next, delete, upload, command, wait,   *)
(* check, end, gone, crashed (the thread ended without "finished").        *)

NoBatch == [at |-> "off", chosen |-> {}, todo |-> {}, board |-> NoPost.board, try |-> 1,
            waiting |-> {}, uploaded |-> 0, ready |-> None(0), failed |-> None(0)]

\* start_batch_ota after its dialogs.
StartBatch ==
  /\ starts < MaxStarts /\ starts' = starts + 1
  /\ window.batchBtn /\ ~window.batch /\ ~window.ota
  /\ \E chosen \in SUBSET Boards \ {{}} :
       batch' = [NoBatch EXCEPT !.at = "begin", !.chosen = chosen, !.todo = chosen]
  /\ window' = [window EXCEPT !.batch = TRUE, !.batchBtn = FALSE, !.otaBtn = FALSE]
  /\ UNCHANGED <<files, power, post, single, clean, touched, blind>>

\* The size of the file is read before the try: if it is gone, so is the thread.
BatchBegin ==
  /\ batch.at = "begin"
  /\ batch' \in {[batch EXCEPT !.at = "next"], [batch EXCEPT !.at = "crashed"]}
  /\ UNCHANGED <<files, power, post, single, clean, window, starts, touched, blind>>

BatchNext ==
  /\ batch.at = "next"
  /\ \/ \E b \in batch.todo :
          batch' = [batch EXCEPT !.at = "delete", !.board = b, !.try = 1, !.todo = @ \ {b}]
     \/ /\ batch.todo = {}
        /\ batch' = [batch EXCEPT !.at = IF batch.waiting = {} THEN "end" ELSE "wait"]
  /\ UNCHANGED <<files, power, post, single, clean, window, starts, touched, blind>>

\* Mutant: a device whose last attempt failed goes on to the next phase.
AttemptFailedOn ==
  batch' = IF batch.try < Attempts THEN [batch EXCEPT !.try = @ + 1]
           ELSE [batch EXCEPT !.try = 1,
                              !.at = IF batch.at = "upload" THEN "command" ELSE "upload"]

\* An attempt raised: again, or the device has failed.
AttemptFailed ==
  batch' = IF batch.try < Attempts THEN [batch EXCEPT !.try = @ + 1]
           ELSE [batch EXCEPT !.at = "next", !.failed[batch.board] = @ + 1]

Proceed(step) == batch' = [batch EXCEPT !.at = step, !.try = 1]

BatchDelete ==
  /\ batch.at = "delete"
  /\ \E left \in SUBSET files[batch.board] : Deleted(batch.board, left)
  /\ \/ Reaches(batch.board) /\ Proceed("upload")
     \/ AttemptFailed
  /\ UNCHANGED <<power, post, single, clean, window, starts, touched, blind>>

BatchUpload ==
  /\ batch.at = "upload"
  /\ \/ Reaches(batch.board) /\ Stored(batch.board) /\ Proceed("command")
     \/ StoreBroken(batch.board) /\ AttemptFailed
  /\ touched' = [touched EXCEPT ![batch.board] = FALSE]
  /\ UNCHANGED <<power, post, single, clean, window, starts, blind>>

\* A reply, whatever its code, starts the post worker; a lost one repeats the command.
BatchCommand ==
  LET b == batch.board IN
  /\ batch.at = "command"
  /\ \/ /\ Reaches(b) /\ Commanded(b)
        /\ batch' = [batch EXCEPT !.at = "next", !.waiting = @ \cup {b}, !.uploaded = @ + 1]
        /\ post' = [post EXCEPT ![b] = PostStarted(b)]
     \/ Commanded(b) /\ AttemptFailed /\ UNCHANGED post
  /\ blind' = IF "new" \in files[b] \/ touched[b] THEN blind ELSE blind \cup {b}
  /\ UNCHANGED <<files, single, clean, window, starts, touched>>

\* Mutant: the device stays in the list after its result.
BatchPollKeeping(b) ==
  /\ batch.at = "wait" /\ b \in batch.waiting
  /\ IF post[b].queue = <<>>
     THEN batch' = [batch EXCEPT !.at = "check", !.board = b] /\ UNCHANGED post
     ELSE /\ post' = [post EXCEPT ![b].queue = Tail(@)]
          /\ batch' = IF Head(post[b].queue) = "result" THEN [batch EXCEPT !.ready[b] = @ + 1]
                      ELSE [batch EXCEPT !.waiting = @ \ {b}, !.failed[b] = @ + 1]
  /\ UNCHANGED <<files, power, single, clean, window, starts, touched, blind>>

\* A post worker's queue is emptied up to its first final message.
BatchPoll(b) ==
  /\ batch.at = "wait" /\ b \in batch.waiting
  /\ IF post[b].queue = <<>>
     THEN batch' = [batch EXCEPT !.at = "check", !.board = b] /\ UNCHANGED post
     ELSE /\ post' = [post EXCEPT ![b].queue = Tail(@)]
          /\ batch' = IF Head(post[b].queue) = "result"
                      THEN [batch EXCEPT !.waiting = @ \ {b}, !.ready[b] = @ + 1]
                      ELSE [batch EXCEPT !.waiting = @ \ {b}, !.failed[b] = @ + 1]
  /\ UNCHANGED <<files, power, single, clean, window, starts, touched, blind>>

\* The queue was empty: a thread that does not run counts as a failure.
BatchCheck ==
  /\ batch.at = "check"
  /\ batch' = IF IsRunning(batch.board) THEN [batch EXCEPT !.at = "wait"]
              ELSE [batch EXCEPT !.at = "wait", !.waiting = @ \ {batch.board},
                                 !.failed[batch.board] = @ + 1]
  /\ UNCHANGED <<files, power, post, single, clean, window, starts, touched, blind>>

\* Nobody is left, or the 300 s have passed.
BatchStopWaiting ==
  /\ batch.at = "wait"
  /\ batch' = [batch EXCEPT !.at = "end", !.waiting = {},
                 !.failed = [b \in Boards |-> IF b \in batch.waiting THEN @[b] + 1 ELSE @[b]]]
  /\ UNCHANGED <<files, power, post, single, clean, window, starts, touched, blind>>

\* The finally: "finished" is in the queue.
BatchFinish ==
  /\ batch.at = "end"
  /\ batch' = [batch EXCEPT !.at = "gone"]
  /\ UNCHANGED <<files, power, post, single, clean, window, starts, touched, blind>>

Batch == \/ BatchBegin \/ BatchNext \/ BatchDelete \/ BatchUpload \/ BatchCommand
         \/ BatchCheck \/ BatchStopWaiting \/ BatchFinish
         \/ \E b \in Boards : BatchPoll(b)

-----------------------------------------------------------------------------
(* OTAUpgradeWorker.  at: off, list, upload, command, end, gone.           *)

NoSingle == [at |-> "off", board |-> NoPost.board, queue |-> <<>>]

StartOta ==
  /\ starts < MaxStarts /\ starts' = starts + 1
  /\ window.otaBtn /\ ~window.ota
  /\ \E b \in Boards : single' = [NoSingle EXCEPT !.at = "list", !.board = b]
  /\ window' = [window EXCEPT !.ota = TRUE, !.otaBtn = FALSE]
  /\ UNCHANGED <<files, power, post, batch, clean, touched, blind>>

SingleGoto(step) == single' = [single EXCEPT !.at = step]
Touch(b) == touched' = [touched EXCEPT ![b] = TRUE]

\* Any firmware on the device ends the upgrade.
SingleList ==
  /\ single.at = "list"
  /\ \/ Reaches(single.board) /\ files[single.board] = {} /\ SingleGoto("upload")
     \/ SingleGoto("end")
  /\ UNCHANGED <<files, power, post, batch, clean, window, starts, touched, blind>>

SingleUpload ==
  /\ single.at = "upload"
  /\ \/ Reaches(single.board) /\ Stored(single.board) /\ SingleGoto("command")
     \/ StoreBroken(single.board) /\ SingleGoto("end")
  /\ Touch(single.board)
  /\ UNCHANGED <<power, post, batch, clean, window, starts, blind>>

SingleCommand ==
  /\ single.at = "command" /\ Commanded(single.board)
  /\ \/ /\ Reaches(single.board)
        /\ single' = [single EXCEPT !.at = "end", !.queue = Append(@, "need_reboot")]
     \/ SingleGoto("end")
  /\ UNCHANGED <<files, post, batch, clean, window, starts, touched, blind>>

SingleFinish ==
  /\ single.at = "end"
  /\ single' = [single EXCEPT !.at = "gone", !.queue = Append(@, "finished")]
  /\ UNCHANGED <<files, power, post, batch, clean, window, starts, touched, blind>>

Upgrade == SingleList \/ SingleUpload \/ SingleCommand \/ SingleFinish

-----------------------------------------------------------------------------
(* SDSDCleanWorker.                                                        *)

NoClean == [at |-> "off", todo |-> {}, try |-> 1]

StartClean ==
  /\ starts < MaxStarts /\ starts' = starts + 1
  /\ window.cleanBtn /\ ~window.clean
  /\ \E chosen \in SUBSET Boards \ {{}} : clean' = [at |-> "clean", todo |-> chosen, try |-> 1]
  /\ window' = [window EXCEPT !.clean = TRUE, !.cleanBtn = FALSE]
  /\ UNCHANGED <<files, power, post, batch, single, touched, blind>>

CleanBoard(b) ==
  /\ clean.at = "clean" /\ b \in clean.todo
  /\ \E left \in SUBSET files[b] : Deleted(b, left)
  /\ Touch(b)
  /\ \/ /\ Reaches(b) \/ clean.try = Attempts
        /\ clean' = [clean EXCEPT !.todo = @ \ {b}, !.try = 1]
     \/ /\ clean.try < Attempts
        /\ clean' = [clean EXCEPT !.try = @ + 1]
  /\ UNCHANGED <<power, post, batch, single, window, starts, blind>>

CleanFinish ==
  /\ clean.at = "clean" /\ clean.todo = {}
  /\ clean' = [clean EXCEPT !.at = "gone"]
  /\ UNCHANGED <<files, power, post, batch, single, window, starts, touched, blind>>

Clean == CleanFinish \/ \E b \in Boards : CleanBoard(b)

-----------------------------------------------------------------------------
(* _poll_workers: each message of the workers the window refers to.        *)

WindowInit == [ota |-> FALSE, post |-> FALSE, batch |-> FALSE, clean |-> FALSE,
               otaBtn |-> TRUE, batchBtn |-> TRUE, cleanBtn |-> TRUE]

\* _on_ota_need_reboot.
DrainNeedReboot ==
  /\ window.ota /\ single.queue # <<>> /\ Head(single.queue) = "need_reboot"
  /\ single' = [single EXCEPT !.queue = Tail(@)]
  /\ post' = [post EXCEPT ![Single] = PostStarted(single.board)]
  /\ window' = [window EXCEPT !.post = TRUE]
  /\ UNCHANGED <<files, power, batch, clean, starts, touched, blind>>

\* _ota_worker_done: the button waits for the post worker.
DrainFinished ==
  /\ window.ota /\ single.queue # <<>> /\ Head(single.queue) = "finished"
  /\ single' = NoSingle
  /\ window' = [window EXCEPT !.ota = FALSE, !.otaBtn = @ \/ ~window.post]
  /\ UNCHANGED <<files, power, post, batch, clean, starts, touched, blind>>

\* Mutant: only a result ends the wait for the reboot.
DrainPostResultOnly ==
  /\ window.post /\ post[Single].queue # <<>>
  /\ post' = [post EXCEPT ![Single].queue = Tail(@)]
  /\ window' = IF Head(post[Single].queue) = "result"
               THEN [window EXCEPT !.post = FALSE, !.otaBtn = TRUE] ELSE window
  /\ UNCHANGED <<files, power, batch, single, clean, starts, touched, blind>>

\* _drain_ota_post_queue: the result is shown, and finished_post ends the wait.
DrainPost ==
  /\ window.post /\ post[Single].queue # <<>>
  /\ post' = [post EXCEPT ![Single].queue = Tail(@)]
  /\ window' = IF Head(post[Single].queue) = "finished_post"
               THEN [window EXCEPT !.post = FALSE, !.otaBtn = TRUE] ELSE window
  /\ UNCHANGED <<files, power, batch, single, clean, starts, touched, blind>>

\* _batch_ota_worker_done: both buttons, whatever else is running.
DrainBatch ==
  /\ window.batch /\ batch.at = "gone"
  /\ window' = [window EXCEPT !.batch = FALSE, !.batchBtn = TRUE, !.otaBtn = TRUE]
  /\ UNCHANGED <<files, power, post, batch, single, clean, starts, touched, blind>>

DrainClean ==
  /\ window.clean /\ clean.at = "gone"
  /\ window' = [window EXCEPT !.clean = FALSE, !.cleanBtn = TRUE]
  /\ UNCHANGED <<files, power, post, batch, single, clean, starts, touched, blind>>

PollWorkers == DrainNeedReboot \/ DrainFinished \/ DrainPost \/ DrainBatch \/ DrainClean

-----------------------------------------------------------------------------

FirmwareInit ==
  /\ files \in [Boards -> {{}, {"old"}}] /\ power = None("up")
  /\ post = [o \in Owners |-> NoPost]
  /\ batch = NoBatch /\ single = NoSingle /\ clean = NoClean
  /\ window = WindowInit
  /\ starts = 0 /\ touched = None(FALSE) /\ blind = {}

StartUpgrade == StartOta \/ StartBatch \/ StartClean
Post(o) == PostTry(o) \/ PostFinish(o)

FirmwareNext == StartUpgrade \/ Device \/ Batch \/ Upgrade \/ Clean \/ PollWorkers
                \/ \E o \in Owners : Post(o)

\* Threads are scheduled, their deadlines pass, and the timer polls every 50 ms.
FirmwareFairness ==
  /\ WF_firmwareVars(Batch) /\ WF_firmwareVars(Upgrade) /\ WF_firmwareVars(Clean)
  /\ WF_firmwareVars(PollWorkers) /\ \A o \in Owners : WF_firmwareVars(Post(o))

FirmwareSpec == FirmwareInit /\ [][FirmwareNext]_firmwareVars /\ FirmwareFairness

-----------------------------------------------------------------------------
(* Properties.                                                             *)

\* Every device the user chose for a batch upgrade is counted exactly once when the
\* batch ends, as ready or as failed, whatever failed, was late or ran out of time;
\* and never twice meanwhile.
CountedOnce ==
  /\ \A b \in Boards : batch.ready[b] + batch.failed[b] <= 1
  /\ batch.at \in {"end", "gone"} =>
       \A b \in batch.chosen : batch.ready[b] + batch.failed[b] = 1

\* The batch commands an upgrade only when the device has the complete image the batch
\* uploaded, unless an SD card cleaning or a single upgrade has changed its files since.
CommandedWithImage == blind = {}

\* Every upgrade and every cleaning ends with its buttons enabled again, except a batch
\* whose firmware file has vanished before its thread starts.
ButtonsComeBack ==
  /\ ~window.otaBtn ~> (window.otaBtn \/ batch.at = "crashed")
  /\ ~window.batchBtn ~> (window.batchBtn \/ batch.at = "crashed")
  /\ ~window.cleanBtn ~> window.cleanBtn
================================================================================
