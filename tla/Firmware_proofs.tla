---------------------------- MODULE Firmware_proofs ----------------------------
(***************************************************************************)
(* What the batch upgrade keeps for any number of devices, of attempts and *)
(* of upgrades and cleanings started beside it: every device is accounted  *)
(* for once, and commanded only with the image it was sent.                *)
(***************************************************************************)
EXTENDS Firmware, TLAPS

------------------------------------------------------------------------------
(* Every device is counted once.                                           *)

BatchSteps == {"off", "begin", "next", "delete", "upload", "command", "wait", "check", "end",
               "gone", "crashed"}

\* The record of an OTABatchWorker.
BatchType ==
  batch \in [at : BatchSteps, chosen : SUBSET Boards, todo : SUBSET Boards,
             board : Boards \cup {NoPost.board}, try : Nat, waiting : SUBSET Boards,
             uploaded : Nat, ready : [Boards -> Nat], failed : [Boards -> Nat]]

\* The device the worker is busy with: an attempt's, or one whose queue was empty.
AtBoard == batch.at \in {"delete", "upload", "command"}

\* The worker has still to deal with the device.
Pending(b) == b \in batch.todo \cup batch.waiting \/ (AtBoard /\ b = batch.board)

Counted(b) == batch.ready[b] + batch.failed[b]

\* A device waits for one thing at a time.
PendingOnce ==
  /\ AtBoard => batch.board \in Boards \ (batch.todo \cup batch.waiting)
  /\ batch.todo \cap batch.waiting = {}
  /\ batch.at = "check" => batch.board \in batch.waiting
  /\ batch.at \in {"wait", "check", "end", "gone"} => batch.todo = {}
  /\ batch.at \in {"end", "gone"} => batch.waiting = {}

\* What is pending is not counted yet, what was chosen and is not pending is.
Accounts ==
  \A b \in Boards :
    /\ Pending(b) => Counted(b) = 0
    /\ ~Pending(b) => Counted(b) <= 1
    /\ b \in batch.chosen /\ ~Pending(b) => Counted(b) = 1

CountInv == BatchType /\ PendingOnce /\ Accounts

\* A step that leaves the batch worker alone.
LEMMA CountFrame == CountInv /\ UNCHANGED batch => CountInv'
BY DEF CountInv, BatchType, PendingOnce, Accounts, Pending, AtBoard, Counted

\* Between devices, and before the first and after the last, the accounts stand.
LEMMA MoveOn ==
  ASSUME CountInv, NEW s \in BatchSteps, ~AtBoard, batch' = [batch EXCEPT !.at = s],
         s \notin {"delete", "upload", "command", "check"},
         s \in {"wait", "end", "gone"} => batch.todo = {},
         s \in {"end", "gone"} => batch.waiting = {}
  PROVE  CountInv'
<1>1. BatchType'
  BY DEF CountInv, BatchType
<1>2. ~AtBoard'
  BY DEF CountInv, BatchType, AtBoard
<1>3. PendingOnce'
  BY <1>2 DEF CountInv, BatchType, PendingOnce
<1>4. Accounts'
  BY <1>2 DEF CountInv, BatchType, Accounts, Pending, Counted
<1> QED
  BY <1>1, <1>3, <1>4 DEF CountInv

\* An attempt that failed is repeated or counts its device as failed.
LEMMA AttemptCounts ==
  ASSUME CountInv, AtBoard, AttemptFailed
  PROVE  CountInv'
<1>1. batch.board \in Boards /\ Counted(batch.board) = 0
  BY DEF CountInv, PendingOnce, Accounts, Pending
<1>2. CASE batch' = [batch EXCEPT !.try = @ + 1]
  <2>1. BatchType' /\ (AtBoard' <=> AtBoard)
    BY <1>2 DEF CountInv, BatchType, AtBoard
  <2>2. PendingOnce' /\ Accounts'
    BY <1>2, <2>1 DEF CountInv, BatchType, PendingOnce, Accounts, Pending, Counted
  <2> QED
    BY <2>1, <2>2 DEF CountInv
<1>3. CASE batch' = [batch EXCEPT !.at = "next", !.failed[batch.board] = @ + 1]
  <2>1. /\ BatchType' /\ ~AtBoard'
        /\ batch'.at = "next"
        /\ batch'.failed = [batch.failed EXCEPT ![batch.board] = @ + 1]
        /\ batch'.todo = batch.todo /\ batch'.waiting = batch.waiting
        /\ batch'.chosen = batch.chosen /\ batch'.ready = batch.ready
    <3>1. /\ batch'.at = "next"
          /\ batch'.failed = [batch.failed EXCEPT ![batch.board] = @ + 1]
          /\ batch'.todo = batch.todo /\ batch'.waiting = batch.waiting
          /\ batch'.chosen = batch.chosen /\ batch'.ready = batch.ready
      BY <1>3 DEF CountInv, BatchType
    <3>2. batch'.failed \in [Boards -> Nat]
      BY <1>1, <3>1 DEF CountInv, BatchType
    <3>3. batch' = [batch EXCEPT !.at = "next", !.failed = batch'.failed]
      BY <1>3, <3>1 DEF CountInv, BatchType
    <3>4. BatchType'
      BY <3>2, <3>3 DEF CountInv, BatchType, BatchSteps
    <3> QED
      BY <3>1, <3>4 DEF AtBoard
  <2>2. PendingOnce'
    BY <2>1 DEF CountInv, PendingOnce
  <2>3. Accounts'
    <3> SUFFICES ASSUME NEW b \in Boards
                 PROVE  /\ Pending(b)' => Counted(b)' = 0
                        /\ ~Pending(b)' => Counted(b)' <= 1
                        /\ b \in batch'.chosen /\ ~Pending(b)' => Counted(b)' = 1
      BY DEF Accounts
    <3>1. CASE b = batch.board
      <4>1. Counted(b)' = Counted(b) + 1
        BY <1>1, <2>1, <3>1 DEF CountInv, BatchType, Counted
      <4>2. ~Pending(b)'
        BY <2>1, <3>1 DEF CountInv, PendingOnce, Pending
      <4> QED
        BY <1>1, <3>1, <4>1, <4>2
    <3>2. CASE b # batch.board
      <4>1. Counted(b)' = Counted(b) /\ (Pending(b)' <=> Pending(b))
        BY <1>1, <2>1, <3>2 DEF CountInv, BatchType, Counted, Pending
      <4> QED
        BY <2>1, <4>1 DEF CountInv, Accounts
    <3> QED
      BY <3>1, <3>2
  <2> QED
    BY <2>1, <2>2, <2>3 DEF CountInv
<1> QED
  BY <1>2, <1>3 DEF AttemptFailed

\* From one phase of a device to the next.
LEMMA ProceedCounts ==
  ASSUME CountInv, AtBoard, NEW s \in {"upload", "command"}, Proceed(s)
  PROVE  CountInv'
<1>1. BatchType' /\ AtBoard'
  BY DEF CountInv, BatchType, AtBoard, Proceed, BatchSteps
<1>2. PendingOnce'
  BY <1>1 DEF CountInv, BatchType, AtBoard, Proceed, PendingOnce
<1>3. Accounts'
  BY <1>1 DEF CountInv, BatchType, Proceed, Accounts, Pending, Counted
<1> QED
  BY <1>1, <1>2, <1>3 DEF CountInv

\* A waiting device is counted, as ready or as failed, and waits no more.
LEMMA WaitEnds ==
  ASSUME CountInv, NEW b \in batch.waiting, ~AtBoard, batch.todo = {},
         NEW r \in [Boards -> Nat], NEW f \in [Boards -> Nat],
         \A d \in Boards : r[d] + f[d] = IF d = b THEN Counted(d) + 1 ELSE Counted(d),
         batch' = [batch EXCEPT !.at = "wait", !.waiting = @ \ {b}, !.ready = r, !.failed = f]
  PROVE  CountInv'
<1>1. b \in Boards
  BY DEF CountInv, BatchType
<1>2. /\ batch'.at = "wait" /\ batch'.waiting = batch.waiting \ {b} /\ batch'.todo = {}
      /\ batch'.chosen = batch.chosen /\ batch'.ready = r /\ batch'.failed = f
      /\ BatchType' /\ ~AtBoard'
  BY DEF CountInv, BatchType, AtBoard, BatchSteps
<1>3. PendingOnce'
  BY <1>2 DEF PendingOnce
<1>4. Accounts'
  <2> SUFFICES ASSUME NEW d \in Boards
               PROVE  /\ Pending(d)' => Counted(d)' = 0
                      /\ ~Pending(d)' => Counted(d)' <= 1
                      /\ d \in batch'.chosen /\ ~Pending(d)' => Counted(d)' = 1
    BY DEF Accounts
  <2>1. CASE d = b
    BY <1>2, <2>1 DEF CountInv, Accounts, Pending, Counted
  <2>2. CASE d # b
    <3>1. Counted(d)' = Counted(d) /\ (Pending(d)' <=> Pending(d))
      BY <1>2, <2>2 DEF Counted, Pending
    <3> QED
      BY <1>2, <3>1 DEF CountInv, Accounts
  <2> QED
    BY <2>1, <2>2
<1> QED
  BY <1>2, <1>3, <1>4 DEF CountInv

\* A batch that starts has counted nothing.
LEMMA StartCounts ==
  ASSUME NEW S \in SUBSET Boards, NEW s \in {"off", "begin"},
         batch' = [NoBatch EXCEPT !.at = s, !.chosen = S, !.todo = S]
  PROVE  CountInv'
<1>1. /\ batch'.at = s /\ batch'.chosen = S /\ batch'.todo = S /\ batch'.waiting = {}
      /\ batch'.ready = [b \in Boards |-> 0] /\ batch'.failed = [b \in Boards |-> 0]
  BY DEF NoBatch, None
<1>2. BatchType'
  BY DEF BatchType, NoBatch, None, BatchSteps
<1>3. ~AtBoard' /\ PendingOnce'
  BY <1>1 DEF AtBoard, PendingOnce
<1>4. Accounts'
  BY <1>1, <1>3 DEF Accounts, Pending, Counted
<1> QED
  BY <1>2, <1>3, <1>4 DEF CountInv

\* The worker's steps up to the last command.
LEMMA CommandsCount ==
  ASSUME CountInv,
         BatchBegin \/ BatchNext \/ BatchDelete \/ BatchUpload \/ BatchCommand
  PROVE  CountInv'
<1>1. CASE BatchBegin
  BY <1>1, MoveOn DEF BatchBegin, AtBoard, BatchSteps
<1>2. CASE BatchNext
  <2>1. ASSUME NEW b \in batch.todo, batch.at = "next",
               batch' = [batch EXCEPT !.at = "delete", !.board = b, !.try = 1, !.todo = @ \ {b}]
        PROVE  CountInv'
    <3>1. b \in Boards /\ b \notin batch.waiting
      BY DEF CountInv, BatchType, PendingOnce
    <3>2. /\ batch'.at = "delete" /\ batch'.board = b /\ batch'.todo = batch.todo \ {b}
          /\ batch'.waiting = batch.waiting /\ batch'.chosen = batch.chosen
          /\ batch'.ready = batch.ready /\ batch'.failed = batch.failed
          /\ BatchType' /\ AtBoard' /\ ~AtBoard
      BY <2>1, <3>1 DEF CountInv, BatchType, AtBoard, BatchSteps
    <3>3. PendingOnce'
      BY <3>1, <3>2 DEF CountInv, PendingOnce
    <3>4. Accounts'
      <4>1. \A d \in Boards : Pending(d)' <=> Pending(d)
        BY <3>2 DEF Pending
      <4> QED
        BY <3>2, <4>1 DEF CountInv, Accounts, Counted
    <3> QED
      BY <3>2, <3>3, <3>4 DEF CountInv
  <2>2. CASE /\ batch.at = "next" /\ batch.todo = {}
             /\ batch' = [batch EXCEPT !.at = IF batch.waiting = {} THEN "end" ELSE "wait"]
    BY <2>2, MoveOn DEF AtBoard, BatchSteps
  <2> QED
    BY <1>2, <2>1, <2>2 DEF BatchNext
<1>3. CASE BatchDelete
  BY <1>3, ProceedCounts, AttemptCounts DEF BatchDelete, AtBoard
<1>4. CASE BatchUpload
  BY <1>4, ProceedCounts, AttemptCounts DEF BatchUpload, AtBoard
<1>5. CASE BatchCommand
  <2>1. CASE /\ batch.at = "command"
             /\ batch' = [batch EXCEPT !.at = "next", !.waiting = @ \cup {batch.board},
                                       !.uploaded = @ + 1]
    <3>1. batch.board \in Boards \ (batch.todo \cup batch.waiting) /\ AtBoard
      BY <2>1 DEF CountInv, PendingOnce, AtBoard
    <3>2. /\ batch'.at = "next" /\ batch'.waiting = batch.waiting \cup {batch.board}
          /\ batch'.todo = batch.todo /\ batch'.chosen = batch.chosen
          /\ batch'.ready = batch.ready /\ batch'.failed = batch.failed
          /\ BatchType' /\ ~AtBoard'
      <4>1. /\ batch.waiting \cup {batch.board} \in SUBSET Boards
            /\ batch.uploaded + 1 \in Nat
        BY <3>1 DEF CountInv, BatchType
      <4>2. BatchType'
        BY <2>1, <4>1 DEF CountInv, BatchType, BatchSteps
      <4> QED
        BY <2>1, <4>2 DEF CountInv, BatchType, AtBoard
    <3>3. PendingOnce'
      BY <3>1, <3>2 DEF CountInv, PendingOnce
    <3>4. \A d \in Boards : Pending(d)' <=> Pending(d)
      BY <3>1, <3>2 DEF Pending
    <3> QED
      BY <3>2, <3>3, <3>4 DEF CountInv, Accounts, Counted
  <2> QED
    BY <1>5, <2>1, AttemptCounts DEF BatchCommand, AtBoard
<1> QED
  BY <1>1, <1>2, <1>3, <1>4, <1>5

\* The worker's steps while it waits for the reboots, and its end.
LEMMA WaitsCount ==
  ASSUME CountInv,
         \/ BatchCheck \/ BatchStopWaiting \/ BatchFinish
         \/ \E b \in Boards : BatchPoll(b)
  PROVE  CountInv'
<1>1. CASE BatchCheck
  <2>1. batch.at = "check" /\ ~AtBoard /\ batch.todo = {} /\ batch.board \in batch.waiting
    BY <1>1 DEF BatchCheck, CountInv, PendingOnce, AtBoard
  <2>2. CASE batch' = [batch EXCEPT !.at = "wait"]
    BY <2>1, <2>2, MoveOn DEF BatchSteps
  <2>3. CASE batch' = [batch EXCEPT !.at = "wait", !.waiting = @ \ {batch.board},
                                    !.failed[batch.board] = @ + 1]
    <3> DEFINE f == [batch.failed EXCEPT ![batch.board] = @ + 1]
    <3>1. /\ batch.board \in Boards
          /\ batch.ready \in [Boards -> Nat] /\ batch.failed \in [Boards -> Nat]
      BY <2>1 DEF CountInv, BatchType
    <3>2. f \in [Boards -> Nat]
      BY <3>1
    <3>3. \A d \in Boards : batch.ready[d] + f[d] =
            IF d = batch.board THEN Counted(d) + 1 ELSE Counted(d)
      BY <3>1 DEF Counted
    <3>4. batch' = [batch EXCEPT !.at = "wait", !.waiting = @ \ {batch.board},
                                 !.ready = batch.ready, !.failed = f]
      BY <2>3 DEF CountInv, BatchType
    <3> HIDE DEF f
    <3> QED
      BY <2>1, <3>1, <3>2, <3>3, <3>4, WaitEnds
  <2> QED
    BY <1>1, <2>2, <2>3 DEF BatchCheck
<1>2. CASE BatchStopWaiting
  <2> DEFINE f == [b \in Boards |-> IF b \in batch.waiting THEN batch.failed[b] + 1
                                    ELSE batch.failed[b]]
  <2>1. /\ batch.at = "wait" /\ ~AtBoard /\ batch.todo = {}
        /\ batch' = [batch EXCEPT !.at = "end", !.waiting = {}, !.failed = f]
    BY <1>2 DEF BatchStopWaiting, CountInv, PendingOnce, AtBoard
  <2>2. f \in [Boards -> Nat]
    BY DEF CountInv, BatchType
  <2>3. /\ batch'.at = "end" /\ batch'.waiting = {} /\ batch'.todo = {}
        /\ batch'.chosen = batch.chosen /\ batch'.ready = batch.ready /\ batch'.failed = f
        /\ BatchType' /\ ~AtBoard'
    BY <2>1, <2>2 DEF CountInv, BatchType, AtBoard, BatchSteps
  <2>4. PendingOnce'
    BY <2>3 DEF PendingOnce
  <2>5. Accounts'
    <3> SUFFICES ASSUME NEW b \in Boards
                 PROVE  /\ Pending(b)' => Counted(b)' = 0
                        /\ ~Pending(b)' => Counted(b)' <= 1
                        /\ b \in batch'.chosen /\ ~Pending(b)' => Counted(b)' = 1
      BY DEF Accounts
    <3>1. ~Pending(b)' /\ (Pending(b) <=> b \in batch.waiting)
      BY <2>1, <2>3 DEF Pending
    <3>2. Counted(b)' = IF b \in batch.waiting THEN Counted(b) + 1 ELSE Counted(b)
      BY <2>3 DEF CountInv, BatchType, Counted
    <3> QED
      BY <2>3, <3>1, <3>2 DEF CountInv, Accounts
  <2> QED
    BY <2>3, <2>4, <2>5 DEF CountInv
<1>3. CASE BatchFinish
  BY <1>3, MoveOn DEF BatchFinish, AtBoard, BatchSteps, CountInv, PendingOnce
<1>4. ASSUME NEW b \in Boards, BatchPoll(b) PROVE CountInv'
  <2>1. batch.at = "wait" /\ b \in batch.waiting /\ ~AtBoard /\ batch.todo = {}
    BY <1>4 DEF BatchPoll, CountInv, PendingOnce, AtBoard
  <2>2. CASE batch' = [batch EXCEPT !.at = "check", !.board = b]
    <3>1. /\ batch'.at = "check" /\ batch'.board = b /\ batch'.waiting = batch.waiting
          /\ batch'.todo = {} /\ batch'.chosen = batch.chosen
          /\ batch'.ready = batch.ready /\ batch'.failed = batch.failed
          /\ BatchType' /\ ~AtBoard'
      BY <2>1, <2>2 DEF CountInv, BatchType, AtBoard, BatchSteps
    <3>2. PendingOnce'
      BY <2>1, <3>1 DEF PendingOnce
    <3>3. \A d \in Boards : Pending(d)' <=> Pending(d)
      BY <2>1, <3>1 DEF Pending
    <3> QED
      BY <3>1, <3>2, <3>3 DEF CountInv, Accounts, Counted
  <2>3. /\ batch.ready \in [Boards -> Nat] /\ batch.failed \in [Boards -> Nat]
        /\ batch = [batch EXCEPT !.at = "wait"]
    BY <2>1 DEF CountInv, BatchType
  <2>4. CASE batch' = [batch EXCEPT !.waiting = @ \ {b}, !.ready[b] = @ + 1]
    <3> DEFINE r == [batch.ready EXCEPT ![b] = @ + 1]
    <3>1. r \in [Boards -> Nat]
      BY <2>3
    <3>2. \A d \in Boards : r[d] + batch.failed[d] = IF d = b THEN Counted(d) + 1 ELSE Counted(d)
      BY <2>3 DEF Counted
    <3>3. batch' = [batch EXCEPT !.at = "wait", !.waiting = @ \ {b},
                                 !.ready = r, !.failed = batch.failed]
      BY <2>1, <2>4 DEF CountInv, BatchType
    <3> HIDE DEF r
    <3> QED
      BY <2>1, <2>3, <3>1, <3>2, <3>3, WaitEnds
  <2>5. CASE batch' = [batch EXCEPT !.waiting = @ \ {b}, !.failed[b] = @ + 1]
    <3> DEFINE f == [batch.failed EXCEPT ![b] = @ + 1]
    <3>1. f \in [Boards -> Nat]
      BY <2>3
    <3>2. \A d \in Boards : batch.ready[d] + f[d] = IF d = b THEN Counted(d) + 1 ELSE Counted(d)
      BY <2>3 DEF Counted
    <3>3. batch' = [batch EXCEPT !.at = "wait", !.waiting = @ \ {b},
                                 !.ready = batch.ready, !.failed = f]
      BY <2>1, <2>5 DEF CountInv, BatchType
    <3> HIDE DEF f
    <3> QED
      BY <2>1, <2>3, <3>1, <3>2, <3>3, WaitEnds
  <2> QED
    BY <1>4, <2>2, <2>4, <2>5 DEF BatchPoll
<1> QED
  BY <1>1, <1>2, <1>3, <1>4

\* Everything that leaves the batch worker alone.
LEMMA OthersCount ==
  ASSUME CountInv,
         \/ StartOta \/ StartClean \/ Device \/ Upgrade \/ Clean \/ PollWorkers
         \/ \E o \in Owners : Post(o)
  PROVE  CountInv'
<1>1. UNCHANGED batch
  BY DEF StartOta, StartClean, Device, GoDown, ComeUp, Upgrade, SingleList, SingleUpload,
         SingleCommand, SingleFinish, Clean, CleanBoard, CleanFinish, PollWorkers,
         DrainNeedReboot, DrainFinished, DrainPost, DrainBatch, DrainClean, Post, PostTry,
         PostFinish
<1> QED
  BY <1>1, CountFrame

\* The accounts of the batch are right in every reachable state.
LEMMA CountInvariant == FirmwareSpec => []CountInv
<1>1. FirmwareInit => CountInv
  <2> SUFFICES ASSUME batch = NoBatch PROVE CountInv
    BY DEF FirmwareInit
  <2>1. BatchType
    BY DEF BatchType, NoBatch, None, BatchSteps
  <2>2. /\ batch.at = "off" /\ batch.chosen = {} /\ batch.todo = {} /\ batch.waiting = {}
        /\ batch.ready = [b \in Boards |-> 0] /\ batch.failed = [b \in Boards |-> 0]
    BY DEF NoBatch, None
  <2> QED
    BY <2>1, <2>2 DEF CountInv, PendingOnce, Accounts, Pending, Counted, AtBoard
<1>2. CountInv /\ [FirmwareNext]_firmwareVars => CountInv'
  <2> SUFFICES ASSUME CountInv, [FirmwareNext]_firmwareVars PROVE CountInv'
    OBVIOUS
  <2>1. CASE UNCHANGED firmwareVars
    BY <2>1, CountFrame DEF firmwareVars
  <2>2. CASE StartBatch
    BY <2>2, StartCounts DEF StartBatch
  <2> QED
    BY <2>1, <2>2, CommandsCount, WaitsCount, OthersCount DEF FirmwareNext, StartUpgrade, Batch
<1> QED
  BY <1>1, <1>2, PTL DEF FirmwareSpec

\* Every device chosen for a batch is counted exactly once, as ready or as
\* failed, whatever attempts fail and whichever post workers are late or die
\* (OTABatchWorker._run, its pending list and the loop that waits for reboots).
THEOREM BatchCountsOnce == FirmwareSpec => []CountedOnce
<1>1. CountInv => CountedOnce
  <2> SUFFICES ASSUME CountInv PROVE CountedOnce
    OBVIOUS
  <2>1. \A b \in Boards : batch.ready[b] + batch.failed[b] <= 1
    BY DEF CountInv, Accounts, Counted
  <2>2. batch.at \in {"end", "gone"} => \A b \in Boards : ~Pending(b)
    BY DEF CountInv, PendingOnce, Pending, AtBoard
  <2>3. batch.chosen \subseteq Boards
    BY DEF CountInv, BatchType
  <2> QED
    BY <2>1, <2>2, <2>3 DEF CountInv, Accounts, Counted, CountedOnce
<1> QED
  BY <1>1, CountInvariant, PTL

------------------------------------------------------------------------------
(* A device is commanded with the image it was sent.                       *)

FilesType ==
  /\ files \in [Boards -> SUBSET {"old", "new", "part"}]
  /\ touched \in [Boards -> BOOLEAN]

\* The image is there, or somebody else is to blame.
HasImage(b) == "new" \in files[b] \/ touched[b]

ImageInv ==
  /\ FilesType
  /\ batch.at = "command" => HasImage(batch.board)
  /\ blind = {}

\* Nobody but the batch takes the image away without a trace.
LEMMA ImageFrame ==
  ASSUME CountInv, ImageInv, UNCHANGED blind, FilesType',
         \A b \in Boards : HasImage(b) => HasImage(b)',
         batch'.at = "command" => batch.at = "command" /\ batch'.board = batch.board
  PROVE  ImageInv'
<1>1. batch.at = "command" => batch.board \in Boards
  BY DEF CountInv, PendingOnce, AtBoard
<1> QED
  BY <1>1 DEF ImageInv

\* Steps that touch no file.
LEMMA OtherStepsImage ==
  ASSUME CountInv, ImageInv, UNCHANGED <<files, touched, blind>>,
         batch'.at = "command" => batch.at = "command" /\ batch'.board = batch.board
  PROVE  ImageInv'
BY ImageFrame DEF ImageInv, FilesType, HasImage

\* An attempt that failed: the same device, or the next.
LEMMA AttemptStays ==
  ASSUME CountInv, AttemptFailed
  PROVE  batch'.at \in {batch.at, "next"} /\ batch'.board = batch.board
BY DEF AttemptFailed, CountInv, BatchType

\* The single upgrade and the cleaning leave a trace.
LEMMA TouchImage ==
  ASSUME CountInv, ImageInv, UNCHANGED <<batch, blind>>, NEW b \in Boards, Touch(b),
         NEW left \in SUBSET {"old", "new", "part"}, files' = [files EXCEPT ![b] = left]
  PROVE  ImageInv'
<1>1. FilesType'
  BY DEF ImageInv, FilesType, Touch
<1>2. \A d \in Boards : HasImage(d) => HasImage(d)'
  BY DEF ImageInv, FilesType, Touch, HasImage
<1> QED
  BY <1>1, <1>2, ImageFrame

\* What storing leaves, complete or not.
LEMMA StoredType ==
  ASSUME FilesType, NEW b \in Boards, Stored(b) \/ StoreBroken(b)
  PROVE  \E left \in SUBSET {"old", "new", "part"} : files' = [files EXCEPT ![b] = left]
<1>1. files[b] \in SUBSET {"old", "new", "part"}
  BY DEF FilesType
<1>2. CASE Stored(b)
  <2>1. files' = [files EXCEPT ![b] = (files[b] \ {"part"}) \cup {"new"}]
    BY <1>2 DEF Stored
  <2> QED
    BY <1>1, <2>1
<1>3. CASE StoreBroken(b)
  BY <1>1, <1>3 DEF StoreBroken
<1> QED
  BY <1>2, <1>3

\* The batch uploads before it commands, and commands again what it has.
LEMMA BatchImage ==
  ASSUME CountInv, ImageInv, Batch
  PROVE  ImageInv'
<1>1. CASE BatchBegin \/ BatchNext \/ BatchCheck \/ BatchStopWaiting \/ BatchFinish
           \/ \E b \in Boards : BatchPoll(b)
  <2>1. UNCHANGED <<files, touched, blind>>
    BY <1>1 DEF BatchBegin, BatchNext, BatchCheck, BatchStopWaiting, BatchFinish, BatchPoll
  <2>2. batch'.at # "command"
    BY <1>1 DEF BatchBegin, BatchNext, BatchCheck, BatchStopWaiting, BatchFinish, BatchPoll,
                CountInv, BatchType
  <2> QED
    BY <2>1, <2>2, OtherStepsImage
<1>2. CASE BatchDelete
  <2> DEFINE b == batch.board
  <2>1. b \in Boards /\ UNCHANGED <<touched, blind>>
    BY <1>2 DEF BatchDelete, CountInv, PendingOnce, AtBoard
  <2>2. batch'.at # "command"
    BY <1>2, AttemptStays DEF BatchDelete, Proceed, CountInv, BatchType
  <2>3. FilesType'
    <3>1. PICK left \in SUBSET files[b] : files' = [files EXCEPT ![b] = left]
      BY <1>2 DEF BatchDelete, Deleted
    <3> QED
      BY <2>1, <3>1 DEF ImageInv, FilesType
  <2> QED
    BY <2>1, <2>2, <2>3 DEF ImageInv
<1>3. CASE BatchUpload
  <2> DEFINE b == batch.board
  <2>1. /\ b \in Boards /\ UNCHANGED blind /\ batch.at = "upload"
        /\ touched' = [touched EXCEPT ![b] = FALSE]
        /\ \/ Stored(b) /\ Proceed("command")
           \/ StoreBroken(b) /\ AttemptFailed
    BY <1>3 DEF BatchUpload, CountInv, PendingOnce, AtBoard
  <2>2. FilesType'
    <3>1. PICK left \in SUBSET {"old", "new", "part"} : files' = [files EXCEPT ![b] = left]
      BY <2>1, StoredType DEF ImageInv
    <3> QED
      BY <2>1, <3>1 DEF ImageInv, FilesType
  <2>3. CASE StoreBroken(b) /\ AttemptFailed
    BY <2>1, <2>2, <2>3, AttemptStays DEF ImageInv
  <2>4. CASE Stored(b) /\ Proceed("command")
    <3>1. "new" \in files'[b] /\ batch'.board = b
      BY <2>1, <2>4 DEF Stored, Proceed, ImageInv, FilesType, CountInv, BatchType
    <3> QED
      BY <2>1, <2>2, <3>1 DEF ImageInv, HasImage
  <2> QED
    BY <2>1, <2>3, <2>4
<1>4. CASE BatchCommand
  <2>1. HasImage(batch.board) /\ UNCHANGED <<files, touched>>
    BY <1>4 DEF BatchCommand, ImageInv
  <2>2. UNCHANGED blind
    BY <1>4, <2>1 DEF BatchCommand, HasImage
  <2>3. batch'.at = "command" => batch.at = "command" /\ batch'.board = batch.board
    BY <1>4, AttemptStays DEF BatchCommand, CountInv, BatchType
  <2> QED
    BY <2>1, <2>2, <2>3, OtherStepsImage
<1> QED
  BY <1>1, <1>2, <1>3, <1>4 DEF Batch

\* The single upgrade touches the device it is of.
LEMMA UpgradeImage ==
  ASSUME CountInv, ImageInv, Upgrade
  PROVE  ImageInv'
<1>1. CASE SingleList \/ SingleCommand \/ SingleFinish
  BY <1>1, OtherStepsImage DEF SingleList, SingleCommand, SingleFinish
<1>2. CASE SingleUpload
  <2> DEFINE b == single.board
  <2>1. Touch(b) /\ UNCHANGED <<batch, blind>> /\ (Stored(b) \/ StoreBroken(b))
    BY <1>2 DEF SingleUpload
  <2>2. CASE b \in Boards
    <3>1. PICK left \in SUBSET {"old", "new", "part"} : files' = [files EXCEPT ![b] = left]
      BY <2>1, <2>2, StoredType DEF ImageInv
    <3> QED
      BY <2>1, <2>2, <3>1, TouchImage
  <2>3. CASE b \notin Boards
    BY <2>1, <2>3, OtherStepsImage DEF Touch, Stored, StoreBroken, ImageInv, FilesType
  <2> QED
    BY <2>2, <2>3
<1> QED
  BY <1>1, <1>2 DEF Upgrade

\* So does the cleaning.
LEMMA CleanImage ==
  ASSUME CountInv, ImageInv, Clean
  PROVE  ImageInv'
<1>1. CASE CleanFinish
  BY <1>1, OtherStepsImage DEF CleanFinish
<1>2. ASSUME NEW b \in Boards, CleanBoard(b) PROVE ImageInv'
  <2>1. PICK left \in SUBSET files[b] : files' = [files EXCEPT ![b] = left]
    BY <1>2 DEF CleanBoard, Deleted
  <2>2. left \in SUBSET {"old", "new", "part"}
    BY DEF ImageInv, FilesType
  <2> QED
    BY <1>2, <2>1, <2>2, TouchImage DEF CleanBoard
<1> QED
  BY <1>1, <1>2 DEF Clean

\* The image is where it is needed in every reachable state.
LEMMA ImageInvariant == FirmwareSpec => []ImageInv
<1>1. FirmwareInit => ImageInv
  <2> SUFFICES ASSUME FirmwareInit PROVE ImageInv
    OBVIOUS
  <2>1. files \in [Boards -> SUBSET {"old", "new", "part"}]
    BY DEF FirmwareInit
  <2> QED
    BY <2>1 DEF FirmwareInit, ImageInv, FilesType, NoBatch, None
<1>2. CountInv /\ ImageInv /\ [FirmwareNext]_firmwareVars => ImageInv'
  <2> SUFFICES ASSUME CountInv, ImageInv, [FirmwareNext]_firmwareVars PROVE ImageInv'
    OBVIOUS
  <2>1. CASE UNCHANGED firmwareVars
    BY <2>1, OtherStepsImage DEF firmwareVars
  <2>2. CASE StartBatch
    BY <2>2, OtherStepsImage DEF StartBatch, NoBatch
  <2>3. CASE StartOta \/ StartClean \/ Device \/ PollWorkers \/ \E o \in Owners : Post(o)
    BY <2>3, OtherStepsImage DEF StartOta, StartClean, Device, GoDown, ComeUp, PollWorkers,
         DrainNeedReboot, DrainFinished, DrainPost, DrainBatch, DrainClean, Post, PostTry,
         PostFinish
  <2> QED
    BY <2>1, <2>2, <2>3, BatchImage, UpgradeImage, CleanImage DEF FirmwareNext, StartUpgrade
<1> QED
  BY <1>1, <1>2, CountInvariant, PTL DEF FirmwareSpec

\* A device is commanded to upgrade only while the image the batch has uploaded
\* is on it, however often attempts are repeated; only a cleaning or a single
\* upgrade of the same device, which the window does not exclude, can take the
\* image away.
THEOREM CommandedHasImage == FirmwareSpec => []CommandedWithImage
<1>1. ImageInv => CommandedWithImage
  BY DEF ImageInv, CommandedWithImage
<1> QED
  BY <1>1, ImageInvariant, PTL
==============================================================================
