------------------------------ MODULE CustomEditing ------------------------------
(***************************************************************************)
(* The C01 editor of testagent_gui.py: CustomConfigDialog, and the chain   *)
(* of commands behind it: capabilities, load, save, readback, and the      *)
(* refresh after a conflict with another PC.                               *)
(*                                                                         *)
(* One link.  Its runtime is an object that goes away and comes back as    *)
(* another one, while what the window keeps by link key stays.  A command  *)
(* thread is in turn running, silent (its answer, if any, is on its way)   *)
(* and free; its end is one more signal.  A message box runs the event     *)
(* loop: signals and timers are handled while it is open, the user's       *)
(* other buttons are not.  Configurations are compared as wholes; that     *)
(* the editor's draft is valid is the business of CustomRules.             *)
(***************************************************************************)
EXTENDS Naturals, Sequences

CONSTANTS
  Configs,      \* configurations
  MaxObjects,  \* bound on runtime objects, for TLC only
  MaxRevision,  \* bound on the device's revision, for TLC only
  MaxActs       \* bound on what the users and the network start, for TLC only

ASSUME EditingAssumption == MaxObjects \in Nat \ {0} /\ MaxRevision \in Nat /\ MaxActs \in Nat

VARIABLES
  device,       \* the device's revision and configuration; revision 0: none
  runtime,      \* the link's runtime object, 0 if the link is not there
  online,       \* runtime.online
  worker,       \* the command thread of each runtime object; shown is history
  signals,      \* on their way to the window's thread
  capable,      \* _custom_capabilities_by_key
  profileAfter, \* _custom_profile_load_after_capabilities
  loadAfter,    \* _custom_load_after_capabilities
  refreshAfter, \* _custom_revision_refresh_after_conflict
  verifyAfter,  \* _custom_verify_after_save: the revision, or 0
  runAfter,     \* _custom_save_run_after
  editor,       \* custom_config_dialog
  box,          \* the open message box
  wish,         \* history: the last save, and whether to run it
  unasked,      \* history: a run was started that was not wished like that
  hurried,      \* history: a save was sent while a signal of an earlier command was on its way
  unseen,       \* history: a save replaced a revision the editor had not shown
  acts          \* counts what was started

afterVars == <<profileAfter, loadAfter, refreshAfter, verifyAfter, runAfter>>
sayVars == <<wish, hurried, unasked, unseen>>
editingVars == <<device, runtime, online, worker, signals, capable, afterVars, editor, box,
                 sayVars, acts>>

Runtimes == 1 .. MaxObjects
NoConfig == "none"
Resting == [at |-> "free", purpose |-> "other", base |-> 0, config |-> NoConfig, shown |-> {},
            cancelled |-> FALSE]
NoEditor == [open |-> FALSE, busy |-> FALSE, revision |-> 0, draft |-> NoConfig, shown |-> {},
             gaveUp |-> FALSE]
NoBox == [what |-> "none", config |-> NoConfig, run |-> FALSE, revision |-> 0]
NoWish == [config |-> NoConfig, run |-> FALSE]

Act == acts < MaxActs /\ acts' = acts + 1
Running(r) == worker[r].at = "running"

\* The user can reach the windows: no message box is open, and the window has handled its
\* signals, which Qt delivers before the next click.
Free == box = NoBox /\ signals = <<>>

-----------------------------------------------------------------------------
(* The device and the other users.                                         *)

\* Another PC saves; its base revision is right.
OtherSaves ==
  /\ Act /\ device.revision < MaxRevision
  /\ \E c \in Configs : device' = [revision |-> device.revision + 1, config |-> c]
  /\ UNCHANGED <<runtime, online, worker, signals, capable, afterVars, editor, box, sayVars>>

\* CommandWorker.run.  A save is taken only with the device's revision as its base, and
\* its answer may be lost; "invalid" is the error of a source address that has gone.
Answers(w) ==
  LET taken == w.base = device.revision /\ device.revision < MaxRevision IN
  {[outcome |-> o, revision |-> 0, config |-> NoConfig] : o \in {"error", "invalid", "bad"}}
  \cup (CASE w.purpose = "save" ->
               {IF taken THEN [outcome |-> "ok", revision |-> device.revision + 1, config |-> w.config]
                ELSE [outcome |-> "conflict", revision |-> 0, config |-> NoConfig]}
          [] w.purpose \in {"load", "refresh", "verify"} /\ device.revision = 0 ->
               {[outcome |-> "unsaved", revision |-> 0, config |-> NoConfig]}
          [] OTHER -> {[outcome |-> "ok", revision |-> device.revision, config |-> device.config]})

Request(r) ==
  LET w == worker[r] IN
  /\ Running(r)
  /\ worker' = [worker EXCEPT ![r].at = "silent"]
  /\ \E a \in Answers(w), got \in BOOLEAN :
       LET applied == w.purpose = "save" /\ (a.outcome = "ok" \/ (got /\ a.outcome = "error"))
                    /\ w.base = device.revision /\ device.revision < MaxRevision
       IN /\ got => a.outcome = "error" /\ w.purpose = "save"
          /\ device' = IF applied THEN [revision |-> device.revision + 1, config |-> w.config]
                       ELSE device
          /\ unseen' = (unseen \/ (applied /\ device.revision \notin w.shown))
          /\ signals' = IF w.cancelled THEN signals
                        ELSE Append(signals, [kind |-> "answer", from |-> r,
                                              purpose |-> w.purpose, answer |-> a])
  /\ UNCHANGED <<runtime, online, capable, afterVars, editor, box, wish, hurried, unasked, acts>>

ThreadEnds(r) ==
  /\ worker[r].at = "silent"
  /\ worker' = [worker EXCEPT ![r] = Resting]
  /\ signals' = Append(signals, [kind |-> "ended", from |-> r])
  /\ UNCHANGED <<device, runtime, online, capable, afterVars, editor, box, sayVars, acts>>

-----------------------------------------------------------------------------
(* Commands and the link.                                                  *)

\* _start_command for the current runtime; a thread that runs refuses it.
Start(purpose, base, config) ==
  worker' = IF worker[runtime] # Resting THEN worker
            ELSE [worker EXCEPT ![runtime] = [at |-> "running", purpose |-> purpose,
                                              base |-> base, config |-> config,
                                              shown |-> editor.shown, cancelled |-> FALSE]]

\* A probe, a status request or another button.
AnotherCommand ==
  /\ Act /\ runtime # 0 /\ worker[runtime] = Resting
  /\ Start("other", 0, NoConfig)
  /\ UNCHANGED <<device, runtime, online, signals, capable, afterVars, editor, box, sayVars>>

\* refresh_devices finds the link gone; what is kept by its key stays.
LinkGone ==
  /\ Act /\ runtime # 0
  /\ worker' = [worker EXCEPT ![runtime].cancelled = @ \/ worker[runtime] # Resting]
  /\ runtime' = 0 /\ online' = FALSE
  /\ UNCHANGED <<device, signals, capable, afterVars, editor, box, sayVars>>

LinkBack ==
  /\ runtime = 0
  /\ \E r \in Runtimes :
       /\ worker[r] = Resting /\ \A i \in DOMAIN signals : signals[i].from # r
       /\ runtime' = r
  /\ UNCHANGED <<device, online, worker, signals, capable, afterVars, editor, box, sayVars, acts>>

-----------------------------------------------------------------------------
(* The user.                                                               *)

\* open_custom_config_selected, with a PC profile selected or not.
OpenEditor ==
  /\ Act /\ Free /\ runtime # 0 /\ online /\ ~editor.open
  /\ profileAfter' \in BOOLEAN
  /\ Start("capabilities", 0, NoConfig)
  /\ UNCHANGED <<device, runtime, online, signals, capable, loadAfter, refreshAfter, verifyAfter,
                 runAfter, editor, box, sayVars>>

\* The controls are enabled: a step is added, a profile is loaded into the editor, ...
EditDraft ==
  /\ Act /\ Free /\ editor.open /\ ~editor.busy
  /\ \E c \in Configs \ {editor.draft} : editor' = [editor EXCEPT !.draft = c]
  /\ UNCHANGED <<device, runtime, online, worker, signals, capable, afterVars, box, sayVars>>

CloseEditor ==
  /\ Free /\ editor.open /\ editor' = NoEditor
  /\ UNCHANGED <<device, runtime, online, worker, signals, capable, afterVars, box, sayVars, acts>>

\* Mutant: the base is whatever revision the device has when the save is sent.
BaseOfDevice == device.revision
Base == editor.revision

\* History: a signal of an earlier command to the link's device is on its way.
SignalDue == \E i \in DOMAIN signals : signals[i].from = runtime

\* _save_custom_config_requested: the window may find the link offline or in use.
Save(config, run) ==
  \/ /\ editor' = [editor EXCEPT !.busy = FALSE]
     /\ UNCHANGED <<worker, runAfter, wish, hurried>>
  \/ /\ runtime # 0 /\ online /\ capable /\ worker[runtime] = Resting
     /\ editor' = [editor EXCEPT !.busy = TRUE, !.gaveUp = refreshAfter \/ config # editor.draft]
     /\ runAfter' = run
     /\ Start("save", Base, config)
     /\ wish' = [config |-> config, run |-> run]
     /\ hurried' = (hurried \/ SignalDue)
  \/ /\ runtime = 0
     /\ editor' = [editor EXCEPT !.busy = TRUE]
     /\ UNCHANGED <<worker, runAfter, wish, hurried>>

\* _request_save: what is on the device is replaced only after a question.
PressSave(run) ==
  /\ Act /\ Free /\ editor.open /\ ~editor.busy
  /\ IF editor.revision = 0
     THEN Save(editor.draft, run) /\ UNCHANGED box
     ELSE /\ box' = [what |-> "overwrite", config |-> editor.draft, run |-> run, revision |-> 0]
          /\ UNCHANGED <<worker, editor, runAfter, wish, hurried>>
  /\ UNCHANGED <<device, runtime, online, signals, capable, profileAfter, loadAfter, refreshAfter,
                 verifyAfter, unasked, unseen>>

AnswerOverwrite ==
  /\ box.what = "overwrite" /\ box' = NoBox
  /\ \/ Save(box.config, box.run)
     \/ UNCHANGED <<worker, editor, runAfter, wish, hurried>>
  /\ UNCHANGED <<device, runtime, online, signals, capable, profileAfter, loadAfter, refreshAfter,
                 verifyAfter, unasked, unseen, acts>>

\* _on_busy_timeout, after 15 s.
BusyTimeout ==
  /\ editor.busy
  /\ editor' = [editor EXCEPT !.busy = FALSE, !.gaveUp = TRUE]
  /\ UNCHANGED <<device, runtime, online, worker, signals, capable, afterVars, box, sayVars, acts>>

-----------------------------------------------------------------------------
(* Handlers of the commands' answers.                                      *)

First == Head(signals)
Answer == First.answer
From(purpose, outcomes) ==
  /\ signals # <<>> /\ First.kind = "answer" /\ First.from = runtime
  /\ First.purpose = purpose /\ Answer.outcome \in outcomes
  /\ signals' = Tail(signals)
  /\ online' = (Answer.outcome \notin {"error", "invalid"})

\* _show_custom_config_dialog.
Shown(revision, config) ==
  [NoEditor EXCEPT !.open = TRUE, !.revision = revision, !.draft = config, !.shown = {revision}]

\* refresh_device_revision.
RevisionShown(revision) ==
  IF editor.open THEN [editor EXCEPT !.revision = revision, !.busy = FALSE, !.shown = @ \cup {revision}]
  ELSE editor

\* save_failed.
EditorReleased == [editor EXCEPT !.busy = FALSE]

StaleSignal ==
  /\ signals # <<>> /\ First.from # runtime /\ signals' = Tail(signals)
  /\ UNCHANGED <<device, runtime, online, worker, capable, afterVars, editor, box, sayVars, acts>>

\* An answer without a follow-up, and the early return for an invalid address.
OnOther ==
  /\ \/ From("other", {"ok", "error", "bad"})
     \/ \E p \in {"other", "capabilities", "load", "refresh", "save", "verify"} : From(p, {"invalid"})
  /\ UNCHANGED <<device, runtime, worker, capable, afterVars, editor, box, sayVars, acts>>

\* The profile to load does not fit the device: an empty draft is offered.
OnCapabilities ==
  /\ From("capabilities", {"ok"})
  /\ capable' = TRUE /\ profileAfter' = FALSE
  /\ \/ ~profileAfter /\ loadAfter' = TRUE /\ UNCHANGED <<refreshAfter, editor, box>>
     \/ /\ profileAfter
        /\ \E c \in Configs : editor' = Shown(Answer.revision, c)
        /\ UNCHANGED <<loadAfter, refreshAfter, box>>
     \/ /\ profileAfter /\ box = NoBox /\ loadAfter' = FALSE /\ refreshAfter' = FALSE
        /\ \E c \in Configs : box' = [NoBox EXCEPT !.what = "new", !.config = c, !.revision = Answer.revision]
        /\ UNCHANGED editor
  /\ UNCHANGED <<device, runtime, worker, verifyAfter, runAfter, sayVars, acts>>

AnswerNew ==
  /\ box.what = "new" /\ box' = NoBox
  /\ editor' \in {editor, Shown(box.revision, box.config)}
  /\ UNCHANGED <<device, runtime, online, worker, signals, capable, afterVars, sayVars, acts>>

OnNotCapable ==
  /\ From("capabilities", {"bad", "error"})
  /\ profileAfter' = FALSE /\ loadAfter' = FALSE /\ refreshAfter' = FALSE
  /\ UNCHANGED <<device, runtime, worker, capable, verifyAfter, runAfter, editor, box, sayVars, acts>>

\* With nothing saved on the device a new draft is opened.
OnLoad ==
  /\ From("load", {"ok", "unsaved", "bad", "error"})
  /\ \/ capable /\ Answer.outcome = "ok" /\ editor' = Shown(Answer.revision, Answer.config)
     \/ /\ capable /\ Answer.outcome = "unsaved"
        /\ \E c \in Configs : editor' = Shown(0, c)
     \/ (~capable \/ Answer.outcome \in {"bad", "error"}) /\ UNCHANGED editor
  /\ UNCHANGED <<device, runtime, worker, capable, afterVars, box, sayVars, acts>>

\* Mutant: the device's configuration replaces the draft.
OnRefreshReplacing ==
  /\ From("refresh", {"ok", "unsaved", "bad", "error"})
  /\ editor' = CASE Answer.outcome = "ok" /\ editor.open ->
                      [RevisionShown(Answer.revision) EXCEPT !.draft = Answer.config]
                 [] Answer.outcome = "unsaved" -> RevisionShown(0)
                 [] OTHER -> EditorReleased
  /\ UNCHANGED <<device, runtime, worker, capable, afterVars, box, sayVars, acts>>

OnRefresh ==
  /\ From("refresh", {"ok", "unsaved", "bad", "error"})
  /\ editor' = CASE Answer.outcome = "ok" -> RevisionShown(Answer.revision)
                 [] Answer.outcome = "unsaved" -> RevisionShown(0)
                 [] OTHER -> EditorReleased
  /\ UNCHANGED <<device, runtime, worker, capable, afterVars, box, sayVars, acts>>

OnSaved ==
  /\ From("save", {"ok"})
  /\ verifyAfter' = Answer.revision
  /\ UNCHANGED <<device, runtime, worker, capable, profileAfter, loadAfter, refreshAfter, runAfter,
                 editor, box, sayVars, acts>>

\* The conflict is answered by a question if the editor is still there; the question is
\* asked inside the handler.
OnConflict ==
  /\ From("save", {"conflict"}) /\ (editor.open => box = NoBox)
  /\ runAfter' = FALSE /\ verifyAfter' = 0
  /\ box' = IF editor.open THEN [NoBox EXCEPT !.what = "conflict"] ELSE box
  /\ UNCHANGED <<device, runtime, worker, capable, profileAfter, loadAfter, refreshAfter, editor,
                 sayVars, acts>>

AnswerConflict ==
  /\ box.what = "conflict" /\ box' = NoBox
  /\ \/ refreshAfter' = TRUE /\ editor' = [editor EXCEPT !.busy = editor.open]
     \/ editor' = EditorReleased /\ UNCHANGED refreshAfter
  /\ UNCHANGED <<device, runtime, online, worker, signals, capable, profileAfter, loadAfter,
                 verifyAfter, runAfter, sayVars, acts>>

OnSaveFailed ==
  /\ \/ From("save", {"bad", "error"})
     \/ From("verify", {"unsaved", "bad", "error"})
  /\ runAfter' = FALSE /\ verifyAfter' = 0 /\ editor' = EditorReleased
  /\ UNCHANGED <<device, runtime, worker, capable, profileAfter, loadAfter, refreshAfter, box,
                 sayVars, acts>>

\* Mutant: any saved configuration is taken for the one that was sent.
IsExpectedAny(a) == verifyAfter # 0
IsExpected(a) == verifyAfter # 0 /\ a.revision = verifyAfter

\* The readback; the run starts if the C01 case is still selected and its risk confirmed.
OnVerified ==
  /\ From("verify", {"ok"})
  /\ verifyAfter' = 0
  /\ runAfter' = FALSE
  /\ IF IsExpected(Answer)
     THEN /\ editor' = IF editor.open THEN [RevisionShown(Answer.revision) EXCEPT !.draft = Answer.config]
                       ELSE editor
          /\ unasked' = (unasked \/ (runAfter /\ ~(wish.run /\ wish.config = Answer.config)))
     ELSE editor' = EditorReleased /\ UNCHANGED unasked
  /\ UNCHANGED <<device, runtime, worker, capable, profileAfter, loadAfter, refreshAfter, box, wish,
                 hurried, unseen, acts>>

\* _thread_cleanup: one follow-up is started, if no other thread has been meanwhile.
OnEnded ==
  /\ signals # <<>> /\ First.kind = "ended" /\ First.from = runtime /\ signals' = Tail(signals)
  /\ \/ /\ loadAfter /\ loadAfter' = FALSE /\ Start("load", 0, NoConfig)
        /\ UNCHANGED <<refreshAfter, editor>>
     \/ /\ ~loadAfter /\ refreshAfter /\ refreshAfter' = FALSE /\ Start("refresh", 0, NoConfig)
        /\ UNCHANGED <<loadAfter, editor>>
     \/ /\ ~loadAfter /\ ~refreshAfter /\ verifyAfter # 0
        /\ Start("verify", 0, NoConfig)
        /\ editor' = [editor EXCEPT !.busy = editor.open]
        /\ UNCHANGED <<loadAfter, refreshAfter>>
     \/ /\ ~loadAfter /\ ~refreshAfter /\ verifyAfter = 0
        /\ UNCHANGED <<worker, loadAfter, refreshAfter, editor>>
  /\ UNCHANGED <<device, runtime, online, capable, profileAfter, verifyAfter, runAfter, box, wish,
                 hurried, unasked, unseen, acts>>

HandleSignal ==
  \/ StaleSignal \/ OnOther \/ OnCapabilities \/ OnNotCapable \/ OnLoad \/ OnRefresh \/ OnSaved
  \/ OnConflict \/ OnSaveFailed \/ OnVerified \/ OnEnded

-----------------------------------------------------------------------------

EditingInit ==
  /\ device = [revision |-> 0, config |-> NoConfig]
  /\ runtime = 1 /\ online = TRUE
  /\ worker = [r \in Runtimes |-> Resting] /\ signals = <<>>
  /\ capable = FALSE /\ profileAfter = FALSE /\ loadAfter = FALSE /\ refreshAfter = FALSE
  /\ verifyAfter = 0 /\ runAfter = FALSE
  /\ editor = NoEditor /\ box = NoBox
  /\ wish = NoWish /\ hurried = FALSE /\ unasked = FALSE /\ unseen = FALSE
  /\ acts = 0

UserEdits == OpenEditor \/ EditDraft \/ CloseEditor \/ PressSave(TRUE) \/ PressSave(FALSE)
UserAnswers == AnswerOverwrite \/ AnswerNew \/ AnswerConflict
Network(r) == Request(r) \/ ThreadEnds(r)

EditingNext ==
  \/ OtherSaves \/ AnotherCommand \/ LinkGone \/ LinkBack
  \/ UserEdits \/ UserAnswers \/ BusyTimeout \/ HandleSignal
  \/ \E r \in Runtimes : Network(r)

EditingSpec == EditingInit /\ [][EditingNext]_editingVars

-----------------------------------------------------------------------------
(* Properties.                                                             *)

\* "Save and run" starts a run only of the configuration the last save asked to run, as the
\* device has it: not of another PC's, and not after a later save without a run.  Unless the
\* save was sent while signals of an earlier command to the device were on their way: they
\* arrive while the click is handled, and the earlier save's readback starts the run.
RunsWhatWasAsked == hurried \/ ~unasked

\* A save of this PC replaces a configuration of the device only if the editor has shown
\* its revision: another PC's later configuration is never overwritten unseen.
OverwritesOnlySeen == ~unseen

\* What the user has in the editor is changed by the user, or by the readback of that very
\* draft; an editor that was released too early can lose later changes: by its 15 s guard
\* (until the next save, and that one too if a readback came in behind its overwrite
\* question), by a refresh that a conflict asked for before the save, or by the answer of an
\* earlier command, as for RunsWhatWasAsked.
DraftKept ==
  [][editor.open /\ editor'.open /\ editor'.draft # editor.draft
       => EditDraft \/ editor.gaveUp \/ hurried]_editingVars
================================================================================
