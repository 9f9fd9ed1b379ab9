# Pocket TestAgent, PC side: a TLA+ model

The program is a Python GUI and command line that drive handheld devices over
USB network links: they provision addresses, start test cases, watch and record
them, upgrade firmware, and (in `apptest/`) run protocol and UI test scenarios.
Most of its hard behaviour is threads: one poll thread per watched device, one
thread per recording, per command, per transfer, all sharing a handful of locks
and the Qt main thread.  `tests_apptest/` covers `apptest/` only; nothing tests
the watch hubs, the recorders, the locks or the window.  The model started there
and now follows the rest of the program's state.

## Inventory

| component | source | state it keeps | operations | what is hard | what makes it correct |
|---|---|---|---|---|---|
| notification queue | `testagent/watch_hub.py` 22-72 | a bounded deque, a condition | `put`, `get_nowait`, `get` | eviction, a wait that expires as a put arrives | order, what may be lost, no lost wakeup |
| watch hubs | `watch_hub.py` 75-382 | registry, per hub: subscriptions, stop/reconfigure/suspend flags, thread | acquire, subscribe, unsubscribe, purge, suspend, resume, poll | two locks never held together, purge without the hub's lock, dying threads | one polling hub per device, none for nobody, suspensions hold, open watches are served |
| recording | `testagent_gui.py` 830-1080, `testagent_client.py` 91-280 | baseline, active run, deadlines, events | start, follow, conclude | ambiguous starts, statuses of older runs still on their way | the verdict filed is that of the own run |
| link state, provisioning | `testagent/device.py` 38-235, 668-778 | JSON file of links, link locks | discover, note, configure | read, minutes of I/O, write back | nothing saved meanwhile is lost; only unambiguous links are configured |
| device requests, routing | `device.py` 449-664, `protocol.py`, `routing.py` | request lock, link locks, route cache | probe, request, cancel | cancellation while waiting for two locks, lost replies | one socket at a time, a command sent once, locks released |
| GUI command dispatch | `testagent_gui.py` 3600-4170 | runtimes, probe slots, command threads, follow-up sets | start, result, error, cleanup | results for replaced runtimes, slots, follow-ups by key | slots come back, no result is applied to another device object |
| firmware, SD card | `testagent_gui.py` 509-793, `deployment.py` | post workers, counters | upload, OTA command, wait, clean | retried commands, reboots that have not begun | every device counted once, as ready only after its reboot |
| custom configuration | `testagent/custom_config.py` | none (pure), a dialog's revision | parse, validate, diff, save and verify | conflicting revisions | what is read back is what was saved |
| profile store | `testagent/custom_profiles.py` | file, backup, lock file | load, save | several processes, crashes between steps | a readable file at any moment |
| App test page | `apptest_page.py` | controllers, cancel event, buttons, labels | run, stop, watch two processes | results that race the end of their process, stops that come early | labels show what a process said; a stop ends the run |
| case catalogue | `testagent/catalog.py` | tables | merge, lookup | | |
| case service | `apptest/services/case_service.py` and cases, `core/execution.py`, `core/events.py` | context: callback, token | run, cancel | cancellation in the middle | one start and one finish event, exit codes |
| scenarios, auth | `services/protocol_scenarios.py`, `core/auth_flow.py`, `core/integrity.py` | token | steps of HTTP calls | confirmation time-outs | a file counts as verified only if it is |
| pressure pool | `core/pressure.py` | pending futures, counters | submit, complete, stop | results after the stop | every iteration counted once |
| event stream | `clients/p2p_client.py` | cursor, attempts | read, reconnect | drops | no reconnection after a power transition |
| cloud client | `clients/cloud_client.py` | | download with retries | | |
| OTG monitor | `services/otg_service.py` | thread, stop event | start, stop, loop | restart while the old loop ends | one monitor at a time |
| UI automation | `mobile_uia/*`, `core/android_logcat.py` | external phone | scripts | | |
| reports, logging, paths, packaging | the rest | files | formatting | | |

They interact as follows.  The GUI creates `WatchWorker`s (main thread) and
`RecordWorker`s (own threads), both of which subscribe to a device's hub; the
hub's thread puts statuses into one queue per subscription, a Qt timer drains
the GUI's queues every 50 ms and then purges stale hubs.  `configure_device`
suspends the hub of its device, OTA and SD clean suspend all of them.  Every
short request and every FTP transfer takes the process-wide `_request_lock`;
requests and configurations of a link also take its link lock.

## Modules

| module | models | composed in |
|---|---|---|
| `EvictingQueue`, `SubscriptionQueue`, `SubscriptionQueue_proofs` | the notification queue and its consumer; order, retention, wakeup proved for every size | alone |
| `WatchHub`, `WatchHub_proofs` | registry, hubs, poll threads, clients, purge, transfers, configures | `MCWatchHub` |
| `RecordRun`, `RecordRun_proofs` | RecordWorker and run_record on one case of one device | alone |
| `RemoteCall` | what a device request promises: at most once, told once | refined by `DeviceLinks` |
| `DeviceLinks`, `DeviceLinks_proofs` | link file, notes, discovery, `configure_device`, `request_device` with its two locks | `MCDevices` |
| `DeviceDesk`, `DeviceDesk_proofs` | the main window's runtimes, command threads, probe slots, recording button, discovery, closing | `MCDevices`, `MCWindows` |
| `Firmware`, `Firmware_proofs` | single and batch upgrade, post workers, SD cleaning, the window's queues and buttons | `MCWindows` |
| `AppTest` | the App test page: one case in a thread, two cloud cases in processes | `MCWindows` |
| `CustomEditing` | the C01 editor: load, save, verify, conflict, run after save | `MCTools` |
| `CustomRules` | what a plan may be, what it will cost, and a run of it | `MCTools` |
| `ProfileStore` | the profile file under processes, kills and power losses | `MCTools` |
| `CustomTests_proofs` | proofs about `CustomRules`, for any plan, and `ProfileStore`, for any number of processes | alone |
| `Downloads` | case3 and case4: integrity, pool, attempts, rows | `MCTools` |
| `MobileCases` | the iterations of the cases on the phone | `MCTools` |
| `OtgMonitor` | section, service threads, report files | `MCTools` |
| `DeviceEvents` | case5 and the device's event stream | `MCTools` |
| `Tools_proofs` | proofs about `CustomEditing`, `Downloads`, `MobileCases`, `OtgMonitor`, `DeviceEvents`, `AppTest`, for any values of their constants | alone |

Composition.  `SubscriptionQueue` extends `EvictingQueue`.  `WatchHub` abstracts
a subscription's queue to whether the latest status was put there; `RecordRun`
abstracts the hub to poll, store, broadcast, and keeps the statuses.
`DeviceLinks` leaves the hub's suspension to `WatchHub`; `DeviceDesk` sees a
request as a thread that reports ok, a refusal, an error or an invalid address,
which is what `DeviceLinks` and the device may answer; `CustomEditing` sees a
command thread the same way.  `MCDevices`, `MCWindows` and `MCTools` run several
modules in one TLC run: their variable `part` says which one a behaviour is
about, and the variables of the others stay as they are.  That is sound because
those modules share no state in the model; it is a disjoint union of state
spaces, not an interleaving of them, and says nothing about parts acting on one
another.  Where parts do interact in the program (an upgrade and a configure, a
probe and a recording) they are in one module.

`RemoteCall` is the abstract specification of a request: a client takes the
device's attention at most once and is told a result once, "ok" only if it was
taken.  `DeviceLinks` implements it with `taken <- sent`, `result <- answer`
(property `CommandsSentOnce`): the locks, the probe that may be repeated, the
reconnection and the cancellation are stutters, and only transmissions and ends
of calls map to steps.

### SubscriptionQueue

Every method body runs under the queue's condition, so it is one action; `get`
is split where it waits: `GetWait`, then `Woken` after a notification or
`Expire` and `RaiseEmpty` after the time-out.  Between those two the waiter has
given up and a notification for it is lost without harm, because the consumer
asks again.  `finished`, `error` and critical statuses are notifications with
`critical = TRUE`, as `_is_critical_event` decides.  `id` and `rank`, `putCount`,
`critCount`, `delivered` and `lost` are history variables.

### WatchHub

`_HUBS` is `registry`; a hub object is an element of `Hubs` whose fields are
`hubKey`, `subs`, `stopEvent`, `reconfigure`, `suspendCount`.  `_suspend_event`
is set exactly when the count is positive and is left out; `_client` is always
None in this version of the code, so closing it is nothing.  A hub object
nobody refers to may be allocated again.  Locks: `purging # {}` says that
`purge_stale_hubs` holds `_HUBS_LOCK`; all other critical sections of the two
locks are single actions.  The main thread is one actor: `GuiThreadFree` keeps a
GUI client or the purge from starting in the middle of another GUI call.
Poll threads go through `poller`: top, waiting (for the request lock), polling,
answered, broadcast, event or error (delivering), sleeping.

Abstractions: the comprehension that collects stale hubs is atomic; reading
`_stop_event` and `_reconfigure_event` in the exception handler is one step;
requests other than polls and transfers do not show in `requestLock`; a third
hub object for one device is never allocated in the runs (`Hubs` has two), so a
client that would need it waits until one is garbage.  A transfer stands for
`OTABatchWorker._run` or `SDSDCleanWorker._run`: any number of stretches under
the request lock between suspend and resume.  A configure stands for
`configure_device` from the link lock on, whatever its outcome.

### RecordRun

One case of one device.  Runs are numbered by start; the number stands for
`started_at_ms`, which the model takes as set in every status of a run.
RecordWorkers go idle, subscribed, requesting, waiting, done and get statuses
through the hub; run_records start at requesting and get statuses pushed.  The
device is external: it starts a run when it accepts a request (`StartRun`), may
take a start whose reply was ambiguous later or never (`LateStart`), and ends
it (`DeviceFinish`).  A deadline that is set may pass at any time.  Statuses of
other cases and watch errors change nothing in a recorder and are left out;
"ended" stands for the four terminal states.  Connection errors while waiting
exist for run_record only, since a RecordWorker reads a queue; its silence of
five seconds (`_recv_exact`) is one of them.

### DeviceLinks

An adapter has at most one device behind it; `pcAddr` and `devAddr` are the
world, `file` is the link file (`NewEntry` has no note, as the code's new
dictionaries have none), `shown` the links of the last discovery.
`_link_state_lock` is held by a discovery from its query to its save
(`scan.on`); all other holders are single steps.  A configure or a request
works with a link as it was when it was given (`link[w]`).  `configure_device`
is begin, load (under the link lock), probes of the known addresses in the
code's order, the default address, set, verify, save; every network step may
fail whatever the state.  `request_device` looks at its cancel event before and
after each lock, as `_acquire_cancellable_lock` does, and once more before the
connection.  The user and the device are `SetPcAddress`, `Replug`,
`ForgetAddress`.

### DeviceDesk

The window's thread handles one queued signal at a time (`events`, in order of
emission).  A runtime is an object with an id; `current` is `self.runtimes`,
`retired` those that wait for their threads.  A probe takes its slot before
`_start_command` may refuse, and `OnInvalid` returns without giving it back, as
the code does.  Timers may fire at any time after they are set; a dialog is
open between `AskRecord` and its answer, and everything else goes on meanwhile.
`closeEvent` is modelled as far as the window stays open.

### Firmware

FTP operations and commands hold `_request_lock`, so each is one step; it may
fail at any time, and may succeed only on a board that is up.  `BatchPoll`,
`BatchCheck` are the two halves of the loop over the post workers (empty the
queue; ask whether the thread runs), between which a result may come in.  The
buttons are those `_batch_ota_worker_done`, `_ota_post_worker_done`,
`_ota_worker_done` and the SD drain enable.

### AppTest

`CaseController` with its worker, and the loop of `ConcurrentCloudWorker.run` in
the order of the code: who is alive, empty the queue, decide.  Left out is a stop
that comes before the thread of a controller executes: its `quit` may then end the
thread before the worker has run.  A process
puts one result and exits, or dies; a stop sets the event, if there is one yet.

### CustomEditing and CustomRules

The first is the chain of commands behind the editor, with the sets the window
keeps by link key (`loadAfter`, `refreshAfter`, `verifyAfter`, `runAfter`),
which outlive a runtime, and message boxes during which signals and timers are
handled.  Another PC saves to the same device (`OtherSaves`).  The second is
`custom_config.py`: each estimate is translated, and compared with a run of C01
step by step (`RunStep`, `EndCycle`: external).  A sum over the executed steps
(`SumOver`) is the number of their units, pairs of a step and a MiB or a second,
so that what is known of cardinalities is known of sums.

### ProfileStore

A document is the number of the save that wrote it.  `File` keeps what
processes see, what the disk may bring back after a power loss, and whether its
content was fsynced; `fsync`, each rename and the directory's `fsync` are steps
of their own.

### Downloads, MobileCases, OtgMonitor, DeviceEvents

`Downloads`: an iteration is queued, asking (with attempts), reading, then
fetched, failed, cancelled or revoked; the thread of the case collects and
refills, and looks at the stop where the code does.  `MobileCases`: the phone
moves between any two steps of a script; a number read from a page is that of the
local videos, or 0 while the page is loading, or another tab's (`OnPage`); a node
that is not there ends the run.  case2 swipes blindly: it looks whether a preview
is shown, not which, so a swipe in `Previewed` may do nothing; the number of
videos it counts is the page's, or else that of the cards that are visible
(`Counted`).  case6 and case7 are modelled and carry no property: what they look
at in the end is what their last step says.  `OtgMonitor`: a
service per start, each with its thread; the join of a stop may run out.  Two
program instances that share a report folder, and a thread that ends because
`drive_root.exists()` raises, are left out.
`DeviceEvents`: time passes in ticks while case5 waits for the connection, for
the headers and for events (`Waiting`), each with its timeout (`Patience`).
`Activate` accepts any answer that succeeds, since the words "already" or
"activated" anywhere in its message will do ("not activated" too); cancellation is
looked at before the first attempt and before the challenge, not between attempts
and not while waiting.  The stream of business events reconnects
with its cursor until its attempts are used up or the device announces a power
transition.

## Runs

| run | instance | checks |
|---|---|---|
| `subscription_queue` | 3 places, 7 puts | `TypeOK`, `InPutOrder`, `RecentCriticalsKept`, `NoSleepOnItems` |
| `watch_record` | GUI and recorder, one configure, 2 hub objects | `NoIdlePolling`, `NothingMissed` |
| `watch_gui` | two GUI watches, one configure, fairness | `OneWatchPerDevice`, `Served` |
| `watch_transfer` | a GUI watch, one transfer, one configure | `TypeOK`, `HeldHubsSuspended` |
| `watch_two_watches` | GUI and recorder | `OneWatchPerDevice`, violated |
| `watch_clean_and_setip` | a GUI watch, a transfer, a configure | `ConfiguredHubSuspended`, violated |
| `record_run` | one RecordWorker, one run_record, 3 runs | `TypeOK`, `BaselineNotReported`, `UndisturbedReportsOwn` |
| `record_own_run` | one RecordWorker alone | `ReportsOwn`, violated |
| `devices` | two adapters, two configurations or two commands; one link, two runtime objects | `VerifiedStaysThere`, `ConfiguredWasVerified`, `PairsToldApart`, `NoLockLeftBehind`, `CancelledNotSent`, `CommandsSentOnce` (refinement), `ProbesBounded`, `OneCommandPerDevice` |
| `windows` | two boards; one link, two runtime objects; one case, two processes; fairness | `CountedOnce`, `CommandedWithImage`, `ThreadsKnown`, `CloudLabelsTrue`, and the liveness of `ButtonsComeBack`, `RefreshComesBack`, `QueuedRecordResolved`, `StopEndsCloudRuns` |
| `tools` | two configurations, two processes, three downloads, three videos, two services | `RunsWhatWasAsked`, `OverwritesOnlySeen`, `DraftKept`, `PlanHolds`, `FilesWhole`, `SavedSurvives`, `BackupIsLastGood`, `PassedMeansAll`, `PassedMeansDone`, `NumbersUnique`, `StreamsAndAuth` |
| `desk_slots` | one link, two slots, a window that is not closed | `ProbingResumes`, violated |

Why the bounds are enough.  Queue: with three places and seven puts a routine
item is evicted from each position and every critical item can be evicted by
newer ones; `MaxSize` is 256 in the program and the theorems hold for any.
Hubs: hubs of different devices share only the registry's lock, the request
lock and the transfers, so one device has all the interleavings of one hub's
life; two objects let a dying hub overlap with its successor.  Clients open and
close without bound.  Recordings: three runs are one before, the own one and a
foreign or late one; an inbox of one status blocks the sender until it is read,
and older statuses wait in the hub (polled, stored) meanwhile; `MaxBusy` is 60 in
the program and only counts.

`devices`: two adapters are the least that can have the same address or swap a
device, two PC addresses the least that can change; `MaxChanges` (2) bounds what
the user and the devices do.  In the part "race" one adapter, the user, two
configurations and discoveries interleave freely; in "configure" and "call" a
discovery runs undisturbed, and the adapters come and go between two of them.
`MaxSteps` (4) bounds what timers and user start in the window: a probe, a
removal, a rediscovery and a second probe.  `MaxProbes` is 1 there, so that the
limit is reached by one device, and 2, as in the code, in `desk_slots`.
`windows`: `Attempts` 2 instead of 3 still has a first, a repeated and a last
one; `MaxStarts` 2 lets an upgrade or a cleaning begin during another one;
`MaxSteps` 3; `MaxRunStarts` 2, a run and the one after it.
`tools`: `MaxActs` 5 started activities and `MaxRevision` 3 let another PC save
between load and save, and again after an overwrite question was opened; `MaxObjects` 2 lets a link come back as another object;
`MaxSaves` 3 over two processes; three downloads with two workers refill the
pool once; five rounds over three videos go forth, back and forth again; two
services and two insertions are the overlap of an old monitor and its successor;
`MaxCycles` 3 with `MaxSteps5` 2 has a cleanup before, at and after the last cycle;
`TrackLimit`, `MaxRuntime`, `MinGrace`, `EndGrace` are small numbers for the
program's 512 artifacts, 30 days and graces, so that both sides of each limit
occur.  `Videos` 3 is counted as 2, 3 or 4, and `MaxLocal` 3 bounds local videos and
numbers read.  `ConnectTimeout` 1 and `AuthTimeout` 2 stand for the 30 s and 60 s of
the code; the clock stops one tick after their bound.  `Activations`, `MaxReconnects`, `LastEvent`, `Retries`:
each limit is reached.

Deadlock is checked in the first eight runs: a hub's thread, or a consumer
asking with a time-out, can always go on.  The four others say
`CHECK_DEADLOCK FALSE`: their users may stop, a bounded number of starts runs
out, and a case, a call or a profile save that is over has no further step.

What the passing runs show.  Whatever subscribe, close, purge, configure and
polls overlap, no thread polls for nobody, and a recorder that subscribes while
a status is between `_set_last_status` and `_broadcast` gets it one way or the
other.  With GUI watches only, a device has one polling hub and an open watch is
always polled for again, through configures and failures.  A transfer's
suspension survives a configure in the middle.  A RecordWorker never reports the
run that was under way at its baseline; and when nobody else's run came near, a
recording reports its own run, a RecordWorker even after an ambiguous start.

An address configure_device has verified is the device's when it is recorded,
and the file never claims a pair nobody verified, although copies of the file
are written back minutes later.  Cancellations at any moment leave no lock
behind and send nothing.  A command thread of a removed device stays known until
it ends.  A batch counts every board once and commands none without the image
it uploaded.  A window's buttons come back, with the exceptions the properties
name.  The page of the cloud cases never shows a result no process gave.  A run
after a save is a run of what was saved; another PC's configuration is never
overwritten unseen; the editor's draft is not changed behind the user's back
unless its 15-second guard has given up.  The profile file and its backup are
whole after any crash.  A download case that passes has all its iterations.  A
plan that is accepted stays within what the editor announced, cycle by cycle.

What the violated runs show.

* `watch_two_watches`: the recorder finds the hub; the GUI closes the last watch,
  or the purge runs, and the hub leaves the registry; the recorder subscribes to
  it all the same and starts its thread again; the GUI's next watch makes a
  second hub.  The docstring of the module promises one connection per device.
* `watch_clean_and_setip`: suspend_all, then a hub is created and a configure
  suspends it, then resume_all, which resumes whatever is registered.  The
  configure goes on with its hub polling, against its own comment.
* `record_own_run`: the hub polls while the previous run is running, the run
  ends, the recorder takes its baseline from the stored status (0) and its start
  is accepted; the polled status of the previous run is stored and broadcast, and
  with baseline 0 it replaces `active_started_at_ms`; the next status with the
  previous run's end then counts as the own.
* `desk_slots`: a probe fails with WinError 10049, its slot is kept; the link is
  discovered again, probed, and fails again: both slots are gone while no probe
  runs, and the devices' states are not refreshed by probes any more until the
  program is restarted.

Disagreements met while modelling that have no run of their own:

* `_assign_link_addresses` and `configure_device` replace an entry by one without
  its note (`device.py` 231, 767), although `set_device_note` saves "a
  user-defined memo for the device".
* The batch's `summary_fail` passes `_uploaded`, not `_ready`
  (`testagent_gui.py` 677, 730), and the window shows it as the number of
  successes: a board that was commanded and then failed is in both numbers.
* `OTAPostWorker` takes the first successful configure as the end of the reboot,
  also of a board that has not gone down yet; the comment at 689-692 excludes
  the loss of a result that arrives between the empty queue and `is_running`
  (719), which does count the board as failed.
* `OTABatchWorker` asks for the size of the file before its `try` (580): if the
  file has gone, the thread ends without "finished" and the button stays.
  `_batch_ota_worker_done` and `_ota_post_worker_done` enable the single
  upgrade's button while another upgrade may be running.
* `SDSDCleanWorker` says it keeps `firmware/`; `ftp_clean_all` deletes it all.
* `_discovery_auto_configure` can be overwritten between the end of a discovery
  and the delivery of its result, and a result that arrives while the window is
  asked to close is dropped: `refresh_btn` stays disabled (`dropped` in
  `DeviceDesk`).
* The early return for WinError 10049 also leaves the marks of a recording
  command, a save or a verification pending.
* A stop of the cloud cases before `run` has made its event is lost, with the
  stop button disabled (`apptest_page.py` 266-268, 961-963); a second `start()`
  that raises leaves the first process without a parent that knows it.
* A second transfer that begins while one is under way (a batch upgrade and a
  cleaning of SD cards do not exclude each other) may suspend a hub the first
  one has not seen; the first one's `resume_all` resumes it.  With two transfers
  `HeldHubsSuspended` is false; the run has one.
* "Save and run": a save that is sent while signals of an earlier command are
  still in the window's queue has its mark taken by the earlier readback, which
  then starts a run of the earlier configuration (`testagent_gui.py` 3977-4007,
  4306-4354; `hurried` in `CustomEditing`).
* A conflict question that is answered after its thread's cleanup leaves the
  refresh it asks for waiting: the editor stays busy until the 15 s guard, and
  the end of the next save starts the refresh in place of the readback.
* After the 15 s guard the user can open the overwrite question while the earlier
  readback is still on its way; it replaces the draft behind the question, and
  the configuration saved by the answer returns with its own readback.
* An OTG stop that waits more than 3 s drops the service while its thread still
  copies: two monitors may then use one number (`excused` in `OtgMonitor`).
* `open_device_events` never resets its count of reconnections.
* case5's wait of `auth_wait_timeout_seconds` may last longer: its deadline is set
  before the stream is opened and looked at only after an event.  `StreamsAndAuth`
  states what holds of it: the connect timeout and twice the read timeout, which is
  150 s with timeouts of 30 s and 60 s (the silent read that ends it may begin just
  before the deadline, and the deadline may pass while the headers are awaited).
  Comments, or parts of an event, keep a read alive without end; the bound excepts
  them (`kept`).
* case5 takes "not activated" for an activation (`protocol_scenarios.py` 205).
  `StreamsAndAuth` therefore says of a case5 that passes only that it was confirmed
  and proved, not that the device was activated.
* case1 reads 0, or another tab's number, on a page that is still loading; it then
  deletes a video of the user until the number is that one or gives up
  (`PassedMeansDone` excepts such a run: `misread`).  case2 may pass with videos
  unwatched: each swipe that did nothing costs one, and a list counted longer than
  it is, or by its visible cards only, is not covered.  case6 only warns when a disconnect
  failed; case7's crash does not fail the run, and any connected device
  satisfies its final check.
* `VERIFY` whose only option is the page, on a device that offers no page, is
  accepted from the device and cannot be used (the exception in
  `OfferedUsable`); estimates are cut off silently at 30 days.

## Fairness

`WatchHub`, for `Served`: a thread in the middle of a call goes on (weak fairness
of the inner steps of clients, poll threads, purge, transfers, configures):
Python threads are preemptive and none of these steps waits for anything but a
lock.  The request lock is held for one request or one FTP call with a time-out,
and its holders sleep before they ask again (`_SOCKET_SETTLE_SECONDS`), so a
waiter gets it (strong fairness of `PollLock`, `TransferBegin`, `ResumeAll`).
Transfers are finite loops with three attempts per device; configure_device has
bounded retries.

`DeskFairness` of the window, for `RefreshComesBack` and
`QueuedRecordResolved`: command and discovery threads end, since every request
has a time-out; the window's loop handles its signals, its timers (the queued
recording command, the reaping) fire, and the user answers the question whether
to exit.  `FirmwareFairness`, for `ButtonsComeBack`: the workers' threads go on,
their FTP calls and waits have time-outs, and the poll timer runs every 50 ms.
`AppTestFairness`, for `StopEndsCloudRuns`: the watching thread runs, its 15 s
pass, the window handles signals; nothing is assumed of cases and processes.

Nothing is assumed to start: no fairness on acquiring, closing, suspending,
purging, on the user's clicks or on a device's answers being good ones.

## Proofs

* `SubscriptionQueue_proofs`, for every `MaxSize` > 0 and any number of puts:
  `TypeOK`, `InPutOrder`, `RecentCriticalsKept`, `NoSleepOnItems`.  The last
  critical items lost are far enough behind only because ranks in the queue are
  spaced: whenever all items between two critical ones are critical, their ranks
  differ by at least their distance.  That (`RunsSpaced`), with strictly growing
  ids and ranks, is the inductive invariant; the lemmas say how removal of one
  position and appending keep it.
* `WatchHub_proofs`, for any sets of devices, hubs, clients, transfers and
  configures: `TypeOK`; `NoIdlePolling`, inductive together with `TypeOK` and
  `HoldersHaveHub` (a client in a call holds a hub, a configure about to suspend
  has found one); `OneWatchPerDevice` under the assumption that all clients are
  GUI clients, by `GuiInv`: at most one GUI call is in progress and none during
  a purge; a hub that is registered is under its own key, and one with
  subscribers, just found or under purge is the registered one of its device;
  a hub being removed or purged has no subscribers.
* `RecordRun_proofs`, for any recorders, runs and bounds: `TypeOK` and
  `BaselineNotReported`.  Inductive with it: a RecordWorker's confirmed start has
  an active run beyond the baseline, and a recording under way has no verdict and
  a busy count within the limit.
* `WatchHub_proofs` goes on with `NothingMissed`, for any clients and hubs.
  Inductive is `NewsInv`: a recorder that has its snapshot is subscribed, and has
  seen the latest status or the broadcast of it is still to come and the recorder
  among its targets.
* `HeldHubsSuspended`, from `SuspendInv`: until a transfer resumes, a hub's count
  has one unit for the transfers that hold it and another for the configure that
  does; a hub found is one of the key asked for, and the link lock admits one
  configure per key, so that a configure takes back no unit but its own.
  `SuspensionHoldsUntilResumeAll` is about any number of transfers that overlap as
  they may, and says that only `resume_all` can wake a hub under a transfer or under
  a configure, which is what the run `watch_clean_and_setip` shows it do.  With two
  transfers it does wake those of the other, see above: `HeldHubsSuspended` without
  that condition is what the run checks, for one transfer.
* `RecordRun_proofs`: `UndisturbedReportsOwn`.  `OwnInv` says of every recording
  nobody came near what the device may have run since it began and what the
  statuses on their way to it may tell (`QuietInv`), and what remains of it when
  the recording is done (`BookInv`); a step of one recording keeps the part of
  the others.
* `CustomTests_proofs`, first for `CustomRules`: `PlanHolds`.  `RulesHold` is about the
  plans of the specification, `AnyPlanHolds` about any plan of `PlanTypes`: any
  number of cycles and steps, any sizes, times and frequencies of cleanup, and any
  capabilities that leave the safe amount of storage free (below it a plan without
  media is accepted all the same).  The promises are about sums over a whole plan, so the
  proof needs three things beside an invariant.  Sums are numbers of units
  (`SumUnion`, `SumAdd`, `SumSubset`), and one is no more than another if each of its
  elements has a place there (`SumPlaced`).  Induction is a fact about sets of
  numbers (`Induction`, from the least number outside the set), with which the
  recursive loop over the cycles is shown to have an outcome (`LoopEnds`,
  `TrackedLoop`).  And the budget after a cleanup is no more than the one before the
  first: a step that repeats has its place the same number of cycles earlier
  (`RetainedAnew`); without a cleanup the next one is still the same (`NextCleanup`,
  `RetainedOn`).  `RulesInv` then relates, at each point of a run, what was made to
  the executed steps that are past (`Counted`), what is kept and still to come to
  the budget accepted (`Kept`), what is tracked and its peak to the loop's
  knowledge after the last cycle (`Tracked`), and the time to the estimate of what
  is past (`Timed`).
* `CustomTests_proofs` goes on with `ProfileStore`, for any number of processes
  and saves: `FilesWhole`, `SavedSurvives`, `BackupIsLastGood`.  None is inductive alone.  `StoreInv` adds
  what each step of `save` knows: only the lock's owner is inside; its temporary
  file holds the last save begun and is flushed from the copy on, its copy holds
  the active document and is flushed; before the rename the backup is the active
  document.  With it: what a file shows was flushed, what the disk has is a
  document, no document is newer than the last save begun.
* `DeviceLinks_proofs`, for any adapters, addresses, configurers and callers, in
  layers: `LockInv` (a thread's place says which locks it holds) gives
  `NoLockLeftBehind`; `CallInv` (a command is sent from one place only, and not
  once the call was cancelled before) gives `CancelledNotSent` and, step by step,
  the refinement of `RemoteCall` (`CommandsSentOnce`); `StaysInv`, on top of the
  locks, `VerifiedStaysThere`; `FileInv` and `ScanInv`, together, say of the file,
  of every copy of it and of the discovery under way that a configured pair was
  verified and that equal addresses are told apart: `ConfiguredWasVerified`,
  `PairsToldApart`.
* `Firmware_proofs`, for any boards, attempts and starts: `CountedOnce` by
  `CountInv` (a board is pending or counted, never both: pending means still to
  do, at the batch's hand, or with a post worker whose result is not yet taken),
  and on top of it `CommandedWithImage` by `ImageInv`.
* `DeviceDesk_proofs`, for any devices, command threads, slots and bounds, with
  one invariant: `DeskInv`.  Signals of a thread are in the order reply, end, and
  none comes after its end (`SignalsInOrder`); a running thread is the one its
  runtime refers to (`ThreadInv`); the probes that run or whose reply is still on
  its way are no more than `_active_probe_count` (`SlotsInv`: a bijection is not
  possible, since a reply nobody handles keeps its slot).  The theorems are
  `ProbesBounded`, `OneCommandPerDevice`, `ThreadsKnown`.
* `Tools_proofs`, a section per component.  `StreamsAndAuth` by `EventInv`: in
  each phase of the wait, unless it was kept alive, the clock has run no longer than
  the timeouts of the phases before it and the present silence, since an event while
  the deadline has passed ends the wait; a connection but the first has its
  reconnect, confirmations and proofs keep step with the iterations.
  `NumbersUnique` by `OtgInv`: without an excuse one monitor thread runs, the one
  the section knows, it counts on from the summary, and the history is ahead of
  the summary by the number that thread is about to write.  `PassedMeansDone` by `MobileInv`, which has
  two parts.  `LocalInv` says of case1 how the local videos, those still loading and
  the number read first differ at each step from what was found.  `PreviewInv` has
  the video of a round, forth and back, in closed form, and says how far the lost
  swipes may have kept the App from it.  `PassedMeansAll` by `DownloadInv`: every iteration submitted is
  pending or counted, which needs the cardinality of the pending set.
  `CloudLabelsTrue` by `LabelInv`: who was seen dead before the queue was emptied
  has told all.
* The editor of custom tests, also in `Tools_proofs`. `OverwritesOnlySeen`
  needs only that a save on its way is based on a revision that was shown
  (`SeenInv`). `RunsWhatWasAsked` needs the whole chain, in layers: every
  answer on its way is followed by the end of its thread (`EndInv`); as long as
  a readback or a load is due, a thread of the link is at work or its end is on
  its way (`ChainInv`), so that no save comes between when none is hurried; two
  sources that tell of one revision tell the same configuration (`FactsInv`);
  the save on its way, or answered, is the last one wished (`WishInv`); so the
  revision to be read back holds what was wished (`CheckInv`). The action
  property `DraftKept` needs three more, about the commands of a kind, running
  or answered (`Pending`): one save at a time is under way unless one was
  hurried, and none while an earlier one is read back (`OneSave`);
  capabilities, load and the question about an empty draft follow one another,
  with no editor open and no save under way (`OpeningInv`), so that the
  handlers that open the editor never find one; and an editor that was not
  released too early waits, during its save, with the draft that was sent, no
  refresh and no question on its way (`SaveFlow`). The readback then finds in
  the editor what it brings.

Assumptions are those named in the modules (`MaxSizeAssumption`,
`MaxPutsAssumption`, `WatchHubAssumption`, `RecordRunAssumption`,
`ProfileStoreAssumption`, `CustomRulesAssumption`, `DeviceLinksAssumption`, `DeskAssumption`,
`AppTestAssumption`, `EditingAssumption`, `DownloadsAssumption`,
`MobileCasesAssumption`, `OtgAssumption`, `DeviceEventsAssumption`): sets of
actors that are finite or disjoint, bounds that are natural numbers.  TLC
evaluates them in the runs.  The only theorems with a hypothesis of their own are
`GuiSharesWatch` (all clients act in the Qt thread)
and `AnyPlanHolds` (where it begins, in place of `RulesInit`).

Only model-checked: the liveness properties (`Served`, `RefreshComesBack`,
`QueuedRecordResolved`, `ButtonsComeBack`, `StopEndsCloudRuns`): liveness under
fairness is beyond the prover; and `HeldHubsSuspended` beyond the first
`resume_all`, with one transfer.  Every other property of a passing run is the
statement of a theorem.

## Not modelled

* Wire format, sockets and routes (`protocol.py`, `routing.py`) beyond connect,
  transmit, answer and failure.
* Layout, text, icons and charts of the pages, and the help page; what is
  written in logs (`app_logging.py`), where files go (`app_paths.py`).  One
  thing met there: `_flush_logs` (5387-5417) returns from its append path
  without updating `_log_last_snapshot`, so lines may be shown twice.
* Reports, artifacts and configuration files of `apptest/core`: formatting and
  reading; a metric's row is in `Downloads` as ok or error.
* `catalog.py`: tables and their merge, without state.
* Crash export and screenshots: one request and a file each.
* The search for nodes, coordinates and the log capture of `mobile_uia/`: the
  phone application is outside the repository, and all such a search can do to
  a verdict is end it (`NodeMissing`).
* Release scripts and unit tests.
