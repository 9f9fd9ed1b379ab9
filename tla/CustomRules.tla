----------------------------- MODULE CustomRules -----------------------------
(***************************************************************************)
(* The rules of a custom test plan (testagent/custom_config.py): the       *)
(* capabilities a device may offer, the plans that are sent to it, and     *)
(* what the editor tells of a plan before it is saved: media to be made,   *)
(* kept and tracked, storage, time, and how long the PC watches the run.   *)
(*                                                                         *)
(* The reference is the run itself (C01 on the device, outside src/): one  *)
(* step after the other, cycle after cycle, with the cleanups between.     *)
(* Time is in seconds, storage in MiB.                                     *)
(***************************************************************************)
EXTENDS Naturals, Sequences, FiniteSets

CONSTANTS
  MaxCycles, MaxSteps5,   \* of the plans that are looked at
  TrackLimit,             \* CUSTOM_C01_MAX_TRACKED_MEDIA_ARTIFACTS
  MaxRuntime,             \* CUSTOM_C01_MAX_RUNTIME_SECONDS
  MinGrace, EndGrace      \* of the monitor

ASSUME CustomRulesAssumption ==
  /\ {MaxCycles, MaxSteps5, TrackLimit, MaxRuntime} \subseteq Nat \ {0}
  /\ {MinGrace, EndGrace} \subseteq Nat

VARIABLES
  caps,       \* the reply of get_custom_capabilities
  plan,       \* the CustomConfig of the editor
  preview,    \* what the editor says of it
  c01         \* where the plan is, and the run

rulesVars == <<caps, plan, preview, c01>>

Photo == "photo"
Videos5 == {"record", "slow"}
Policies == {"click", "swipe", "slider"}
Actions == {"nav", "target", "mode", "video", "verify", "rotate", Photo} \cup Policies \cup Videos5

-----------------------------------------------------------------------------
(* CustomCapabilities.from_reply.                                          *)

\* The field that lists the choices of an action; rotating and a photo have none.
OptionsOf == [nav |-> "pages", target |-> "targets", mode |-> "modes", video |-> "presets",
              verify |-> "verify", click |-> "click", swipe |-> "swipe", slider |-> "slider",
              record |-> "profiles", slow |-> "slow"]
Fields == {OptionsOf[a] : a \in DOMAIN OptionsOf}

\* An action is accepted only with something to choose.
Accepted(c) ==
  /\ c.actions # {} /\ c.actions \subseteq Actions
  /\ \A a \in c.actions \cap DOMAIN OptionsOf : c.options[OptionsOf[a]] # {}

-----------------------------------------------------------------------------
(* The media of a plan.                                                    *)

Runs(p, c, i) == c = 0 \/ ~p.steps[i].once
Executed(p) == {e \in (0..p.cycles - 1) \X DOMAIN p.steps : Runs(p, e[1], e[2])}
IsVideo(step) == step.action \in Videos5

\* Worst-case MiB of one step.
MediaSize(step) ==
  CASE step.action = Photo -> 25
    [] IsVideo(step) -> step.rate * step.seconds + 2
    [] OTHER -> 0

CleanupEvery(p, action) == IF action = Photo THEN p.photoCleanup ELSE p.videoCleanup

\* Mutant: the cycle that has just been cleaned up counts as the next one.
NextCleanupEarly(frequency, c, cycles) ==
  IF frequency = 0 THEN cycles
  ELSE LET next == ((c + frequency - 1) \div frequency) * frequency IN IF next < cycles THEN next ELSE cycles

NextCleanupCycle(frequency, c, cycles) ==
  IF frequency = 0 THEN cycles
  ELSE LET next == ((c + frequency) \div frequency) * frequency IN IF next < cycles THEN next ELSE cycles

\* The sum of f over the finite set S: the units of its elements, counted.
SumOver(f, S) == Cardinality(UNION {{e} \X (1..f[e]) : e \in S})

Sizes(p) == [e \in Executed(p) |-> MediaSize(p.steps[e[2]])]

\* _retained_media_budget_bytes: from after step s of cycle c to the next cleanup.
Retained(p, action, c, s) ==
  {e \in Executed(p) : /\ p.steps[e[2]].action = action
                       /\ e[1] >= c /\ (e[1] = c => e[2] > s)
                       /\ e[1] < NextCleanupCycle(CleanupEvery(p, action), c, p.cycles)}
RetainedBudget(p, action, c, s) == SumOver(Sizes(p), Retained(p, action, c, s))

StorageBudget(p, c, s) ==
  RetainedBudget(p, Photo, c, s) + RetainedBudget(p, "record", c, s) + RetainedBudget(p, "slow", c, s)

MadeInCycle(p, c, kinds) == Cardinality({i \in DOMAIN p.steps : Runs(p, c, i) /\ p.steps[i].action \in kinds})

Due(frequency, c) == frequency # 0 /\ (c + 1) % frequency = 0

\* custom_c01_max_tracked_media_artifacts: its loop, as what it knows after each cycle.
NothingTracked == [photos |-> 0, videos |-> 0, most |-> 0]
AfterCycle(p, c, known) ==
  LET photos == known.photos + (IF p.photoCleanup = 0 THEN 0 ELSE MadeInCycle(p, c, {Photo}))
      videos == known.videos + (IF p.videoCleanup = 0 THEN 0 ELSE MadeInCycle(p, c, Videos5))
  IN [photos |-> IF Due(p.photoCleanup, c) THEN 0 ELSE photos,
      videos |-> IF Due(p.videoCleanup, c) THEN 0 ELSE videos,
      most |-> IF photos + videos > known.most THEN photos + videos ELSE known.most]

TrackedAfter(p) ==
  LET after[n \in 0..p.cycles] == IF n = 0 THEN NothingTracked ELSE AfterCycle(p, n - 1, after[n - 1])
  IN after

MaxTracked(p) == TrackedAfter(p)[p.cycles].most

\* custom_c01_media_artifact_counts.
MediaCounts(p) ==
  [photos |-> Cardinality({e \in Executed(p) : p.steps[e[2]].action = Photo}),
   videos |-> Cardinality({e \in Executed(p) : IsVideo(p.steps[e[2]])})]

-----------------------------------------------------------------------------
(* The time of a plan.                                                     *)

StepTime(p, step, checked) ==
  (IF step.action = "rotate" THEN 6 ELSE 4) + (IF step.waits THEN p.settle ELSE 0)
  + (CASE IsVideo(step) -> step.seconds + 10 + (IF checked THEN 12 ELSE 0)
       [] step.action = Photo -> 10
       [] OTHER -> 0)

\* The interval of a step counts if another step of the cycle follows.
Follows(p, c, i) == \E j \in i + 1..Len(p.steps) : Runs(p, c, j)
Interval(p, c, i) == IF Follows(p, c, i) THEN p.steps[i].interval ELSE 0

CleanupTime(p) == p.cleanupWaits + 10
Cleans(p, c) == Due(p.photoCleanup, c) \/ Due(p.videoCleanup, c)

\* custom_c01_estimated_runtime_ms: every video is taken to be played back.
Times(p) ==
  [e \in Executed(p) |-> StepTime(p, p.steps[e[2]], p.videoCheck = "playback") + Interval(p, e[1], e[2])]
CleaningCycles(p, n) == {c \in 0..n - 1 : Cleans(p, c)}
EstimatedRuntime(p) ==
  LET total == SumOver(Times(p), Executed(p)) + (p.cycles - 1) * p.cycleInterval
               + Cardinality(CleaningCycles(p, p.cycles)) * CleanupTime(p)
  IN IF total < MaxRuntime THEN total ELSE MaxRuntime

\* custom_c01_monitor_timeout_seconds.
MonitorTimeout(estimate) ==
  LET grace == IF estimate \div 5 > MinGrace THEN estimate \div 5 ELSE MinGrace
      most == MaxRuntime + EndGrace
  IN IF estimate = 0 \/ estimate > MaxRuntime \/ estimate + grace > most THEN most ELSE estimate + grace

-----------------------------------------------------------------------------
(* validate_config.  That times, durations and check modes are among those *)
(* the device lists is left out: the plans take them from there.           *)

\* Only a verify step with option 0 and a navigation name a page, and of the others only a
\* policy has its own.
ValidStep(step, c) ==
  /\ step.action \in c.actions
  /\ step.ui => c.ui
  /\ step.action \in DOMAIN OptionsOf => step.option \in c.options[OptionsOf[step.action]]
  /\ step.action = "verify" /\ step.option = 0 => c.options["pages"] # {}

HasStep(p, kinds) == \E i \in DOMAIN p.steps : p.steps[i].action \in kinds
HasRepeating(p, kinds) == \E i \in DOMAIN p.steps : p.steps[i].action \in kinds /\ ~p.steps[i].once

\* A check or a cleanup of one kind of media: how often, and with which steps.
ValidPolicy(p, check, every, cleanup, kinds) ==
  /\ every <= p.cycles /\ cleanup <= p.cycles
  /\ check = "baseline" <=> every = 0
  /\ check # "baseline" \/ cleanup # 0 => HasStep(p, kinds)
  /\ check # "baseline" /\ ~HasRepeating(p, kinds) => every = 1

Valid(p, c) ==
  /\ p.cycles <= c.maxCycles /\ Len(p.steps) <= c.maxSteps
  /\ ValidPolicy(p, p.photoCheck, p.photoEvery, p.photoCleanup, {Photo})
  /\ ValidPolicy(p, p.videoCheck, p.videoEvery, p.videoCleanup, Videos5)
  /\ p.photoCleanup # 0 \/ p.videoCleanup # 0 => c.cleanup /\ c.manifest
  /\ p.photoCheck # "baseline" \/ p.videoCheck # "baseline" => c.manifest
  /\ MaxTracked(p) <= TrackLimit
  /\ \A i \in DOMAIN p.steps : ValidStep(p.steps[i], c)
  /\ p.cycles > 1 => \E i \in DOMAIN p.steps : ~p.steps[i].once
  /\ HasStep(p, {Photo} \cup Videos5) /\ c.storageKnown => c.available >= c.safe + StorageBudget(p, 0, 0)

-----------------------------------------------------------------------------
(* The editor, and the run.                                                *)

NoPreview == [counts |-> [photos |-> 0, videos |-> 0], budget |-> 0, tracked |-> 0, runtime |-> 0]
Begun == [at |-> "running", cycle |-> 0, step |-> 0, photos |-> 0, videos |-> 0, kept |-> [p |-> 0, v |-> 0],
          tracked |-> [p |-> 0, v |-> 0], peak |-> 0, time |-> 0]

ReadCapabilities ==
  /\ c01.at = "asked"
  /\ c01' = [c01 EXCEPT !.at = IF Accepted(caps) THEN "edited" ELSE "refused"]
  /\ UNCHANGED <<caps, plan, preview>>

\* The save: the plan is validated, and the preview was shown.
SavePlan ==
  /\ c01.at = "edited"
  /\ IF Valid(plan, caps)
     THEN /\ c01' = Begun
          /\ preview' = [counts |-> MediaCounts(plan), budget |-> StorageBudget(plan, 0, 0),
                         tracked |-> MaxTracked(plan), runtime |-> EstimatedRuntime(plan)]
     ELSE c01' = [c01 EXCEPT !.at = "refused"] /\ UNCHANGED preview
  /\ UNCHANGED <<caps, plan>>

Added(pair, photo, video) == [p |-> pair.p + photo, v |-> pair.v + video]
Total5(pair) == pair.p + pair.v

\* The device's next step; it plays a video back in the cycles its frequency names.
RunStep ==
  /\ c01.at = "running"
  /\ \E i \in c01.step + 1..Len(plan.steps) :
       LET step == plan.steps[i]
           photo == IF step.action = Photo THEN 1 ELSE 0
           video == IF IsVideo(step) THEN 1 ELSE 0
           tracked == Added(c01.tracked, IF plan.photoCleanup = 0 THEN 0 ELSE photo,
                                         IF plan.videoCleanup = 0 THEN 0 ELSE video)
       IN /\ Runs(plan, c01.cycle, i) /\ \A j \in c01.step + 1..i - 1 : ~Runs(plan, c01.cycle, j)
          /\ c01' = [c01 EXCEPT !.step = i, !.photos = @ + photo, !.videos = @ + video,
                       !.kept = Added(@, MediaSize(step) * photo, MediaSize(step) * video),
                       !.tracked = tracked,
                       !.peak = IF Total5(tracked) > @ THEN Total5(tracked) ELSE @,
                       !.time = @ + Interval(plan, c01.cycle, i)
                                  + StepTime(plan, step, plan.videoCheck = "playback"
                                                         /\ Due(plan.videoEvery, c01.cycle))]
  /\ UNCHANGED <<caps, plan, preview>>

\* The end of a cycle: what is due is deleted.
EndCycle ==
  /\ c01.at = "running" /\ ~Follows(plan, c01.cycle, c01.step)
  /\ LET c == c01.cycle
         Left(pair) == [p |-> IF Due(plan.photoCleanup, c) THEN 0 ELSE pair.p,
                        v |-> IF Due(plan.videoCleanup, c) THEN 0 ELSE pair.v]
         last == c + 1 = plan.cycles
     IN c01' = [c01 EXCEPT !.at = IF last THEN "done" ELSE "running", !.cycle = c + 1, !.step = 0,
                  !.kept = Left(@), !.tracked = Left(@),
                  !.time = @ + (IF last THEN 0 ELSE plan.cycleInterval)
                             + (IF Cleans(plan, c) THEN CleanupTime(plan) ELSE 0)]
  /\ UNCHANGED <<caps, plan, preview>>

-----------------------------------------------------------------------------
(* The inputs.                                                             *)

Step5(action, seconds, rate) ==
  [action |-> action, option |-> 1, once |-> FALSE, seconds |-> seconds, rate |-> rate,
   waits |-> FALSE, interval |-> 3, ui |-> FALSE]

\* 1080P has 5 MiB a second, slow motion 12; one step of each kind, repeated or not.
Repeatable(step) == {[step EXCEPT !.once = once] : once \in BOOLEAN}
StepChoices ==
  UNION {Repeatable(step) :
           step \in {Step5(Photo, 0, 0), Step5("record", 4, 5), Step5("slow", 2, 12),
                     [Step5("rotate", 0, 0) EXCEPT !.waits = TRUE],
                     [Step5("click", 0, 0) EXCEPT !.ui = TRUE]}}

Plans ==
  {p \in [cycles : 1..MaxCycles, steps : UNION {[1..n -> StepChoices] : n \in 1..MaxSteps5},
          settle : {1}, cycleInterval : {2}, cleanupWaits : {3},
          photoCheck : {"baseline", "file"}, photoEvery : {0, 1}, photoCleanup : 0..MaxCycles,
          videoCheck : {"baseline", "playback"}, videoEvery : 0..2, videoCleanup : 0..MaxCycles] :
     p.photoCheck = "baseline" <=> p.photoEvery = 0}

\* A device that offers everything, with more or less storage.
FullOptions == [f \in Fields |-> {1}]
Caps(actions, options) ==
  [actions : {actions}, options : {options}, ui : {TRUE}, maxCycles : {MaxCycles}, maxSteps : {MaxSteps5},
   cleanup : {TRUE}, manifest : {TRUE}, storageKnown : {TRUE}, available : {60, 300}, safe : {10}]

\* A device that offers one action, with some choice or none.
SmallOptions(a, own, pages) ==
  [f \in Fields |-> IF f = "pages" THEN pages
                    ELSE IF a \in DOMAIN OptionsOf /\ f = OptionsOf[a] THEN own ELSE {1}]
SmallCaps ==
  UNION {Caps({a}, SmallOptions(a, own, pages)) : a \in Actions, own \in {{}, {0}, {1}}, pages \in {{}, {1}}}

SimplePlan == CHOOSE p \in Plans : p.cycles = 1 /\ Len(p.steps) = 1

RulesInit ==
  /\ \/ caps \in Caps(Actions, FullOptions) /\ plan \in Plans
     \/ caps \in SmallCaps /\ plan = SimplePlan
  /\ preview = NoPreview /\ c01 = [Begun EXCEPT !.at = "asked"]

RulesNext == ReadCapabilities \/ SavePlan \/ RunStep \/ EndCycle

RulesSpec == RulesInit /\ [][RulesNext]_rulesVars

-----------------------------------------------------------------------------
(* Properties.                                                             *)

\* At every moment of a run: media that wait for a cleanup, and those still to come before
\* it, fit the budget the plan was accepted with; no more are tracked than was said, and
\* the run is within its estimate, unless that is cut off at the maximum.
RunWithinPreview ==
  c01.at = "running" =>
    /\ c01.kept.p + RetainedBudget(plan, Photo, c01.cycle, c01.step)
         <= RetainedBudget(plan, Photo, 0, 0)
    /\ Total5(c01.kept) <= preview.budget
    /\ caps.storageKnown => caps.safe + Total5(c01.kept) <= caps.available
    /\ c01.peak <= preview.tracked /\ preview.tracked <= TrackLimit
    /\ preview.runtime < MaxRuntime => c01.time <= preview.runtime

\* A run that is over has made exactly the media the editor announced, and the PC has
\* watched it to its end.
RunAsAnnounced ==
  c01.at = "done" =>
    /\ c01.photos = preview.counts.photos /\ c01.videos = preview.counts.videos
    /\ c01.peak = preview.tracked
    /\ preview.runtime < MaxRuntime => c01.time <= MonitorTimeout(preview.runtime)

\* Every action the device offers can be used in a step, but for a verification whose only
\* option is the page on a device that offers no page.
OfferedUsable ==
  c01.at = "edited" =>
    \A a \in caps.actions :
      \/ \E option \in 0..1 : ValidStep([Step5(a, 0, 0) EXCEPT !.option = option], caps)
      \/ a = "verify" /\ caps.options["pages"] = {}

\* The promises of the rules in one.
PlanHolds == RunWithinPreview /\ RunAsAnnounced /\ OfferedUsable
================================================================================
