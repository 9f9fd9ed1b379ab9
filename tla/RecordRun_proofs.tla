---------------------------- MODULE RecordRun_proofs ----------------------------
(***************************************************************************)
(* The baseline of a RecordWorker does its work, whatever the number of    *)
(* recorders and of runs of the case.                                      *)
(***************************************************************************)
EXTENDS RecordRun, TLAPS

USE RecordRunAssumption

\* A start is confirmed only by a run beyond the baseline, and not before the
\* case was requested.
ConfirmedBeyond ==
  \A r \in GuiRecorders :
    /\ pc[r] \in {"idle", "subscribed", "requesting"} => ~confirmed[r]
    /\ confirmed[r] /\ baseline[r] > 0 => active[r] > baseline[r]

\* A recording under way has no verdict and has put up with no more busy
\* statuses than it may.
UndecidedBeforeDone ==
  \A r \in Recorders : pc[r] # "done" => final[r].verdict = "none" /\ busy[r] <= MaxBusy

IInv == TypeOK /\ ConfirmedBeyond /\ UndecidedBeforeDone /\ BaselineNotReported

\* No recording has begun.
LEMMA InitIInv == Init => IInv
<1> SUFFICES ASSUME Init PROVE IInv
  OBVIOUS
<1>1. NoStatus \in Status
  BY DEF NoStatus, Status, States
<1>2. dev \in Status /\ lastStatus \in Status
  BY <1>1 DEF Init, Status, States
<1>3. TypeOK
  BY <1>1, <1>2 DEF Init, TypeOK, Verdicts, States, Status
<1> QED
  BY <1>3 DEF Init, IInv, ConfirmedBeyond, UndecidedBeforeDone, BaselineNotReported, Decided

\* A recording that ends keeps the invariant when what it reports is sound.
LEMMA ConcludeIInv ==
  ASSUME IInv, NEW r \in Recorders, NEW v \in Verdicts, NEW n \in 0 .. MaxRuns,
         Conclude(r, v, n), UNCHANGED <<hubVars, baseline, active, confirmed, doubtful>>,
         armed' \in [Recorders -> BOOLEAN], busy' \in [Recorders -> 0 .. MaxBusy + 1],
         \A q \in Recorders \ {r} : busy'[q] = busy[q],
         dev' \in Status, uiQueue' = uiQueue, own' \in [Recorders -> 0 .. MaxRuns],
         disturbed' \in [Recorders -> BOOLEAN],
         r \in GuiRecorders /\ v = "ended" /\ baseline[r] > 0 => n > baseline[r]
  PROVE  IInv'
<1>1. inbox' \in [Recorders -> Seq(Status \cup {BusyStatus})]
  <2> DEFINE M == Status \cup {BusyStatus}
  <2>1. inbox \in [Recorders -> Seq(M)] /\ inbox' = [inbox EXCEPT ![r] = <<>>]
    BY DEF IInv, TypeOK, Conclude
  <2> HIDE DEF M
  <2>2. inbox' \in [Recorders -> Seq(M)]
    BY <2>1
  <2> QED
    BY <2>2 DEF M
<1>2. pc' \in [Recorders -> {"idle", "subscribed", "requesting", "waiting", "done"}]
  BY DEF IInv, TypeOK, Conclude
<1>3. final' \in [Recorders -> [verdict : Verdicts, run : 0 .. MaxRuns]]
  BY DEF IInv, TypeOK, Conclude
<1>4. TypeOK'
  BY <1>1, <1>2, <1>3 DEF IInv, TypeOK, hubVars
<1>5. ConfirmedBeyond'
  BY DEF IInv, TypeOK, ConfirmedBeyond, Conclude
<1>6. BaselineNotReported'
  BY DEF IInv, TypeOK, BaselineNotReported, Decided, Conclude
<1>7. UndecidedBeforeDone'
  BY DEF IInv, TypeOK, UndecidedBeforeDone, Conclude
<1> QED
  BY <1>4, <1>5, <1>6, <1>7 DEF IInv

\* The device starts a run with the next number.
LEMMA StartRunType ==
  ASSUME TypeOK, NEW r \in Recorders, StartRun(r)
  PROVE  /\ dev' \in Status
         /\ own' \in [Recorders -> 0 .. MaxRuns]
         /\ disturbed' \in [Recorders -> BOOLEAN]
         /\ dev'.run \in 0 .. MaxRuns
<1>1. dev.run \in 0 .. MaxRuns
  BY DEF TypeOK, Status
<1>2. dev.run + 1 \in 0 .. MaxRuns
  BY <1>1 DEF StartRun
<1> QED
  BY <1>2 DEF TypeOK, StartRun, Status, States, Active

\* Device and hub steps move no recorder's state but its inbox.
LEMMA OthersIInv ==
  ASSUME IInv,
         DeviceFinish \/ HubPoll \/ HubStore \/ HubBroadcast \/ \E r \in Recorders : LateStart(r)
  PROVE  IInv'
<1> USE DEF IInv, ConfirmedBeyond, UndecidedBeforeDone, BaselineNotReported, Decided, deviceVars,
            hubVars, localVars, historyVars
<1>1. CASE DeviceFinish
  <2>1. dev' \in Status
    BY <1>1 DEF DeviceFinish, TypeOK, Status, States
  <2> QED
    BY <1>1, <2>1 DEF DeviceFinish, TypeOK
<1>2. CASE HubPoll
  BY <1>2 DEF HubPoll, TypeOK
<1>3. CASE HubStore
  BY <1>3 DEF HubStore, TypeOK
<1>4. CASE HubBroadcast
  <2>1. NoStatus \in Status
    BY DEF NoStatus, Status, States
  <2>2. inbox' \in [Recorders -> Seq(Status \cup {BusyStatus})]
    BY <1>4 DEF HubBroadcast, TypeOK
  <2> QED
    BY <1>4, <2>1, <2>2 DEF HubBroadcast, TypeOK
<1>5. ASSUME NEW r \in Recorders, LateStart(r) PROVE IInv'
  <2>1. dev' \in Status /\ own' \in [Recorders -> 0 .. MaxRuns]
        /\ disturbed' \in [Recorders -> BOOLEAN]
    BY <1>5, StartRunType DEF LateStart, TypeOK
  <2>2. uiQueue' = uiQueue \ {r} /\ UNCHANGED <<hubVars, pc, localVars, inbox, final, doubtful>>
    BY <1>5 DEF LateStart
  <2> QED
    BY <2>1, <2>2 DEF TypeOK
<1> QED
  BY <1>1, <1>2, <1>3, <1>4, <1>5

\* The steps that start a recording, and the start of the case.
LEMMA StartIInv ==
  ASSUME IInv, NEW r \in Recorders,
         \/ Subscribe(r) \/ TakeBaseline(r) \/ BeginRecord(r) \/ Rejected(r) \/ Accepted(r)
         \/ Ambiguous(r) \/ ConnectionLost(r)
  PROVE  IInv'
<1> USE DEF IInv, deviceVars, hubVars, localVars, historyVars
<1>1. CASE Subscribe(r)
  <2>1. disturbed' \in [Recorders -> BOOLEAN]
    <3>1. (IsRunning(dev) \/ IsRunning(polled)) \in BOOLEAN
      BY DEF IsRunning
    <3> QED
      BY <1>1, <3>1 DEF Subscribe, TypeOK
  <2>2. TypeOK'
    BY <1>1, <2>1 DEF Subscribe, TypeOK
  <2>3. ConfirmedBeyond'
    BY <1>1 DEF Subscribe, TypeOK, ConfirmedBeyond
  <2>4. BaselineNotReported' /\ UndecidedBeforeDone'
    BY <1>1 DEF Subscribe, BaselineNotReported, Decided, UndecidedBeforeDone
  <2> QED
    BY <2>2, <2>3, <2>4
<1>2. CASE TakeBaseline(r)
  <2>1. BaselineOf(lastStatus) \in 0 .. MaxRuns
    BY DEF BaselineOf, TypeOK, Status
  <2>2. TypeOK'
    BY <1>2, <2>1 DEF TakeBaseline, TypeOK
  <2>3. ConfirmedBeyond'
    BY <1>2, <2>1 DEF TakeBaseline, TypeOK, ConfirmedBeyond
  <2>4. BaselineNotReported'
    BY <1>2, <2>1 DEF TakeBaseline, TypeOK, BaselineNotReported, Decided, UndecidedBeforeDone
  <2>5. UndecidedBeforeDone'
    BY <1>2 DEF TakeBaseline, TypeOK, UndecidedBeforeDone
  <2> QED
    BY <2>2, <2>3, <2>4, <2>5
<1>3. CASE BeginRecord(r)
  <2>1. disturbed' \in [Recorders -> BOOLEAN]
    <3>1. IsRunning(dev) \in BOOLEAN
      BY DEF IsRunning
    <3> QED
      BY <1>3, <3>1 DEF BeginRecord, TypeOK
  <2>2. TypeOK'
    BY <1>3, <2>1 DEF BeginRecord, TypeOK
  <2>3. ConfirmedBeyond' /\ BaselineNotReported' /\ UndecidedBeforeDone'
    BY <1>3 DEF BeginRecord, TypeOK, ConfirmedBeyond, BaselineNotReported, Decided,
                UndecidedBeforeDone
  <2> QED
    BY <2>2, <2>3
<1>4. CASE Rejected(r)
  <2>1. "rejected" \in Verdicts /\ 0 \in 0 .. MaxRuns
    BY DEF Verdicts
  <2>2. Conclude(r, "rejected", 0) /\ UNCHANGED <<deviceVars, hubVars, localVars, historyVars>>
    BY <1>4 DEF Rejected
  <2> QED
    BY <2>1, <2>2, ConcludeIInv DEF TypeOK
<1>5. CASE Accepted(r)
  <2>1. dev' \in Status /\ own' \in [Recorders -> 0 .. MaxRuns]
        /\ disturbed' \in [Recorders -> BOOLEAN] /\ dev'.run \in 0 .. MaxRuns
    BY <1>5, StartRunType DEF Accepted
  <2>2. pc' = [pc EXCEPT ![r] = "waiting"]
        /\ UNCHANGED <<uiQueue, hubVars, baseline, busy, inbox, final, doubtful>>
    BY <1>5 DEF Accepted
  <2>3. \/ UNCHANGED <<active, confirmed, armed>>
        \/ /\ active' = [active EXCEPT ![r] = dev'.run]
           /\ confirmed' = [confirmed EXCEPT ![r] = BeyondBaseline(r, dev'.run)]
           /\ armed' = [armed EXCEPT ![r] = ~BeyondBaseline(r, dev'.run)]
    BY <1>5 DEF Accepted
  <2>4. active' \in [Recorders -> 0 .. MaxRuns] /\ confirmed' \in [Recorders -> BOOLEAN]
        /\ armed' \in [Recorders -> BOOLEAN]
    <3>1. BeyondBaseline(r, dev'.run) \in BOOLEAN
      BY DEF BeyondBaseline
    <3>2. CASE UNCHANGED <<active, confirmed, armed>>
      BY <3>2 DEF TypeOK
    <3>3. CASE /\ active' = [active EXCEPT ![r] = dev'.run]
               /\ confirmed' = [confirmed EXCEPT ![r] = BeyondBaseline(r, dev'.run)]
               /\ armed' = [armed EXCEPT ![r] = ~BeyondBaseline(r, dev'.run)]
      BY <2>1, <3>1, <3>3 DEF TypeOK
    <3> QED
      BY <2>3, <3>2, <3>3
  <2>5. TypeOK'
    BY <2>1, <2>2, <2>4 DEF TypeOK
  <2>6. ConfirmedBeyond'
    <3>1. \A q \in GuiRecorders \ {r} :
            pc'[q] = pc[q] /\ confirmed'[q] = confirmed[q] /\ active'[q] = active[q]
      BY <2>2, <2>3 DEF TypeOK
    <3>2. pc'[r] = "waiting" /\ baseline' = baseline
      BY <2>2 DEF TypeOK
    <3>3. r \in GuiRecorders /\ confirmed'[r] /\ baseline[r] > 0 => active'[r] > baseline[r]
      <4>1. r \in GuiRecorders => ~confirmed[r]
        BY <1>5 DEF Accepted, ConfirmedBeyond
      <4> QED
        BY <2>3, <4>1 DEF BeyondBaseline, TypeOK
    <3> QED
      BY <3>1, <3>2, <3>3 DEF ConfirmedBeyond
  <2>7. BaselineNotReported' /\ UndecidedBeforeDone'
    BY <1>5, <2>2 DEF BaselineNotReported, Decided, UndecidedBeforeDone, TypeOK, Accepted
  <2> QED
    BY <2>5, <2>6, <2>7
<1>6. CASE Ambiguous(r)
  <2>1. TypeOK'
    BY <1>6 DEF Ambiguous, TypeOK
  <2>2. ConfirmedBeyond' /\ BaselineNotReported' /\ UndecidedBeforeDone'
    BY <1>6 DEF Ambiguous, TypeOK, ConfirmedBeyond, BaselineNotReported, Decided,
                UndecidedBeforeDone
  <2> QED
    BY <2>1, <2>2
<1>7. CASE ConnectionLost(r)
  <2>1. dev' \in Status /\ own' \in [Recorders -> 0 .. MaxRuns]
        /\ disturbed' \in [Recorders -> BOOLEAN]
    BY <1>7, StartRunType DEF ConnectionLost, TypeOK
  <2>2. "lost" \in Verdicts /\ 0 \in 0 .. MaxRuns
    BY DEF Verdicts
  <2>3. Conclude(r, "lost", 0) /\ UNCHANGED <<uiQueue, hubVars, localVars, doubtful>>
    BY <1>7 DEF ConnectionLost
  <2> QED
    BY <2>1, <2>2, <2>3, ConcludeIInv DEF TypeOK
<1> QED
  BY <1>1, <1>2, <1>3, <1>4, <1>5, <1>6, <1>7

\* The steps of a recording that waits for the end of the run.
LEMMA EventIInv ==
  ASSUME IInv, NEW r \in Recorders,
         \/ DevicePush(r) \/ GuiEvent(r) \/ CliEvent(r)
         \/ ConfirmationExpires(r) \/ WaitExpires(r)
  PROVE  IInv'
<1> DEFINE M == Status \cup {BusyStatus}
<1>0. inbox \in [Recorders -> Seq(M)] /\ BusyStatus \in M /\ dev \in M
  BY DEF IInv, TypeOK
<1>a. ASSUME inbox[r] # <<>>
      PROVE  Head(inbox[r]) \in M /\ [inbox EXCEPT ![r] = Tail(@)] \in [Recorders -> Seq(M)]
  <2> HIDE DEF M
  <2> QED
    BY <1>0, <1>a
<1> USE DEF IInv, deviceVars, hubVars, localVars, historyVars
<1>1. CASE DevicePush(r)
  <2>1. inbox' \in [Recorders -> Seq(M)]
    <3>1. PICK s \in M : inbox' = [inbox EXCEPT ![r] = Append(@, s)]
      BY <1>0, <1>1 DEF DevicePush
    <3> HIDE DEF M
    <3> QED
      BY <1>0, <3>1
  <2>2. TypeOK'
    BY <1>1, <2>1 DEF DevicePush, TypeOK
  <2>3. ConfirmedBeyond' /\ BaselineNotReported' /\ UndecidedBeforeDone'
    BY <1>1 DEF DevicePush, ConfirmedBeyond, BaselineNotReported, Decided, UndecidedBeforeDone
  <2> QED
    BY <2>2, <2>3
<1>2. CASE GuiEvent(r)
  <2> DEFINE s == Head(inbox[r])
  <2>1. s \in M /\ [inbox EXCEPT ![r] = Tail(@)] \in [Recorders -> Seq(M)]
    BY <1>a, <1>2 DEF GuiEvent
  <2>2. s.run \in 0 .. MaxRuns
    BY <2>1 DEF Status, BusyStatus
  <2>3. \/ /\ IsRunning(s) /\ BeyondBaseline(r, s.run)
           /\ confirmed' = [confirmed EXCEPT ![r] = TRUE]
           /\ active' = [active EXCEPT ![r] = s.run]
           /\ armed' = [armed EXCEPT ![r] = FALSE]
        \/ UNCHANGED <<confirmed, active, armed>>
    BY <1>2 DEF GuiEvent
  <2>4. \/ EndsRecord(r, s) /\ Conclude(r, s.state, s.run)
        \/ ReadOn(r)
    BY <1>2 DEF GuiEvent
  <2>5. r \in GuiRecorders /\ pc[r] = "waiting"
        /\ UNCHANGED <<deviceVars, hubVars, baseline, busy, historyVars>>
    BY <1>2 DEF GuiEvent
  <2> HIDE DEF s
  <2>6. active' \in [Recorders -> 0 .. MaxRuns] /\ confirmed' \in [Recorders -> BOOLEAN]
        /\ armed' \in [Recorders -> BOOLEAN]
    BY <2>2, <2>3 DEF TypeOK
  <2>7. /\ inbox' \in [Recorders -> Seq(M)]
        /\ pc' \in [Recorders -> {"idle", "subscribed", "requesting", "waiting", "done"}]
        /\ final' \in [Recorders -> [verdict : Verdicts, run : 0 .. MaxRuns]]
    <3>1. CASE Conclude(r, s.state, s.run) /\ EndsRecord(r, s)
      <4>1. s.state \in Verdicts
        BY <3>1 DEF EndsRecord, IsTerminal, Verdicts, States
      <4>2. inbox' \in [Recorders -> Seq(M)]
        <5> HIDE DEF M
        <5> QED
          BY <1>0, <3>1 DEF Conclude
      <4> QED
        BY <2>2, <3>1, <4>1, <4>2 DEF Conclude, TypeOK
    <3>2. CASE ReadOn(r)
      BY <2>1, <3>2 DEF ReadOn, TypeOK, s
    <3> QED
      BY <2>4, <3>1, <3>2
  <2>8. TypeOK'
    BY <2>5, <2>6, <2>7 DEF TypeOK
  <2>9. ConfirmedBeyond'
    <3>1. \A q \in GuiRecorders \ {r} :
            pc'[q] = pc[q] /\ confirmed'[q] = confirmed[q] /\ active'[q] = active[q]
      BY <2>3, <2>4 DEF Conclude, ReadOn, TypeOK
    <3>2. pc'[r] \in {"waiting", "done"}
      BY <2>4, <2>5 DEF Conclude, ReadOn, TypeOK
    <3>3. confirmed'[r] /\ baseline[r] > 0 => active'[r] > baseline[r]
      BY <2>2, <2>3, <2>5 DEF ConfirmedBeyond, BeyondBaseline, TypeOK
    <3> QED
      BY <2>5, <3>1, <3>2, <3>3 DEF ConfirmedBeyond
  <2>10. BaselineNotReported'
    <3>1. CASE ReadOn(r)
      BY <2>5, <3>1 DEF ReadOn, BaselineNotReported, Decided
    <3>2. CASE Conclude(r, s.state, s.run) /\ EndsRecord(r, s)
      <4>1. baseline[r] > 0 => s.run > baseline[r]
        BY <2>2, <2>5, <2>6, <2>9, <3>2 DEF EndsRecord, ConfirmedBeyond, TypeOK
      <4> QED
        BY <2>5, <3>2, <4>1 DEF Conclude, BaselineNotReported, Decided, TypeOK
    <3> QED
      BY <2>4, <3>1, <3>2
  <2>11. UndecidedBeforeDone'
    BY <2>4, <2>5 DEF Conclude, ReadOn, UndecidedBeforeDone, TypeOK
  <2> QED
    BY <2>8, <2>9, <2>10, <2>11
<1>3. CASE CliEvent(r)
  <2> DEFINE s == Head(inbox[r])
  <2>1. s \in M /\ [inbox EXCEPT ![r] = Tail(@)] \in [Recorders -> Seq(M)]
    BY <1>a, <1>3 DEF CliEvent
  <2>2. s.run \in 0 .. MaxRuns
    BY <2>1 DEF Status, BusyStatus
  <2>3. /\ armed' = [armed EXCEPT ![r] = @ /\ ~IsRunning(s)]
        /\ busy' = [busy EXCEPT ![r] = IF s = BusyStatus THEN @ + 1 ELSE 0]
        /\ \/ Conclude(r, "busy", 0)
           \/ IsTerminal(s) /\ Conclude(r, s.state, s.run)
           \/ ~TooBusy(busy'[r]) /\ ReadOn(r)
        /\ UNCHANGED <<deviceVars, hubVars, baseline, active, confirmed, historyVars>>
        /\ r \notin GuiRecorders /\ pc[r] = "waiting"
    BY <1>3 DEF CliEvent
  <2> HIDE DEF s
  <2>4. armed' \in [Recorders -> BOOLEAN]
    <3>1. (armed[r] /\ ~IsRunning(s)) \in BOOLEAN
      BY DEF IsRunning
    <3> QED
      BY <2>3, <3>1 DEF TypeOK
  <2>5. busy' \in [Recorders -> 0 .. MaxBusy + 1]
        /\ \A q \in Recorders \ {r} : busy'[q] = busy[q]
    <3>1. busy[r] \in 0 .. MaxBusy
      BY <2>3 DEF UndecidedBeforeDone, TypeOK
    <3>2. PICK n \in {0, busy[r] + 1} : busy' = [busy EXCEPT ![r] = n]
      BY <2>3
    <3>3. n \in 0 .. MaxBusy + 1
      BY <3>1, <3>2
    <3> QED
      BY <3>2, <3>3 DEF TypeOK
  <2>6. CASE Conclude(r, "busy", 0)
    <3>1. "busy" \in Verdicts /\ 0 \in 0 .. MaxRuns
      BY DEF Verdicts
    <3> QED
      BY <2>3, <2>4, <2>5, <2>6, <3>1, ConcludeIInv DEF TypeOK
  <2>7. CASE IsTerminal(s) /\ Conclude(r, s.state, s.run)
    <3>1. s.state \in Verdicts
      BY <2>7 DEF IsTerminal, Verdicts, States
    <3> QED
      BY <2>2, <2>3, <2>4, <2>5, <2>7, <3>1, ConcludeIInv DEF TypeOK
  <2>8. CASE ~TooBusy(busy'[r]) /\ ReadOn(r)
    <3>1. inbox' \in [Recorders -> Seq(M)] /\ UNCHANGED <<pc, final>>
      BY <2>1, <2>8 DEF ReadOn
    <3>2. TypeOK'
      BY <2>3, <2>4, <2>5, <3>1 DEF TypeOK
    <3>3. ConfirmedBeyond' /\ BaselineNotReported'
      BY <2>3, <3>1 DEF ConfirmedBeyond, BaselineNotReported, Decided
    <3>4. UndecidedBeforeDone'
      <4>1. busy'[r] \in Nat /\ ~(busy'[r] > MaxBusy)
        BY <2>5, <2>8 DEF TooBusy
      <4>2. busy'[r] <= MaxBusy
        BY <4>1
      <4> QED
        BY <2>5, <3>1, <4>2 DEF UndecidedBeforeDone
    <3> QED
      BY <3>2, <3>3, <3>4
  <2> QED
    BY <2>3, <2>6, <2>7, <2>8
<1>4. CASE ConfirmationExpires(r)
  <2>1. "unconfirmed" \in Verdicts /\ 0 \in 0 .. MaxRuns
    BY DEF Verdicts
  <2>2. /\ Conclude(r, "unconfirmed", 0)
        /\ UNCHANGED <<deviceVars, hubVars, localVars, historyVars>>
    BY <1>4 DEF ConfirmationExpires
  <2> QED
    BY <2>1, <2>2, ConcludeIInv DEF TypeOK
<1>5. CASE WaitExpires(r)
  <2>1. /\ dev.state \in Verdicts /\ dev.run \in 0 .. MaxRuns /\ 0 \in 0 .. MaxRuns
        /\ {"timeout", "busy", "none"} \subseteq Verdicts \ {"ended"}
    BY DEF TypeOK, Status, Verdicts
  <2>2. /\ \/ \E v \in {"timeout", "busy", "none"} : Conclude(r, v, 0)
           \/ r \notin GuiRecorders /\ Conclude(r, dev.state, dev.run)
        /\ UNCHANGED <<deviceVars, hubVars, localVars, historyVars>>
    BY <1>5 DEF WaitExpires
  <2>3. ASSUME NEW v \in {"timeout", "busy", "none"}, Conclude(r, v, 0) PROVE IInv'
    BY <2>1, <2>2, <2>3, ConcludeIInv DEF TypeOK
  <2>4. CASE r \notin GuiRecorders /\ Conclude(r, dev.state, dev.run)
    BY <2>1, <2>2, <2>4, ConcludeIInv DEF TypeOK
  <2> QED
    BY <2>2, <2>3, <2>4
<1> QED
  BY <1>1, <1>2, <1>3, <1>4, <1>5

\* Every step keeps the invariant.
LEMMA NextIInv == IInv /\ [Next]_vars => IInv'
<1> SUFFICES ASSUME IInv, [Next]_vars PROVE IInv'
  OBVIOUS
<1>1. CASE UNCHANGED vars
  BY <1>1 DEF vars, IInv, TypeOK, ConfirmedBeyond, UndecidedBeforeDone, BaselineNotReported,
              Decided, deviceVars, hubVars, localVars, historyVars
<1>2. CASE Next
  BY <1>2, OthersIInv, StartIInv, EventIInv DEF Next, RecorderStep
<1> QED
  BY <1>1, <1>2

\* Nothing that happens while recordings start, run and end breaks it.
LEMMA Invariant == Spec => []IInv
  BY InitIInv, NextIInv, PTL DEF Spec

\* The variables of devices, hubs and recordings stay within their types; in
\* particular run_record gives up after one busy status too many.
THEOREM TypeCorrect == Spec => []TypeOK
<1>1. IInv => TypeOK
  BY DEF IInv
<1> QED
  BY <1>1, Invariant, PTL

\* A RecordWorker never files the verdict of the run that was under way when it
\* subscribed, or of an older one, as that of its own (RecordWorker._run).
THEOREM BaselineRespected == Spec => []BaselineNotReported
<1>1. IInv => BaselineNotReported
  BY DEF IInv
<1> QED
  BY <1>1, Invariant, PTL

------------------------------------------------------------------------------
(* A recording that nobody else's run came near reports its own.           *)

\* What a status on its way to a RecordWorker may be: none of the future, and if
\* it is of a run under way, then of the worker's own.
Shown(r, s) == s.run <= dev.run /\ (IsRunning(s) => own[r] > 0 /\ s.run = own[r])

\* What run_record may be shown after a clear reply.
OwnEnd(r, s) == IsTerminal(s) => s.run = own[r]

\* The recording is under way and has seen nothing of others.
Quiet(r) == Active(r) /\ ~disturbed[r]

\* Then the device has run nothing but the recording's own run since it began.
QuietInv(r) ==
  /\ IsRunning(dev) => own[r] > 0
  /\ own[r] > 0 => own[r] = dev.run
  /\ r \in GuiRecorders =>
       /\ Shown(r, polled)
       /\ confirmed[r] => own[r] > 0 /\ active[r] = own[r]
       /\ \A i \in 1 .. Len(inbox[r]) : Shown(r, inbox[r][i])
  /\ r \notin GuiRecorders /\ ~doubtful[r] =>
       /\ pc[r] = "waiting" => own[r] > 0
       /\ \A i \in 1 .. Len(inbox[r]) : OwnEnd(r, inbox[r][i])

\* The property, and what keeps it true once the recording is done: its command
\* starts one run at most, and a start in the UI queue has not started any.
BookInv(r) ==
  /\ ~Active(r) \/ (r \notin GuiRecorders /\ pc[r] # "waiting") => inbox[r] = <<>>
  /\ pc[r] \in {"idle", "subscribed", "requesting"} => own[r] = 0 /\ ~doubtful[r]
  /\ r \in uiQueue => own[r] = 0 /\ doubtful[r]
  /\ Decided(r) /\ ~disturbed[r] /\ (doubtful[r] => r \in GuiRecorders) =>
       own[r] > 0 /\ final[r].run = own[r]

OwnPart(r) == BookInv(r) /\ (Quiet(r) => QuietInv(r))

OwnInv == polled.run <= dev.run /\ \A r \in Recorders : OwnPart(r)

\* A step of one recording keeps the invariant of the others: either it leaves
\* the device alone, or it starts a run and disturbs those under way.
LEMMA OneMoves ==
  ASSUME IInv, OwnInv, NEW r \in Recorders, polled' = polled,
         uiQueue' \subseteq uiQueue \cup {r},
         \A q \in Recorders \ {r} :
           /\ pc'[q] = pc[q] /\ inbox'[q] = inbox[q] /\ final'[q] = final[q]
           /\ confirmed'[q] = confirmed[q] /\ active'[q] = active[q] /\ doubtful'[q] = doubtful[q],
         \/ StartRun(r)
         \/ /\ dev' = dev
            /\ \A q \in Recorders \ {r} : own'[q] = own[q] /\ disturbed'[q] = disturbed[q],
         OwnPart(r)'
  PROVE  OwnInv'
<1>1. polled'.run <= dev'.run
  BY DEF IInv, TypeOK, Status, OwnInv, StartRun
<1>2. ASSUME NEW q \in Recorders \ {r} PROVE OwnPart(q)'
  <2>1. OwnPart(q)
    BY DEF OwnInv
  <2>2. CASE StartRun(r)
    <3>1. own'[q] = own[q] /\ (disturbed'[q] <=> disturbed[q] \/ Active(q))
      BY <2>2 DEF StartRun, IInv, TypeOK
    <3>2. Active(q)' <=> Active(q)
      BY DEF Active
    <3>3. ~Quiet(q)'
      BY <3>1, <3>2 DEF Quiet
    <3>4. BookInv(q)'
      BY <2>1, <3>1, <3>2 DEF OwnPart, BookInv, Decided, Active
    <3> QED
      BY <3>3, <3>4 DEF OwnPart
  <2>3. CASE dev' = dev /\ own'[q] = own[q] /\ disturbed'[q] = disturbed[q]
    BY <2>1, <2>3 DEF OwnPart, BookInv, Quiet, QuietInv, Active, Decided, Shown, OwnEnd
  <2> QED
    BY <2>2, <2>3
<1> QED
  BY <1>1, <1>2 DEF OwnInv

\* A run is started for r only while it has none: it is then the latest.
LEMMA StartsOwn ==
  ASSUME IInv, OwnInv, NEW r \in Recorders, StartRun(r)
  PROVE  /\ own'[r] = dev'.run /\ own'[r] > dev.run /\ own'[r] \in Nat
         /\ IsRunning(dev') /\ disturbed'[r] = disturbed[r]
<1>1. dev.run \in Nat
  BY DEF IInv, TypeOK, Status
<1> QED
  BY <1>1 DEF IInv, TypeOK, StartRun, IsRunning

\* What is in an inbox has been shown; what is read is the oldest of it.
LEMMA ReadOwn ==
  ASSUME IInv, NEW r \in Recorders, inbox[r] # <<>>
  PROVE  /\ 1 \in 1 .. Len(inbox[r]) /\ Head(inbox[r]) = inbox[r][1]
         /\ \A i \in 1 .. Len(Tail(inbox[r])) :
              /\ i + 1 \in 1 .. Len(inbox[r])
              /\ Tail(inbox[r])[i] = inbox[r][i + 1]
<1> DEFINE M == Status \cup {BusyStatus}
<1>1. inbox[r] \in Seq(M)
  BY DEF IInv, TypeOK
<1> HIDE DEF M
<1> QED
  BY <1>1

\* Device and hub: what the hub polls and puts on its way is the device's status.
LEMMA OthersOwn ==
  ASSUME IInv, OwnInv, DeviceFinish \/ HubPoll \/ HubStore \/ HubBroadcast
  PROVE  OwnInv'
<1> USE DEF deviceVars, hubVars, localVars, historyVars
<1>1. CASE DeviceFinish
  <2>1. /\ dev'.run = dev.run /\ ~IsRunning(dev')
        /\ UNCHANGED <<uiQueue, hubVars, pc, localVars, inbox, final, historyVars>>
    BY <1>1 DEF DeviceFinish, IInv, TypeOK, Status, IsRunning
  <2> QED
    BY <2>1 DEF OwnInv, OwnPart, BookInv, Quiet, QuietInv, Active, Decided, Shown, OwnEnd
<1>2. CASE HubPoll
  <2>1. polled' = dev /\ UNCHANGED <<dev, uiQueue, pc, localVars, inbox, final, historyVars>>
    BY <1>2 DEF HubPoll
  <2>2. dev.run \in Nat
    BY DEF IInv, TypeOK, Status
  <2>3. ASSUME NEW r \in Recorders PROVE OwnPart(r)'
    <3>1. OwnPart(r)
      BY DEF OwnInv
    <3>2. BookInv(r)'
      BY <2>1, <3>1 DEF OwnPart, BookInv, Active, Decided
    <3>3. ASSUME Quiet(r)' PROVE QuietInv(r)'
      <4>1. QuietInv(r)
        BY <2>1, <3>1, <3>3 DEF OwnPart, Quiet, Active
      <4>2. Shown(r, polled)'
        BY <2>1, <2>2, <4>1 DEF QuietInv, Shown
      <4> QED
        BY <2>1, <4>1, <4>2 DEF QuietInv, Shown, OwnEnd
    <3> QED
      BY <3>2, <3>3 DEF OwnPart
  <2> QED
    BY <2>1, <2>2, <2>3 DEF OwnInv
<1>3. CASE HubStore
  BY <1>3 DEF HubStore, OwnInv, OwnPart, BookInv, Quiet, QuietInv, Active, Decided, Shown, OwnEnd
<1>4. CASE HubBroadcast
  <2>1. /\ polled' = NoStatus
        /\ inbox' = [r \in Recorders |->
             IF r \in GuiRecorders /\ Active(r) THEN Append(inbox[r], polled) ELSE inbox[r]]
        /\ UNCHANGED <<deviceVars, pc, localVars, final, historyVars>>
    BY <1>4 DEF HubBroadcast
  <2>2. dev.run \in Nat
    BY DEF IInv, TypeOK, Status
  <2>3. ASSUME NEW r \in Recorders PROVE OwnPart(r)'
    <3>1. OwnPart(r)
      BY DEF OwnInv
    <3>2. BookInv(r)'
      BY <2>1, <3>1 DEF OwnPart, BookInv, Active, Decided
    <3>3. ASSUME Quiet(r)' PROVE QuietInv(r)'
      <4>1. QuietInv(r) /\ Active(r)
        BY <2>1, <3>1, <3>3 DEF OwnPart, Quiet, Active
      <4>2. Shown(r, polled)'
        BY <2>1, <2>2 DEF Shown, NoStatus, IsRunning
      <4>3. CASE r \in GuiRecorders
        <5> DEFINE M == Status \cup {BusyStatus}
        <5>1. inbox[r] \in Seq(M) /\ polled \in M
          BY DEF IInv, TypeOK
        <5>2. inbox'[r] = Append(inbox[r], polled)
          BY <2>1, <4>1, <4>3
        <5>3. ASSUME NEW i \in 1 .. Len(inbox'[r])
              PROVE  inbox'[r][i] = polled \/ (i \in 1 .. Len(inbox[r]) /\ inbox'[r][i] = inbox[r][i])
          <6> HIDE DEF M
          <6> QED
            BY <5>1, <5>2, <5>3
        <5>4. \A i \in 1 .. Len(inbox'[r]) : Shown(r, inbox[r][i])' \/ inbox'[r][i] = polled
          BY <2>1, <4>1, <4>3, <5>3 DEF QuietInv, Shown
        <5>5. \A i \in 1 .. Len(inbox'[r]) : Shown(r, inbox[r][i])'
          BY <2>1, <4>1, <4>3, <5>4 DEF QuietInv, Shown
        <5> QED
          BY <2>1, <4>1, <4>2, <4>3, <5>5 DEF QuietInv
      <4>4. CASE r \notin GuiRecorders
        BY <2>1, <4>1, <4>4 DEF QuietInv, OwnEnd
      <4> QED
        BY <4>3, <4>4
    <3> QED
      BY <3>2, <3>3 DEF OwnPart
  <2>4. polled'.run <= dev'.run
    BY <2>1, <2>2 DEF NoStatus
  <2> QED
    BY <2>3, <2>4 DEF OwnInv
<1> QED
  BY <1>1, <1>2, <1>3, <1>4

\* A start that comes late is the first run of its recording.
LEMMA LateOwn ==
  ASSUME IInv, OwnInv, NEW r \in Recorders, LateStart(r)
  PROVE  OwnInv'
<1> USE DEF hubVars, localVars
<1>1. /\ r \in uiQueue /\ uiQueue' = uiQueue \ {r}
      /\ StartRun(r) \/ UNCHANGED <<dev, own, disturbed>>
      /\ UNCHANGED <<polled, pc, active, confirmed, inbox, final, doubtful>>
  BY DEF LateStart
<1>2. OwnPart(r) /\ own[r] = 0 /\ doubtful[r]
  BY <1>1 DEF OwnInv, OwnPart, BookInv
<1>3. CASE UNCHANGED <<dev, own, disturbed>>
  BY <1>1, <1>3 DEF OwnInv, OwnPart, BookInv, Quiet, QuietInv, Active, Decided, Shown, OwnEnd
<1>4. CASE StartRun(r)
  <2>1. /\ own'[r] = dev'.run /\ own'[r] > dev.run /\ own'[r] \in Nat
        /\ IsRunning(dev') /\ disturbed'[r] = disturbed[r]
    BY <1>4, StartsOwn
  <2>2. BookInv(r)'
    BY <1>1, <1>2, <2>1 DEF OwnPart, BookInv, Active, Decided
  <2>3. ASSUME Quiet(r)' PROVE QuietInv(r)'
    <3>1. QuietInv(r)
      BY <1>1, <1>2, <2>1, <2>3 DEF OwnPart, Quiet, Active
    <3>2. dev.run \in Nat
      BY DEF IInv, TypeOK, Status
    <3>3. own'[r] > 0
      BY <2>1, <3>2
    <3>4. CASE r \in GuiRecorders
      <4>1. polled.run \in Nat /\ Shown(r, polled)'
        BY <1>1, <1>2, <2>1, <3>1, <3>2, <3>4 DEF QuietInv, Shown, IInv, TypeOK, Status
      <4>2. ASSUME NEW i \in 1 .. Len(inbox[r]) PROVE Shown(r, inbox[r][i])'
        <5>1. Shown(r, inbox[r][i])
          BY <3>1, <3>4 DEF QuietInv
        <5>2. inbox[r][i].run \in Nat
          <6> DEFINE M == Status \cup {BusyStatus}
          <6>1. inbox[r] \in Seq(M)
            BY DEF IInv, TypeOK
          <6>2. inbox[r][i] \in M
            <7> HIDE DEF M
            <7> QED
              BY <6>1
          <6> QED
            BY <6>2 DEF Status, BusyStatus
        <5> QED
          BY <1>1, <1>2, <2>1, <3>2, <5>1, <5>2 DEF Shown
      <4>3. ~confirmed'[r]
        BY <1>1, <1>2, <3>1, <3>4 DEF QuietInv
      <4> QED
        BY <1>1, <2>1, <3>3, <3>4, <4>1, <4>2, <4>3 DEF QuietInv
    <3>5. CASE r \notin GuiRecorders
      BY <1>1, <1>2, <2>1, <3>3, <3>5 DEF QuietInv
    <3> QED
      BY <3>4, <3>5
  <2>4. OwnPart(r)'
    BY <2>2, <2>3 DEF OwnPart
  <2> QED
    BY <1>1, <1>4, <2>4, OneMoves
<1> QED
  BY <1>1, <1>3, <1>4

\* A recording that ends without a run's verdict, or with its own.
LEMMA ConcludeOwn ==
  ASSUME IInv, OwnInv, NEW r \in Recorders, NEW v, NEW n, Conclude(r, v, n),
         UNCHANGED <<uiQueue, polled, doubtful>>,
         StartRun(r) \/ UNCHANGED <<dev, own, disturbed>>,
         \A q \in Recorders \ {r} : confirmed'[q] = confirmed[q] /\ active'[q] = active[q],
         r \notin uiQueue \/ UNCHANGED own,
         v = "ended" /\ ~disturbed[r] /\ (doubtful[r] => r \in GuiRecorders) =>
           own'[r] > 0 /\ n = own'[r]
  PROVE  OwnInv'
<1>1. /\ pc'[r] = "done" /\ inbox'[r] = <<>> /\ final'[r] = [verdict |-> v, run |-> n]
      /\ \A q \in Recorders \ {r} :
           pc'[q] = pc[q] /\ inbox'[q] = inbox[q] /\ final'[q] = final[q]
  BY DEF Conclude, IInv, TypeOK
<1>2. disturbed'[r] = disturbed[r]
  BY StartsOwn
<1>3. ~Active(r)'
  BY <1>1 DEF Active
<1>4. BookInv(r)
  BY DEF OwnInv, OwnPart
<1>5. BookInv(r)'
  BY <1>1, <1>2, <1>3, <1>4 DEF BookInv, Decided
<1>6. OwnPart(r)'
  BY <1>3, <1>5 DEF OwnPart, Quiet
<1> QED
  BY <1>1, <1>6, OneMoves

\* A recording begins with an empty inbox, and undisturbed only when no run is
\* under way and none about to be broadcast.
LEMMA BeginOwn ==
  ASSUME IInv, OwnInv, NEW r \in Recorders, Subscribe(r) \/ TakeBaseline(r) \/ BeginRecord(r)
  PROVE  OwnInv'
<1> USE DEF deviceVars, hubVars, localVars, historyVars
<1>1. OwnPart(r) /\ polled.run <= dev.run
  BY DEF OwnInv
<1>2. /\ UNCHANGED <<dev, uiQueue, polled, active, confirmed, inbox, final, own, doubtful>>
      /\ pc[r] \in {"idle", "subscribed"} /\ pc'[r] \in {"subscribed", "requesting"}
      /\ \A q \in Recorders \ {r} : pc'[q] = pc[q] /\ disturbed'[q] = disturbed[q]
  BY DEF Subscribe, TakeBaseline, BeginRecord, IInv, TypeOK
<1>3. own[r] = 0 /\ ~doubtful[r]
  BY <1>1, <1>2 DEF OwnPart, BookInv
<1>4. ~Decided(r)
  BY <1>2 DEF IInv, UndecidedBeforeDone, Decided
<1>5. BookInv(r)'
  BY <1>1, <1>2, <1>3, <1>4 DEF OwnPart, BookInv, Active, Decided
<1>6. ASSUME Quiet(r)' PROVE QuietInv(r)'
  <2>1. CASE TakeBaseline(r)
    <3>1. QuietInv(r)
      BY <1>1, <1>6, <2>1 DEF OwnPart, Quiet, Active, TakeBaseline
    <3> QED
      BY <1>2, <3>1 DEF QuietInv, Shown, OwnEnd
  <2>2. CASE Subscribe(r) \/ BeginRecord(r)
    <3>1. pc[r] = "idle" /\ inbox[r] = <<>>
      BY <1>1, <2>2 DEF Subscribe, BeginRecord, OwnPart, BookInv, Active
    <3>2. ~IsRunning(dev) /\ (r \in GuiRecorders => ~IsRunning(polled) /\ ~confirmed[r])
      BY <1>6, <2>2, <3>1 DEF Subscribe, BeginRecord, Quiet, IInv, TypeOK, ConfirmedBeyond
    <3> QED
      BY <1>1, <1>2, <1>3, <3>1, <3>2 DEF QuietInv, Shown
  <2> QED
    BY <2>1, <2>2
<1>7. OwnPart(r)'
  BY <1>5, <1>6 DEF OwnPart
<1> QED
  BY <1>2, <1>7, OneMoves

\* A clear reply goes with a run of the recording's own.
LEMMA AcceptedOwn ==
  ASSUME IInv, OwnInv, NEW r \in Recorders, Accepted(r)
  PROVE  OwnInv'
<1>1. /\ pc[r] = "requesting" /\ StartRun(r) /\ pc' = [pc EXCEPT ![r] = "waiting"]
      /\ UNCHANGED <<uiQueue, polled, inbox, final, doubtful>>
      /\ \/ UNCHANGED <<active, confirmed>>
         \/ /\ active' = [active EXCEPT ![r] = dev'.run]
            /\ confirmed' = [confirmed EXCEPT ![r] = BeyondBaseline(r, dev'.run)]
  BY DEF Accepted, hubVars
<1>2. /\ own'[r] = dev'.run /\ own'[r] > dev.run /\ own'[r] \in Nat
      /\ IsRunning(dev') /\ disturbed'[r] = disturbed[r]
  BY <1>1, StartsOwn
<1>3. dev.run \in Nat /\ own'[r] > 0
  BY <1>2 DEF IInv, TypeOK, Status
<1>4. OwnPart(r) /\ own[r] = 0 /\ ~doubtful[r] /\ r \notin uiQueue /\ ~Decided(r)
  BY <1>1 DEF OwnInv, OwnPart, BookInv, IInv, UndecidedBeforeDone, Decided
<1>5. Active(r) /\ Active(r)'
  BY <1>1 DEF Active, IInv, TypeOK
<1>6. BookInv(r)'
  BY <1>1, <1>4, <1>5 DEF BookInv, Decided, IInv, TypeOK
<1>7. ASSUME Quiet(r)' PROVE QuietInv(r)'
  <2>1. QuietInv(r)
    BY <1>2, <1>4, <1>5, <1>7 DEF OwnPart, Quiet
  <2> DEFINE M == Status \cup {BusyStatus}
  <2>2. ASSUME NEW i \in 1 .. Len(inbox[r])
        PROVE  inbox[r][i].run \in Nat
    <3>1. inbox[r] \in Seq(M)
      BY DEF IInv, TypeOK
    <3>2. inbox[r][i] \in M
      <4> HIDE DEF M
      <4> QED
        BY <3>1
    <3> QED
      BY <3>2 DEF Status, BusyStatus
  <2>3. CASE r \in GuiRecorders
    <3>1. polled.run \in Nat
      BY DEF IInv, TypeOK, Status
    <3>2. Shown(r, polled)'
      BY <1>1, <1>2, <1>3, <1>4, <2>1, <2>3, <3>1 DEF QuietInv, Shown
    <3>3. \A i \in 1 .. Len(inbox[r]) : Shown(r, inbox[r][i])'
      BY <1>1, <1>2, <1>3, <1>4, <2>1, <2>2, <2>3 DEF QuietInv, Shown
    <3>4. confirmed'[r] => active'[r] = own'[r]
      <4>1. ~confirmed[r]
        BY <1>1, <2>3 DEF IInv, ConfirmedBeyond
      <4> QED
        BY <1>1, <1>2, <4>1 DEF IInv, TypeOK
    <3> QED
      BY <1>1, <1>2, <1>3, <2>3, <3>2, <3>3, <3>4 DEF QuietInv
  <2>4. CASE r \notin GuiRecorders
    <3>1. inbox[r] = <<>>
      BY <1>1, <1>4, <2>4 DEF OwnPart, BookInv
    <3> QED
      BY <1>1, <1>2, <1>3, <2>4, <3>1 DEF QuietInv, OwnEnd
  <2> QED
    BY <2>3, <2>4
<1>8. OwnPart(r)'
  BY <1>6, <1>7 DEF OwnPart
<1>9. \A q \in Recorders \ {r} :
        pc'[q] = pc[q] /\ confirmed'[q] = confirmed[q] /\ active'[q] = active[q]
  BY <1>1 DEF IInv, TypeOK
<1> QED
  BY <1>1, <1>8, <1>9, OneMoves

\* The other ends of a request.
LEMMA RequestOwn ==
  ASSUME IInv, OwnInv, NEW r \in Recorders, Rejected(r) \/ Ambiguous(r) \/ ConnectionLost(r)
  PROVE  OwnInv'
<1> USE DEF deviceVars, hubVars, localVars, historyVars
<1>1. CASE Rejected(r)
  BY <1>1, ConcludeOwn DEF Rejected
<1>2. CASE ConnectionLost(r)
  <2>1. r \notin uiQueue \/ UNCHANGED own
    BY <1>2 DEF ConnectionLost, OwnInv, OwnPart, BookInv
  <2> QED
    BY <1>2, <2>1, ConcludeOwn DEF ConnectionLost
<1>3. CASE Ambiguous(r)
  <2>1. /\ pc[r] = "requesting" /\ uiQueue' = uiQueue \cup {r}
        /\ doubtful' = [doubtful EXCEPT ![r] = TRUE]
        /\ pc' = [pc EXCEPT ![r] = "waiting"]
        /\ UNCHANGED <<dev, polled, active, confirmed, inbox, final, own, disturbed>>
    BY <1>3 DEF Ambiguous
  <2>2. OwnPart(r) /\ own[r] = 0 /\ ~Decided(r)
    BY <2>1 DEF OwnInv, OwnPart, BookInv, IInv, UndecidedBeforeDone, Decided
  <2>3. pc'[r] = "waiting" /\ doubtful'[r]
    BY <2>1 DEF IInv, TypeOK
  <2>4. OwnPart(r)'
    <3>1. BookInv(r)'
      BY <2>1, <2>2, <2>3 DEF BookInv, Active, Decided
    <3>2. Quiet(r)' => QuietInv(r)'
      BY <2>1, <2>2, <2>3 DEF OwnPart, Quiet, Active, QuietInv, Shown
    <3> QED
      BY <3>1, <3>2 DEF OwnPart
  <2>5. \A q \in Recorders \ {r} : pc'[q] = pc[q] /\ doubtful'[q] = doubtful[q]
    BY <2>1
  <2> QED
    BY <2>1, <2>4, <2>5, OneMoves
<1> QED
  BY <1>1, <1>2, <1>3

\* The device pushes its own status, which is that of the recording's run.
LEMMA PushOwn ==
  ASSUME IInv, OwnInv, NEW r \in Recorders, DevicePush(r)
  PROVE  OwnInv'
<1> DEFINE M == Status \cup {BusyStatus}
<1>1. PICK s \in {dev, BusyStatus} : inbox' = [inbox EXCEPT ![r] = Append(@, s)]
  BY DEF DevicePush
<1>2. /\ r \notin GuiRecorders /\ pc[r] = "waiting"
      /\ UNCHANGED <<dev, uiQueue, polled, pc, active, confirmed, final, own, doubtful, disturbed>>
  BY DEF DevicePush, deviceVars, hubVars, localVars, historyVars
<1>3. inbox \in [Recorders -> Seq(M)] /\ s \in M
  BY DEF IInv, TypeOK
<1>4. \A i \in 1 .. Len(inbox'[r]) :
        inbox'[r][i] = s \/ (i \in 1 .. Len(inbox[r]) /\ inbox'[r][i] = inbox[r][i])
  <2> HIDE DEF M
  <2> QED
    BY <1>1, <1>3
<1>5. OwnPart(r)
  BY DEF OwnInv
<1>6. BookInv(r)'
  BY <1>2, <1>5 DEF OwnPart, BookInv, Active, Decided
<1>7. ASSUME Quiet(r)' PROVE QuietInv(r)'
  <2>1. QuietInv(r)
    BY <1>2, <1>5, <1>7 DEF OwnPart, Quiet, Active
  <2>2. ~doubtful[r] => OwnEnd(r, s)
    BY <1>2, <2>1 DEF QuietInv, OwnEnd, BusyStatus, IsTerminal
  <2>3. ~doubtful[r] => \A i \in 1 .. Len(inbox'[r]) : OwnEnd(r, inbox'[r][i])
    BY <1>2, <1>4, <2>1, <2>2 DEF QuietInv
  <2> QED
    BY <1>2, <2>1, <2>3 DEF QuietInv, OwnEnd
<1>8. OwnPart(r)'
  BY <1>6, <1>7 DEF OwnPart
<1> QED
  BY <1>1, <1>2, <1>8, OneMoves

\* Reading on, a recording has less to read and knows at most its own run.
LEMMA ReadOnOwn ==
  ASSUME IInv, OwnInv, NEW r \in Recorders, ReadOn(r), inbox[r] # <<>>, pc[r] = "waiting",
         UNCHANGED <<dev, uiQueue, polled, own, doubtful, disturbed>>,
         \A q \in Recorders \ {r} : confirmed'[q] = confirmed[q] /\ active'[q] = active[q],
         r \in GuiRecorders /\ Quiet(r) /\ confirmed'[r] => own[r] > 0 /\ active'[r] = own[r]
  PROVE  OwnInv'
<1>1. /\ inbox'[r] = Tail(inbox[r]) /\ UNCHANGED <<pc, final>>
      /\ \A q \in Recorders \ {r} : inbox'[q] = inbox[q]
  BY DEF ReadOn, IInv, TypeOK
<1>2. OwnPart(r) /\ Active(r) /\ Active(r)'
  BY <1>1 DEF OwnInv, Active
<1>3. BookInv(r)'
  BY <1>1, <1>2 DEF OwnPart, BookInv, Decided
<1>4. ASSUME Quiet(r)' PROVE QuietInv(r)'
  <2>1. Quiet(r) /\ QuietInv(r)
    BY <1>2, <1>4 DEF OwnPart, Quiet
  <2>2. \A i \in 1 .. Len(inbox'[r]) :
          i + 1 \in 1 .. Len(inbox[r]) /\ inbox'[r][i] = inbox[r][i + 1]
    BY <1>1, ReadOwn
  <2>3. /\ r \in GuiRecorders => \A i \in 1 .. Len(inbox'[r]) : Shown(r, inbox'[r][i])
        /\ r \notin GuiRecorders /\ ~doubtful[r] =>
             \A i \in 1 .. Len(inbox'[r]) : OwnEnd(r, inbox'[r][i])
    BY <2>1, <2>2 DEF QuietInv
  <2> QED
    BY <1>1, <2>1, <2>3 DEF QuietInv, Shown, OwnEnd
<1>5. OwnPart(r)'
  BY <1>3, <1>4 DEF OwnPart
<1> QED
  BY <1>1, <1>5, OneMoves

\* The statuses a recording reads: undisturbed, it confirms its own run only,
\* and ends with a status of that run.
LEMMA EventOwn ==
  ASSUME IInv, OwnInv, NEW r \in Recorders,
         \/ GuiEvent(r) \/ CliEvent(r) \/ ConfirmationExpires(r) \/ WaitExpires(r)
  PROVE  OwnInv'
<1> USE DEF deviceVars, hubVars, localVars, historyVars
<1>0. OwnPart(r) /\ own[r] \in Nat /\ dev.run \in Nat
  BY DEF OwnInv, IInv, TypeOK, Status
<1>1. CASE GuiEvent(r)
  <2> DEFINE s == Head(inbox[r])
  <2>1. /\ r \in GuiRecorders /\ pc[r] = "waiting" /\ inbox[r] # <<>>
        /\ \/ /\ IsRunning(s)
              /\ confirmed' = [confirmed EXCEPT ![r] = TRUE]
              /\ active' = [active EXCEPT ![r] = s.run]
           \/ UNCHANGED <<confirmed, active>>
        /\ \/ EndsRecord(r, s) /\ Conclude(r, s.state, s.run)
           \/ ReadOn(r)
        /\ UNCHANGED <<dev, uiQueue, polled, own, doubtful, disturbed>>
    BY <1>1 DEF GuiEvent
  <2>2. s.run \in Nat
    <3> DEFINE M == Status \cup {BusyStatus}
    <3>1. inbox[r] \in Seq(M)
      BY DEF IInv, TypeOK
    <3>2. s \in M
      <4> HIDE DEF M
      <4> QED
        BY <2>1, <3>1
    <3> QED
      BY <3>2 DEF Status, BusyStatus
  <2>3. Quiet(r) => Shown(r, s)
    BY <1>0, <2>1, ReadOwn DEF OwnPart, QuietInv
  <2> HIDE DEF s
  <2>4. Quiet(r) /\ confirmed'[r] => own[r] > 0 /\ active'[r] = own[r]
    BY <1>0, <2>1, <2>3 DEF OwnPart, QuietInv, Shown, IInv, TypeOK
  <2>5. \A q \in Recorders \ {r} : confirmed'[q] = confirmed[q] /\ active'[q] = active[q]
    BY <2>1 DEF IInv, TypeOK
  <2>6. CASE ReadOn(r)
    BY <2>1, <2>4, <2>5, <2>6, ReadOnOwn
  <2>7. CASE EndsRecord(r, s) /\ Conclude(r, s.state, s.run)
    <3>1. ~disturbed[r] => Quiet(r)
      BY <2>1 DEF Quiet, Active
    <3>2. ~disturbed[r] => own[r] > 0 /\ s.run = own[r]
      BY <1>0, <2>2, <2>3, <2>4, <2>7, <3>1 DEF EndsRecord, OwnPart, QuietInv, Shown
    <3> QED
      BY <2>1, <2>5, <2>7, <3>2, ConcludeOwn
  <2> QED
    BY <2>1, <2>6, <2>7
<1>2. CASE CliEvent(r)
  <2> DEFINE s == Head(inbox[r])
  <2>1. /\ r \notin GuiRecorders /\ pc[r] = "waiting" /\ inbox[r] # <<>>
        /\ \/ Conclude(r, "busy", 0)
           \/ IsTerminal(s) /\ Conclude(r, s.state, s.run)
           \/ ReadOn(r)
        /\ UNCHANGED <<dev, uiQueue, polled, own, doubtful, disturbed, active, confirmed>>
    BY <1>2 DEF CliEvent
  <2>2. ~disturbed[r] /\ ~doubtful[r] => OwnEnd(r, s) /\ own[r] > 0
    BY <1>0, <2>1, ReadOwn DEF OwnPart, Quiet, QuietInv, Active
  <2> HIDE DEF s
  <2>3. CASE ReadOn(r)
    BY <2>1, <2>3, ReadOnOwn
  <2>4. CASE Conclude(r, "busy", 0)
    BY <2>1, <2>4, ConcludeOwn
  <2>5. CASE IsTerminal(s) /\ Conclude(r, s.state, s.run)
    BY <2>1, <2>2, <2>5, ConcludeOwn DEF OwnEnd
  <2> QED
    BY <2>1, <2>3, <2>4, <2>5
<1>3. CASE ConfirmationExpires(r)
  BY <1>3, ConcludeOwn DEF ConfirmationExpires
<1>4. CASE WaitExpires(r)
  <2>1. ASSUME NEW v \in {"timeout", "busy", "none"}, Conclude(r, v, 0) PROVE OwnInv'
    BY <1>4, <2>1, ConcludeOwn DEF WaitExpires
  <2>2. CASE r \notin GuiRecorders /\ Conclude(r, dev.state, dev.run)
    <3>1. ~disturbed[r] /\ ~doubtful[r] => own[r] > 0 /\ dev.run = own[r]
      BY <1>0, <1>4, <2>2 DEF WaitExpires, OwnPart, Quiet, QuietInv, Active
    <3> QED
      BY <1>4, <2>2, <3>1, ConcludeOwn DEF WaitExpires
  <2> QED
    BY <1>4, <2>1, <2>2 DEF WaitExpires
<1> QED
  BY <1>1, <1>2, <1>3, <1>4

\* The invariant of the undisturbed recordings holds in every reachable state.
LEMMA OwnInvariant == Spec => []OwnInv
<1>1. Init => OwnInv
  <2> SUFFICES ASSUME Init PROVE OwnInv
    OBVIOUS
  <2>1. polled.run = 0 /\ dev.run \in Nat
    BY DEF Init, NoStatus
  <2> QED
    BY <2>1 DEF Init, OwnInv, OwnPart, BookInv, Quiet, Active, Decided
<1>2. IInv /\ OwnInv /\ [Next]_vars => OwnInv'
  <2> SUFFICES ASSUME IInv, OwnInv, [Next]_vars PROVE OwnInv'
    OBVIOUS
  <2>1. CASE UNCHANGED vars
    BY <2>1 DEF vars, deviceVars, hubVars, localVars, historyVars, OwnInv, OwnPart, BookInv,
                Quiet, QuietInv, Active, Decided, Shown, OwnEnd
  <2>2. ASSUME NEW r \in Recorders, RecorderStep(r) PROVE OwnInv'
    BY <2>2, BeginOwn, AcceptedOwn, RequestOwn, PushOwn, EventOwn DEF RecorderStep
  <2> QED
    BY <2>1, <2>2, OthersOwn, LateOwn DEF Next
<1> QED
  BY <1>1, <1>2, Invariant, PTL DEF Spec

\* A recording that nobody else's run of the case came near is filed under the
\* verdict of the run its own command started, for any number of recorders: a
\* RecordWorker's even when the start was ambiguous and comes late, run_record's
\* when the reply was clear.
THEOREM UndisturbedIsRight == Spec => []UndisturbedReportsOwn
<1>1. OwnInv => UndisturbedReportsOwn
  BY DEF OwnInv, OwnPart, BookInv, UndisturbedReportsOwn
<1> QED
  BY <1>1, OwnInvariant, PTL
==============================================================================
