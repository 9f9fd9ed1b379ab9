--------------------------- MODULE DeviceDesk_proofs ---------------------------
(***************************************************************************)
(* What the main window keeps of its devices' threads for any number of    *)
(* links, of runtimes, of command threads and of probe slots.              *)
(***************************************************************************)
EXTENDS DeviceDesk, FiniteSetTheorems, TLAPS

USE DeskAssumption

------------------------------------------------------------------------------
(* Types.                                                                  *)

Runtime == [key : Keys, configured : BOOLEAN, online : {"yes", "no", "unknown"},
            invalid : BOOLEAN, thread : Commands \cup {NoCommand}, starting : BOOLEAN]

Whats == {"none", "record_start", "record_stop"}
Question == [id : Ids \cup {0}, what : Whats]

Command == [at : {"free", "run", "emitted", "ended"}, owner : Ids,
            purpose : {"other", "probe", "catalog"} \cup Whats, cancelled : BOOLEAN]

Signal ==
  [kind : {"reply"}, command : Commands, outcome : {"ok", "rejected", "error", "invalid"},
   recording : BOOLEAN, stale : BOOLEAN]
  \cup [kind : {"finished"}, command : Commands]
  \cup [kind : {"found"}, keys : SUBSET Keys, conf : BOOLEAN]
  \cup [kind : {"unfound"}]

\* A runtime that is in the window's dictionary is there under its own key.
DeskTypes ==
  /\ rt \in [Ids -> Runtime]
  /\ current \in [Keys -> Ids \cup {0}]
  /\ \A k \in Keys : current[k] # 0 => rt[current[k]].key = k
  /\ retired \in SUBSET Ids
  /\ command \in [Commands -> Command]
  /\ events \in Seq(Signal)
  /\ queued \in [Keys -> Question]
  /\ question \in Question

\* The records the model makes are of their types.
LEMMA RecordTypes ==
  /\ NoRuntime \in Runtime /\ Idle \in Command /\ NoQuestion \in Question
  /\ \A k \in Keys, b \in BOOLEAN :
       NewRuntime(k, b) \in Runtime /\ NewRuntime(k, b).key = k
         /\ NewRuntime(k, b).thread = NoCommand
<1>1. NoRuntime \in Runtime
  BY DEF NoRuntime, Runtime
<1>2. Idle \in Command
  BY DEF Idle, Command, Ids
<1>3. NoQuestion \in Question
  BY DEF NoQuestion, Question, Whats
<1> QED
  BY <1>1, <1>2, <1>3 DEF NewRuntime, NoRuntime, Runtime

\* A runtime is current exactly when some key leads to it.
LEMMA CurrentKey ==
  ASSUME DeskTypes, NEW i \in Ids
  PROVE  /\ IsCurrent(i) <=> \E k \in Keys : current[k] = i
         /\ \A k \in Keys : current[k] = i => rt[i].key = k
BY DEF DeskTypes, IsCurrent, Runtime, Ids

\* What reading the first signal leaves.
LEMMA TailSignals ==
  ASSUME DeskTypes, events # <<>>, events' = Tail(events)
  PROVE  /\ events' \in Seq(Signal) /\ Head(events) = events[1] /\ 1 \in 1 .. Len(events)
         /\ Head(events) \in Signal
         /\ \A i \in 1 .. Len(events') :
              i + 1 \in 1 .. Len(events) /\ i + 1 # 1 /\ events'[i] = events[i + 1]
<1>1. events \in Seq(Signal)
  BY DEF DeskTypes
<1> HIDE DEF Signal
<1> QED
  BY <1>1

\* What a further signal adds.
LEMMA AppendSignals ==
  ASSUME DeskTypes, NEW e \in Signal, events' = Append(events, e)
  PROVE  /\ events' \in Seq(Signal)
         /\ \A i \in 1 .. Len(events') :
              \/ i \in 1 .. Len(events) /\ events'[i] = events[i]
              \/ i = Len(events) + 1 /\ events'[i] = e
<1>1. events \in Seq(Signal)
  BY DEF DeskTypes
<1> HIDE DEF Signal
<1> QED
  BY <1>1

------------------------------------------------------------------------------
(* The order of a command's signals.                                       *)

ReplyAt(i, c) == events[i].kind = "reply" /\ events[i].command = c
FinishedAt(i, c) == events[i].kind = "finished" /\ events[i].command = c

\* A command replies once, after its run, and its thread's end comes last.
SignalsInOrder ==
  \A c \in Commands : \A i, j \in 1 .. Len(events) :
    /\ ReplyAt(i, c) => command[c].at \in {"emitted", "ended"}
    /\ FinishedAt(i, c) => command[c].at = "ended"
    /\ ReplyAt(i, c) /\ ReplyAt(j, c) => i = j
    /\ FinishedAt(i, c) /\ FinishedAt(j, c) => i = j
    /\ ReplyAt(i, c) /\ FinishedAt(j, c) => i < j

\* Once the thread's end is handled, nothing of it is on its way.
LEMMA NothingAfterFinished ==
  ASSUME DeskTypes, SignalsInOrder, Event("finished"), Handled,
         NEW c \in Commands, c = Head(events).command
  PROVE  \A i \in 1 .. Len(events') : ~ReplyAt(i, c)' /\ ~FinishedAt(i, c)'
<1>1. events # <<>> /\ events' = Tail(events) /\ Head(events).kind = "finished"
  BY DEF Event, Handled
<1>2. /\ Head(events) = events[1] /\ 1 \in 1 .. Len(events) /\ Head(events) \in Signal
      /\ \A i \in 1 .. Len(events') :
           i + 1 \in 1 .. Len(events) /\ i + 1 # 1 /\ events'[i] = events[i + 1]
  BY <1>1, TailSignals
<1>3. FinishedAt(1, c)
  BY <1>1, <1>2 DEF FinishedAt
<1> SUFFICES ASSUME NEW i \in 1 .. Len(events')
             PROVE  ~ReplyAt(i, c)' /\ ~FinishedAt(i, c)'
  OBVIOUS
<1>4. i + 1 \in 1 .. Len(events) /\ events'[i] = events[i + 1] /\ i + 1 > 1
  BY <1>2
<1>5. ~ReplyAt(i + 1, c) /\ ~FinishedAt(i + 1, c)
  BY <1>2, <1>3, <1>4 DEF SignalsInOrder
<1> QED
  BY <1>4, <1>5 DEF ReplyAt, FinishedAt

\* Handling a signal keeps the order, when only its own command's state changes,
\* and that only after the command's last signal.
LEMMA HandledInOrder ==
  ASSUME DeskTypes, SignalsInOrder, events # <<>>, Handled,
         \A c \in Commands :
           \/ command'[c].at = command[c].at
           \/ \A i \in 1 .. Len(events') : ~ReplyAt(i, c)' /\ ~FinishedAt(i, c)'
  PROVE  SignalsInOrder'
<1>1. \A i \in 1 .. Len(events') :
        i + 1 \in 1 .. Len(events) /\ events'[i] = events[i + 1]
  BY TailSignals DEF Handled
<1> SUFFICES ASSUME NEW c \in Commands, NEW i \in 1 .. Len(events'), NEW j \in 1 .. Len(events')
             PROVE  /\ ReplyAt(i, c)' => command'[c].at \in {"emitted", "ended"}
                    /\ FinishedAt(i, c)' => command'[c].at = "ended"
                    /\ ReplyAt(i, c)' /\ ReplyAt(j, c)' => i = j
                    /\ FinishedAt(i, c)' /\ FinishedAt(j, c)' => i = j
                    /\ ReplyAt(i, c)' /\ FinishedAt(j, c)' => i < j
  BY DEF SignalsInOrder
<1>2. /\ ReplyAt(i, c)' => ReplyAt(i + 1, c)
      /\ FinishedAt(i, c)' => FinishedAt(i + 1, c)
      /\ ReplyAt(j, c)' => ReplyAt(j + 1, c)
      /\ FinishedAt(j, c)' => FinishedAt(j + 1, c)
  BY <1>1 DEF ReplyAt, FinishedAt
<1>3. i + 1 \in 1 .. Len(events) /\ j + 1 \in 1 .. Len(events) /\ i \in Int /\ j \in Int
  BY <1>1
<1>4. CASE command'[c].at = command[c].at
  BY <1>2, <1>3, <1>4 DEF SignalsInOrder
<1>5. CASE \A n \in 1 .. Len(events') : ~ReplyAt(n, c)' /\ ~FinishedAt(n, c)'
  BY <1>5
<1> QED
  BY <1>4, <1>5

------------------------------------------------------------------------------
(* Threads and probes.                                                     *)

\* The runtimes the window can still reach: to show them, or to wait for them.
Known(i) == IsCurrent(i) \/ i \in retired

\* A running command of a known runtime is the one the runtime refers to, and no
\* runtime with a running command is forgotten, unless a stray answer began it.
ThreadInv ==
  /\ \A c \in Commands : Alive(c) /\ Known(command[c].owner) => rt[command[c].owner].thread = c
  /\ stray \/ \A c \in Commands : Alive(c) => Known(command[c].owner)

\* The probes that hold a slot for sure: those that run, and those whose reply
\* has not been handled.
Probes ==
  {c \in Commands : /\ command[c].purpose = "probe"
                    /\ \/ command[c].at = "run"
                       \/ \E i \in 1 .. Len(events) : ReplyAt(i, c)}

\* The count never falls behind them.  (It may be ahead: a reply nobody handles
\* keeps its slot.)
SlotsInv ==
  /\ IsFiniteSet(Probes) /\ probes \in Nat
  /\ Cardinality(Probes) <= probes /\ probes <= MaxProbes

DeskInv == DeskTypes /\ SignalsInOrder /\ ThreadInv /\ SlotsInv

\* Fewer probes fit into as many slots.
LEMMA FewerProbes ==
  ASSUME SlotsInv, Probes' \subseteq Probes, probes' \in Nat, probes <= probes',
         probes' <= MaxProbes
  PROVE  SlotsInv'
<1>1. IsFiniteSet(Probes') /\ Cardinality(Probes') <= Cardinality(Probes)
  BY FS_Subset DEF SlotsInv
<1>2. Cardinality(Probes) \in Nat /\ Cardinality(Probes') \in Nat
  BY <1>1, FS_CardinalityType DEF SlotsInv
<1> QED
  BY <1>1, <1>2 DEF SlotsInv

\* Nothing on the way of a thread that is free or running.
LEMMA NoSignalsYet ==
  ASSUME SignalsInOrder, NEW c \in Commands, command[c].at \in {"free", "run"}
  PROVE  \A i \in 1 .. Len(events) : ~ReplyAt(i, c) /\ ~FinishedAt(i, c)
BY DEF SignalsInOrder

\* A step that moves no thread and no signal; it may take a slot.
LEMMA NoThreadMoves ==
  ASSUME DeskInv, UNCHANGED <<current, retired, command, events>>,
         rt' \in [Ids -> Runtime],
         \A i \in Ids : rt'[i].key = rt[i].key /\ rt'[i].thread = rt[i].thread,
         queued' \in [Keys -> Question], question' \in Question, stray => stray',
         probes' = probes \/ (SlotLeft /\ probes' = probes + 1)
  PROVE  DeskInv'
<1>1. DeskTypes'
  BY DEF DeskInv, DeskTypes, Ids
<1>2. SignalsInOrder'
  BY DEF DeskInv, SignalsInOrder, ReplyAt, FinishedAt
<1>3. ThreadInv'
  <2>1. \A c \in Commands : command[c].owner \in Ids
    BY DEF DeskInv, DeskTypes, Command
  <2>2. \A i \in Ids : Known(i)' <=> Known(i)
    BY DEF Known, IsCurrent
  <2>3. \A c \in Commands : Alive(c)' <=> Alive(c)
    BY DEF Alive
  <2> QED
    BY <2>1, <2>2, <2>3 DEF DeskInv, ThreadInv
<1>4. SlotsInv'
  <2>1. Probes' = Probes
    BY DEF Probes, ReplyAt
  <2>2. probes' \in Nat /\ probes <= probes' /\ probes' <= MaxProbes
    BY DEF DeskInv, SlotsInv, SlotLeft
  <2> QED
    BY <2>1, <2>2, FewerProbes DEF DeskInv
<1> QED
  BY <1>1, <1>2, <1>3, <1>4 DEF DeskInv

\* A command is launched for a runtime without a running one; a probe with a slot.
LEMMA LaunchMoves ==
  ASSUME DeskInv, NEW i \in Ids, NEW p, NEW c \in Commands, Launch(i, p, c),
         p \in {"other", "probe", "catalog"} \cup Whats,
         ~Alive(rt[i].thread), IsCurrent(i) \/ stray',
         UNCHANGED <<current, retired, events>>,
         \/ rt' = [rt EXCEPT ![i].thread = c]
         \/ rt' = [rt EXCEPT ![i].thread = c, ![i].starting = FALSE],
         queued' \in [Keys -> Question], question' \in Question, stray => stray',
         \/ p # "probe" /\ probes' = probes
         \/ p = "probe" /\ SlotLeft /\ probes' = probes + 1
  PROVE  DeskInv'
<1> DEFINE new == [at |-> "run", owner |-> i, purpose |-> p, cancelled |-> FALSE]
<1>1. command[c].at = "free" /\ command' = [command EXCEPT ![c] = new] /\ new \in Command
  BY DEF Launch, Command
<1>2. /\ rt' \in [Ids -> Runtime]
      /\ \A j \in Ids : rt'[j].key = rt[j].key
      /\ \A j \in Ids : j # i => rt'[j] = rt[j]
      /\ rt'[i].thread = c
  <2>1. rt[i] \in Runtime /\ rt \in [Ids -> Runtime]
    BY DEF DeskInv, DeskTypes
  <2>2. /\ [rt[i] EXCEPT !.thread = c] \in Runtime
        /\ [rt[i] EXCEPT !.thread = c, !.starting = FALSE] \in Runtime
    BY <2>1 DEF Runtime
  <2>3. PICK r \in Runtime : r.key = rt[i].key /\ r.thread = c /\ rt' = [rt EXCEPT ![i] = r]
    <3>1. CASE rt' = [rt EXCEPT ![i].thread = c]
      BY <2>1, <2>2, <3>1 DEF Runtime
    <3>2. CASE rt' = [rt EXCEPT ![i].thread = c, ![i].starting = FALSE]
      <4>1. rt' = [rt EXCEPT ![i] = [rt[i] EXCEPT !.thread = c, !.starting = FALSE]]
        BY <2>1, <3>2
      <4> QED
        BY <2>1, <2>2, <4>1 DEF Runtime
    <3> QED
      BY <3>1, <3>2
  <2> QED
    BY <2>3 DEF DeskInv, DeskTypes
<1> HIDE DEF new
<1>3. DeskTypes'
  BY <1>1, <1>2 DEF DeskInv, DeskTypes, Ids
<1>4. \A n \in 1 .. Len(events) : ~ReplyAt(n, c) /\ ~FinishedAt(n, c)
  BY <1>1, NoSignalsYet DEF DeskInv
<1>5. command'[c] = new /\ \A d \in Commands : d # c => command'[d] = command[d]
  BY <1>1 DEF DeskInv, DeskTypes
<1>6. SignalsInOrder'
  BY <1>4, <1>5 DEF DeskInv, SignalsInOrder, ReplyAt, FinishedAt
<1>7. ThreadInv'
  <2>1. \A d \in Commands : command[d].owner \in Ids
    BY DEF DeskInv, DeskTypes, Command
  <2>2. \A j \in Ids : Known(j)' <=> Known(j)
    BY <1>2 DEF Known, IsCurrent
  <2>3. \A d \in Commands : d # c => (Alive(d)' <=> Alive(d))
    BY <1>5 DEF Alive
  <2>4. \A d \in Commands : Alive(d) /\ command[d].owner = i => ~Known(i)
    BY DEF DeskInv, ThreadInv
  <2>5. command'[c].owner = i
    BY <1>5 DEF new
  <2>6. \A d \in Commands : Alive(d)' /\ Known(command[d].owner)' /\ d # c =>
          rt'[command'[d].owner].thread = d
    BY <1>2, <1>5, <2>1, <2>2, <2>3, <2>4 DEF DeskInv, ThreadInv
  <2>7. stray' \/ \A d \in Commands : Alive(d)' => Known(command[d].owner)'
    <3>1. IsCurrent(i) => Known(i)
      BY DEF Known
    <3> QED
      BY <1>5, <2>1, <2>2, <2>3, <2>5, <3>1 DEF DeskInv, ThreadInv
  <2> QED
    BY <1>2, <1>5, <2>5, <2>6, <2>7 DEF ThreadInv
<1>8. SlotsInv'
  <2>1. c \notin Probes
    BY <1>1, <1>4 DEF Probes
  <2>2. CASE p # "probe" /\ probes' = probes
    <3>1. Probes' \subseteq Probes
      BY <1>5, <2>2 DEF Probes, ReplyAt, new
    <3> QED
      BY <2>2, <3>1, FewerProbes DEF DeskInv, SlotsInv
  <2>3. CASE SlotLeft /\ probes' = probes + 1
    <3>1. Probes' \subseteq Probes \cup {c}
      BY <1>5 DEF Probes, ReplyAt
    <3>2. /\ IsFiniteSet(Probes \cup {c})
          /\ Cardinality(Probes \cup {c}) = Cardinality(Probes) + 1
      BY <2>1, FS_AddElement DEF DeskInv, SlotsInv
    <3>3. IsFiniteSet(Probes') /\ Cardinality(Probes') <= Cardinality(Probes) + 1
      BY <3>1, <3>2, FS_Subset
    <3>4. Cardinality(Probes) \in Nat /\ Cardinality(Probes') \in Nat
      BY <3>3, FS_CardinalityType DEF DeskInv, SlotsInv
    <3> QED
      BY <2>3, <3>3, <3>4 DEF DeskInv, SlotsInv, SlotLeft
  <2> QED
    BY <2>2, <2>3
<1> QED
  BY <1>3, <1>6, <1>7, <1>8 DEF DeskInv

\* A reply is handled: its slot is given back once, or not at all.
LEMMA ReplyMoves ==
  ASSUME DeskInv, Event("reply"), Handled, UNCHANGED <<current, retired, command, queued, question,
                                                       stray>>,
         rt' \in [Ids -> Runtime],
         \A i \in Ids : rt'[i].key = rt[i].key /\ rt'[i].thread = rt[i].thread,
         probes' \in {probes, GiveSlotBack}
  PROVE  DeskInv'
<1> DEFINE c == Head(events).command
<1>1. events # <<>> /\ events' = Tail(events) /\ Head(events).kind = "reply"
  BY DEF Event, Handled
<1>2. /\ events' \in Seq(Signal) /\ Head(events) = events[1] /\ 1 \in 1 .. Len(events)
      /\ Head(events) \in Signal
      /\ \A i \in 1 .. Len(events') :
           i + 1 \in 1 .. Len(events) /\ i + 1 # 1 /\ events'[i] = events[i + 1]
  BY <1>1, TailSignals DEF DeskInv
<1>3. c \in Commands /\ ReplyAt(1, c)
  BY <1>1, <1>2 DEF Signal, ReplyAt
<1>4. DeskTypes'
  BY <1>2 DEF DeskInv, DeskTypes, Ids
<1>5. SignalsInOrder'
  BY <1>1, HandledInOrder DEF DeskInv
<1>6. ThreadInv'
  <2>1. \A d \in Commands : command[d].owner \in Ids
    BY DEF DeskInv, DeskTypes, Command
  <2>2. \A i \in Ids : Known(i)' <=> Known(i)
    BY DEF Known, IsCurrent
  <2>3. \A d \in Commands : Alive(d)' <=> Alive(d)
    BY DEF Alive
  <2> QED
    BY <2>1, <2>2, <2>3 DEF DeskInv, ThreadInv
<1>7. SlotsInv'
  <2>1. Probes' \subseteq Probes \ {c}
    <3> SUFFICES ASSUME NEW d \in Probes' PROVE d \in Probes \ {c}
      OBVIOUS
    <3>1. d \in Commands /\ command[d].purpose = "probe"
      BY DEF Probes
    <3>2. CASE command[d].at = "run"
      BY <1>2, <1>3, <3>1, <3>2 DEF Probes, DeskInv, SignalsInOrder
    <3>3. CASE \E i \in 1 .. Len(events') : ReplyAt(i, d)'
      <4>1. PICK i \in 1 .. Len(events') : ReplyAt(i, d)'
        BY <3>3
      <4>2. i + 1 \in 1 .. Len(events) /\ i + 1 # 1 /\ ReplyAt(i + 1, d)
        BY <1>2, <4>1 DEF ReplyAt
      <4>3. d # c
        BY <1>2, <1>3, <4>2 DEF DeskInv, SignalsInOrder
      <4> QED
        BY <3>1, <4>2, <4>3 DEF Probes
    <3> QED
      BY <3>2, <3>3 DEF Probes
  <2>2. CASE probes' = probes
    BY <2>1, <2>2, FewerProbes DEF DeskInv, SlotsInv
  <2>3. CASE probes' # probes
    <3>1. command[c].purpose = "probe" /\ probes' = probes - 1 /\ probes > 0
      BY <2>3 DEF GiveSlotBack, Purpose
    <3>2. c \in Probes
      BY <1>2, <1>3, <3>1 DEF Probes
    <3>3. /\ IsFiniteSet(Probes \ {c})
          /\ Cardinality(Probes \ {c}) = Cardinality(Probes) - 1
      BY <3>2, FS_RemoveElement DEF DeskInv, SlotsInv
    <3>4. IsFiniteSet(Probes') /\ Cardinality(Probes') <= Cardinality(Probes) - 1
      BY <2>1, <3>3, FS_Subset
    <3>5. Cardinality(Probes) \in Nat /\ Cardinality(Probes') \in Nat
      BY <3>4, FS_CardinalityType DEF DeskInv, SlotsInv
    <3> QED
      BY <3>1, <3>4, <3>5 DEF DeskInv, SlotsInv
  <2> QED
    BY <2>2, <2>3
<1> QED
  BY <1>4, <1>5, <1>6, <1>7 DEF DeskInv

------------------------------------------------------------------------------
(* The steps.                                                              *)

\* What a command's thread does: one stage on, and it says so, a cancelled one only at
\* its end.
Speaks(c, at) ==
  /\ command' = [command EXCEPT ![c].at = at]
  /\ at = "emitted" => command[c].at = "run"
  /\ at = "ended" => command[c].at = "emitted"
  /\ \/ UNCHANGED events /\ at = "emitted"
     \/ \E e \in Signal :
          /\ events' = Append(events, e) /\ e.command = c
          /\ e.kind = IF at = "emitted" THEN "reply" ELSE "finished"

\* Command threads reply and end.
LEMMA ThreadStep ==
  ASSUME DeskInv, NEW c \in Commands, Thread(c)
  PROVE  DeskInv'
<1>1. PICK at \in {"emitted", "ended"} : Speaks(c, at)
  <2>1. CASE Emit(c)
    <3>1. command' = [command EXCEPT ![c].at = "emitted"] /\ command[c].at = "run"
      BY <2>1 DEF Emit
    <3>2. CASE UNCHANGED events
      BY <3>1, <3>2 DEF Speaks
    <3>3. ASSUME NEW outcome \in {"ok", "rejected", "error", "invalid"},
                 NEW on \in BOOLEAN, NEW stale \in BOOLEAN,
                 events' = Append(events, [kind |-> "reply", command |-> c, outcome |-> outcome,
                                           recording |-> on, stale |-> stale])
          PROVE  Speaks(c, "emitted")
      <4> DEFINE e == [kind |-> "reply", command |-> c, outcome |-> outcome,
                       recording |-> on, stale |-> stale]
      <4>1. e \in Signal /\ e.command = c /\ e.kind = "reply" /\ events' = Append(events, e)
        BY <3>3 DEF Signal
      <4> HIDE DEF e
      <4> QED
        BY <3>1, <4>1 DEF Speaks
    <3> QED
      BY <2>1, <3>2, <3>3 DEF Emit
  <2>2. CASE Quit(c)
    BY <2>2 DEF Quit, Signal, Speaks
  <2> QED
    BY <2>1, <2>2 DEF Thread
<1>2. UNCHANGED <<rt, current, retired, probes, queued, question, stray>>
  BY DEF Thread, Emit, Quit, recordVars
<1>3. /\ command' \in [Commands -> Command]
      /\ command'[c].at = at
      /\ \A d \in Commands : d # c => command'[d] = command[d]
      /\ \A d \in Commands : command'[d].owner = command[d].owner
                             /\ command'[d].purpose = command[d].purpose
  <2>1. command[c] \in Command /\ [command[c] EXCEPT !.at = at] \in Command
    BY DEF DeskInv, DeskTypes, Command
  <2> QED
    BY <1>1, <2>1 DEF DeskInv, DeskTypes, Command, Speaks
<1>4. /\ events' \in Seq(Signal)
      /\ Len(events) \in Nat /\ Len(events') \in Nat
      /\ \A i \in 1 .. Len(events') :
           \/ i \in 1 .. Len(events) /\ events'[i] = events[i]
           \/ /\ i = Len(events) + 1 /\ events'[i].command = c
              /\ events'[i].kind = IF at = "emitted" THEN "reply" ELSE "finished"
  <2>0. events \in Seq(Signal)
    BY DEF DeskInv, DeskTypes
  <2>1. CASE UNCHANGED events
    <3> HIDE DEF Signal
    <3> QED
      BY <2>0, <2>1
  <2>2. ASSUME NEW e \in Signal, events' = Append(events, e), e.command = c,
               e.kind = IF at = "emitted" THEN "reply" ELSE "finished"
        PROVE  <1>4!:
    <3>1. events' \in Seq(Signal)
      BY <2>2, AppendSignals DEF DeskInv
    <3>2. Len(events) \in Nat /\ Len(events') \in Nat
      <4> HIDE DEF Signal
      <4> QED
        BY <2>0, <3>1
    <3> QED
      BY <2>2, <3>1, <3>2, AppendSignals DEF DeskInv
  <2> QED
    BY <1>1, <2>1, <2>2 DEF Speaks
<1>5. DeskTypes'
  BY <1>2, <1>3, <1>4 DEF DeskInv, DeskTypes
<1>6. SignalsInOrder'
  <2> SUFFICES ASSUME NEW d \in Commands, NEW i \in 1 .. Len(events'), NEW j \in 1 .. Len(events')
               PROVE  /\ ReplyAt(i, d)' => command'[d].at \in {"emitted", "ended"}
                      /\ FinishedAt(i, d)' => command'[d].at = "ended"
                      /\ ReplyAt(i, d)' /\ ReplyAt(j, d)' => i = j
                      /\ FinishedAt(i, d)' /\ FinishedAt(j, d)' => i = j
                      /\ ReplyAt(i, d)' /\ FinishedAt(j, d)' => i < j
    BY DEF SignalsInOrder
  <2>1. CASE d # c
    BY <1>3, <1>4, <2>1 DEF DeskInv, SignalsInOrder, ReplyAt, FinishedAt
  <2>2. CASE d = c /\ at = "emitted"
    <3>1. \A n \in 1 .. Len(events) : ~ReplyAt(n, c) /\ ~FinishedAt(n, c)
      BY <1>1, <2>2, NoSignalsYet DEF DeskInv, Speaks
    <3> QED
      BY <1>3, <1>4, <2>2, <3>1 DEF ReplyAt, FinishedAt
  <2>3. CASE d = c /\ at = "ended"
    <3>1. \A n \in 1 .. Len(events) : ~FinishedAt(n, c)
      BY <1>1, <2>3 DEF DeskInv, SignalsInOrder, Speaks
    <3> QED
      BY <1>3, <1>4, <2>3, <3>1 DEF DeskInv, SignalsInOrder, ReplyAt, FinishedAt
  <2> QED
    BY <2>1, <2>2, <2>3
<1>7. ThreadInv'
  <2>1. \A d \in Commands : Alive(d)' => Alive(d)
    BY <1>1, <1>3 DEF Alive, Speaks
  <2>2. \A i \in Ids : Known(i)' <=> Known(i)
    BY <1>2 DEF Known, IsCurrent
  <2>3. \A d \in Commands : command[d].owner \in Ids
    BY DEF DeskInv, DeskTypes, Command
  <2> QED
    BY <1>2, <1>3, <2>1, <2>2, <2>3 DEF DeskInv, ThreadInv
<1>8. SlotsInv'
  <2>1. Probes' \subseteq Probes
    <3> SUFFICES ASSUME NEW d \in Probes' PROVE d \in Probes
      OBVIOUS
    <3>1. d \in Commands /\ command[d].purpose = "probe"
      BY <1>3 DEF Probes
    <3>2. CASE command'[d].at = "run"
      BY <1>3, <3>1, <3>2 DEF Probes
    <3>3. CASE \E i \in 1 .. Len(events') : ReplyAt(i, d)'
      <4>1. PICK i \in 1 .. Len(events') : ReplyAt(i, d)'
        BY <3>3
      <4>2. CASE i \in 1 .. Len(events) /\ events'[i] = events[i]
        BY <3>1, <4>1, <4>2 DEF Probes, ReplyAt
      <4>3. CASE d = c /\ at = "emitted"
        BY <1>1, <3>1, <4>3 DEF Probes, Speaks
      <4> QED
        BY <1>4, <4>1, <4>2, <4>3 DEF ReplyAt
    <3> QED
      BY <3>2, <3>3 DEF Probes
  <2> QED
    BY <1>2, <2>1, FewerProbes DEF DeskInv, SlotsInv
<1> QED
  BY <1>5, <1>6, <1>7, <1>8 DEF DeskInv

\* Probes and other commands that the user or a timer starts.
LEMMA UserStep ==
  ASSUME DeskInv, NEW k \in Keys, ProbeTick(k) \/ OtherCommand(k)
  PROVE  DeskInv'
<1>1. /\ current[k] \in Ids /\ IsCurrent(current[k])
      /\ rt \in [Ids -> Runtime] /\ queued \in [Keys -> Question] /\ question \in Question
  BY CurrentKey DEF DeskInv, DeskTypes, ProbeTick, OtherCommand
<1>2. UNCHANGED <<current, retired, events, queued, question, stray>>
  BY DEF ProbeTick, OtherCommand, recordVars
<1>3. CASE ProbeTick(k)
  <2>1. ~Alive(rt[current[k]].thread) /\ SlotLeft /\ probes' = probes + 1
    BY <1>3 DEF ProbeTick, Probe
  <2>2. CASE UNCHANGED <<rt, command>>
    BY <1>1, <1>2, <2>1, <2>2, NoThreadMoves
  <2>3. ASSUME NEW c \in Commands, Launch(current[k], "probe", c),
               rt' = [rt EXCEPT ![current[k]].thread = c]
        PROVE  DeskInv'
    BY <1>1, <1>2, <2>1, <2>3, LaunchMoves
  <2> QED
    BY <1>3, <2>2, <2>3 DEF ProbeTick, Probe
<1>4. CASE OtherCommand(k)
  BY <1>1, <1>2, <1>4, LaunchMoves DEF OtherCommand, MayStart
<1> QED
  BY <1>3, <1>4

\* The answers.
LEMMA ReplyStep ==
  ASSUME DeskInv, ForeignReply \/ OnResult \/ OnInvalid \/ OnError
  PROVE  DeskInv'
<1>1. Event("reply") /\ Handled /\ UNCHANGED <<current, retired, command, queued, question, stray>>
  BY DEF ForeignReply, OnResult, OnInvalid, OnError, recordVars
<1>2. /\ Head(events) \in Signal /\ Head(events).kind = "reply"
      /\ Head(events).command \in Commands /\ Reply.recording \in BOOLEAN
  BY <1>1, TailSignals DEF DeskInv, Event, Handled, Signal, Reply
<1>3. Owner \in Ids
  BY <1>2 DEF Owner, DeskInv, DeskTypes, Command
<1>4. probes' \in {probes, GiveSlotBack}
  BY DEF ForeignReply, OnResult, OnInvalid, OnError
<1>5. /\ rt' \in [Ids -> Runtime]
      /\ \A i \in Ids : rt'[i].key = rt[i].key /\ rt'[i].thread = rt[i].thread
  <2>0. rt \in [Ids -> Runtime] /\ rt[Owner] \in Runtime
    BY <1>3 DEF DeskInv, DeskTypes
  <2>1. ASSUME NEW r \in Runtime, rt' = [rt EXCEPT ![Owner] = r],
               r.key = rt[Owner].key, r.thread = rt[Owner].thread
        PROVE  <1>5!:
    BY <1>3, <2>0, <2>1
  <2>2. CASE ForeignReply
    BY <2>0, <2>2 DEF ForeignReply
  <2>3. CASE OnInvalid
    <3>1. rt' = [rt EXCEPT ![Owner] = [@ EXCEPT !.online = "no", !.invalid = TRUE]]
      BY <2>0, <2>3 DEF OnInvalid
    <3>2. [rt[Owner] EXCEPT !.online = "no", !.invalid = TRUE] \in Runtime
      BY <2>0 DEF Runtime
    <3> QED
      BY <2>0, <2>1, <3>1, <3>2 DEF Runtime
  <2>4. CASE OnError
    <3> DEFINE s == rt[Owner].starting /\ Purpose # "record_start"
    <3>1. s \in BOOLEAN
      OBVIOUS
    <3>2. rt' = [rt EXCEPT ![Owner] = [rt[Owner] EXCEPT !.online = "no", !.starting = s]]
      BY <2>0, <2>4 DEF OnError
    <3> HIDE DEF s
    <3>3. [rt[Owner] EXCEPT !.online = "no", !.starting = s] \in Runtime
      BY <2>0, <3>1 DEF Runtime
    <3> QED
      BY <2>0, <2>1, <3>2, <3>3 DEF Runtime
  <2>5. CASE OnResult
    <3> DEFINE ok == Reply.outcome = "ok"
               s == IF ok /\ Purpose = "record_start" THEN TRUE
                    ELSE rt[Owner].starting /\ ~Reply.recording /\ ~(ok /\ Purpose = "record_stop")
    <3>1. s \in BOOLEAN
      OBVIOUS
    <3>2. rt' = [rt EXCEPT ![Owner] = [rt[Owner] EXCEPT !.online = "yes", !.starting = s]]
      BY <2>0, <2>5 DEF OnResult
    <3> HIDE DEF s
    <3>3. [rt[Owner] EXCEPT !.online = "yes", !.starting = s] \in Runtime
      BY <2>0, <3>1 DEF Runtime
    <3> QED
      BY <2>0, <2>1, <3>2, <3>3 DEF Runtime
  <2> QED
    BY <2>2, <2>3, <2>4, <2>5
<1> QED
  BY <1>1, <1>4, <1>5, ReplyMoves

\* The end of a thread: its last signal, so that the thread may be used again.
LEMMA CleanupStep ==
  ASSUME DeskInv, ThreadCleanup
  PROVE  DeskInv'
<1>1. /\ Event("finished") /\ Handled /\ events # <<>> /\ events' = Tail(events)
      /\ Head(events).kind = "finished"
      /\ UNCHANGED <<current, retired, probes, queued, question, stray>>
  BY DEF ThreadCleanup, Event, Handled, recordVars
<1>2. /\ events' \in Seq(Signal) /\ Head(events) = events[1] /\ 1 \in 1 .. Len(events)
      /\ Head(events) \in Signal
      /\ \A n \in 1 .. Len(events') :
           n + 1 \in 1 .. Len(events) /\ events'[n] = events[n + 1]
  BY <1>1, TailSignals DEF DeskInv
<1>30. PICK c \in Commands : c = Head(events).command
  BY <1>1, <1>2 DEF Signal
<1>31. PICK i \in Ids : i = command[c].owner
  BY DEF DeskInv, DeskTypes, Command
<1>3. command[c].at = "ended"
  <2>1. FinishedAt(1, c)
    BY <1>1, <1>2, <1>30 DEF FinishedAt
  <2> QED
    BY <1>2, <2>1 DEF DeskInv, SignalsInOrder, DeskTypes, Command
<1>4. \A n \in 1 .. Len(events') : ~ReplyAt(n, c)' /\ ~FinishedAt(n, c)'
  BY <1>1, <1>30, NothingAfterFinished DEF DeskInv
<1>5. PICK new \in Command :
        /\ command' = [command EXCEPT ![c] = new]
        /\ new.purpose # "probe"
        /\ \/ new.at = "free"
           \/ new.at = "run" /\ new.owner = i /\ IsCurrent(i) /\ ~Alive(Cleared(i, c)[i].thread)
        /\ \/ rt' = rt /\ new.at = "free"
           \/ rt' = Cleared(i, c) /\ new.at = "free"
           \/ rt' = [Cleared(i, c) EXCEPT ![i].thread = c] /\ new.at = "run"
  <2> DEFINE catalog == [Idle EXCEPT !.at = "run", !.owner = i, !.purpose = "catalog"]
  <2>1. Idle \in Command /\ Idle.at = "free" /\ Idle.purpose # "probe"
    BY RecordTypes DEF Idle
  <2>2. /\ catalog \in Command /\ catalog.at = "run" /\ catalog.owner = i
        /\ catalog.purpose # "probe"
    BY <1>3 DEF Idle, Command
  <2> HIDE DEF catalog
  <2>3. \/ command' = [command EXCEPT ![c] = Idle] /\ (rt' = rt \/ rt' = Cleared(i, c))
        \/ /\ command' = [command EXCEPT ![c] = catalog]
           /\ rt' = [Cleared(i, c) EXCEPT ![i].thread = c]
           /\ IsCurrent(i) /\ ~Alive(Cleared(i, c)[i].thread)
    BY <1>30, <1>31 DEF ThreadCleanup, Owner, catalog
  <2> QED
    BY <2>1, <2>2, <2>3
<1>6. rt[i] \in Runtime /\ rt \in [Ids -> Runtime]
  BY <1>3 DEF DeskInv, DeskTypes
<1>7. PICK r \in Runtime :
        /\ rt' = [rt EXCEPT ![i] = r] /\ r.key = rt[i].key
        /\ new.at = "free" => r.thread = rt[i].thread \/ rt[i].thread = c
        /\ new.at = "run" => r.thread = c
  <2> DEFINE cl == [rt[i] EXCEPT !.thread = IF rt[i].thread = c THEN NoCommand ELSE rt[i].thread]
             re == [rt[i] EXCEPT !.thread = c]
  <2>1. /\ cl \in Runtime /\ cl.key = rt[i].key
        /\ cl.thread = rt[i].thread \/ rt[i].thread = c
        /\ re \in Runtime /\ re.key = rt[i].key /\ re.thread = c
    BY <1>3, <1>6 DEF Runtime
  <2>2. Cleared(i, c) = [rt EXCEPT ![i] = cl]
    BY <1>6 DEF Cleared
  <2>3. [Cleared(i, c) EXCEPT ![i].thread = c] = [rt EXCEPT ![i] = re]
    BY <1>3, <1>6, <2>2 DEF Runtime
  <2>4. rt = [rt EXCEPT ![i] = rt[i]]
    BY <1>6
  <2> HIDE DEF cl, re
  <2> QED
    BY <1>5, <1>6, <2>1, <2>2, <2>3, <2>4
<1>8. /\ command'[c] = new /\ \A d \in Commands : d # c => command'[d] = command[d]
      /\ command' \in [Commands -> Command]
  BY <1>3, <1>5 DEF DeskInv, DeskTypes
<1>9. /\ rt' \in [Ids -> Runtime] /\ rt'[i] = r
      /\ \A j \in Ids : rt'[j].key = rt[j].key
      /\ \A j \in Ids : j # i => rt'[j] = rt[j]
  BY <1>3, <1>6, <1>7
<1>10. DeskTypes'
  BY <1>1, <1>2, <1>8, <1>9 DEF DeskInv, DeskTypes, Ids
<1>11. SignalsInOrder'
  BY <1>1, <1>4, <1>8, HandledInOrder DEF DeskInv
<1>12. ThreadInv'
  <2>1. \A d \in Commands : command[d].owner \in Ids
    BY DEF DeskInv, DeskTypes, Command
  <2>2. \A j \in Ids : Known(j)' <=> Known(j)
    BY <1>1, <1>9 DEF Known, IsCurrent
  <2>3. \A d \in Commands : d # c => (Alive(d)' <=> Alive(d)) /\ command'[d].owner = command[d].owner
    BY <1>8 DEF Alive
  <2>4. ~Alive(c)
    BY <1>3 DEF Alive
  <2>5. CASE new.at = "free"
    <3>1. ~Alive(c)'
      BY <1>8, <2>5 DEF Alive
    <3>2. \A d \in Commands, j \in Ids : Alive(d) /\ rt[j].thread = d => rt'[j].thread = d
      BY <1>7, <1>9, <2>4, <2>5
    <3> QED
      BY <1>1, <2>1, <2>2, <2>3, <3>1, <3>2 DEF DeskInv, ThreadInv
  <2>6. CASE new.at = "run"
    <3>1. new.owner = i /\ IsCurrent(i) /\ rt'[i].thread = c
      BY <1>5, <1>7, <1>9, <2>6
    <3>2. \A d \in Commands : Alive(d) /\ command[d].owner = i => FALSE
      <4>1. Cleared(i, c)[i].thread = IF rt[i].thread = c THEN NoCommand ELSE rt[i].thread
        BY <1>3, <1>6 DEF Cleared, Runtime
      <4>2. ~Alive(rt[i].thread)
        BY <1>5, <2>4, <2>6, <4>1
      <4> QED
        BY <3>1, <4>2 DEF DeskInv, ThreadInv, Known
    <3>3. Known(i)'
      BY <1>3, <2>2, <3>1 DEF Known
    <3>4. \A d \in Commands : d # c /\ Alive(d)' /\ Known(command[d].owner)' =>
            rt'[command[d].owner].thread = d
      BY <1>9, <2>1, <2>2, <2>3, <3>2 DEF DeskInv, ThreadInv
    <3>5. stray \/ \A d \in Commands : d # c /\ Alive(d)' => Known(command[d].owner)'
      BY <2>1, <2>2, <2>3 DEF DeskInv, ThreadInv
    <3> QED
      BY <1>1, <1>8, <2>3, <3>1, <3>3, <3>4, <3>5 DEF ThreadInv
  <2> QED
    BY <1>5, <2>5, <2>6
<1>13. SlotsInv'
  <2>1. Probes' \subseteq Probes
    <3> SUFFICES ASSUME NEW d \in Probes' PROVE d \in Probes
      OBVIOUS
    <3>1. d \in Commands /\ d # c /\ command[d].purpose = "probe"
      BY <1>5, <1>8 DEF Probes
    <3>2. CASE command'[d].at = "run"
      BY <1>8, <3>1, <3>2 DEF Probes
    <3>3. CASE \E n \in 1 .. Len(events') : ReplyAt(n, d)'
      BY <1>2, <3>1, <3>3 DEF Probes, ReplyAt
    <3> QED
      BY <3>2, <3>3 DEF Probes
  <2> QED
    BY <1>1, <2>1, FewerProbes DEF DeskInv, SlotsInv
<1> QED
  BY <1>10, <1>11, <1>12, <1>13 DEF DeskInv

\* The recording button, its queue and its reconciliation.
LEMMA RecordStep ==
  ASSUME DeskInv, Record
  PROVE  DeskInv'
<1>1. /\ rt \in [Ids -> Runtime] /\ queued \in [Keys -> Question] /\ question \in Question
      /\ current \in [Keys -> Ids \cup {0}] /\ NoQuestion \in Question
      /\ \A i \in Ids : rt[i] \in Runtime
  BY RecordTypes DEF DeskInv, DeskTypes
<1>2. CASE RefuseRecord
  BY <1>1, <1>2, NoThreadMoves DEF RefuseRecord, commandVars
<1>3. CASE ConfirmRecord
  <2>1. PICK i \in Ids : i = question.id
    BY <1>1, <1>3 DEF ConfirmRecord, Question
  <2>2. PICK k \in Keys : k = rt[i].key
    BY <1>1 DEF Runtime
  <2>3. /\ question.what \in Whats /\ question' \in Question
        /\ stray => stray'
        /\ IsCurrent(i) \/ stray'
        /\ UNCHANGED <<current, retired, events, probes>>
    BY <1>1, <1>3, <2>1 DEF ConfirmRecord, Question
  <2>4. CASE queued' = [queued EXCEPT ![k] = question] /\ UNCHANGED <<rt, command>>
    BY <1>1, <2>3, <2>4, NoThreadMoves
  <2>5. CASE UNCHANGED <<rt, command, queued>>
    BY <1>1, <2>3, <2>5, NoThreadMoves
  <2>6. ASSUME NEW c \in Commands, Launch(i, question.what, c), ~Alive(rt[i].thread),
               rt' = [rt EXCEPT ![i].thread = c], UNCHANGED queued
        PROVE  DeskInv'
    <3>1. question.what # "probe"
      BY <2>3 DEF Whats
    <3> QED
      BY <1>1, <2>3, <2>6, <3>1, LaunchMoves
  <2>7. \/ queued' = [queued EXCEPT ![k] = question] /\ UNCHANGED <<rt, command>>
        \/ UNCHANGED <<rt, command, queued>>
        \/ /\ \E c \in Commands : /\ Launch(i, question.what, c)
                                 /\ rt' = [rt EXCEPT ![i].thread = c]
           /\ ~Alive(rt[i].thread) /\ UNCHANGED queued
    BY <1>3, <2>1, <2>2 DEF ConfirmRecord, MayStart
  <2> QED
    BY <2>4, <2>5, <2>6, <2>7
<1>4. ASSUME NEW k \in Keys, AskRecord(k) PROVE DeskInv'
  <2>1. question' \in Question
    BY <1>1, <1>4 DEF AskRecord, Question, Whats
  <2> QED
    BY <1>1, <1>4, <2>1, NoThreadMoves DEF AskRecord, commandVars
<1>5. ASSUME NEW k \in Keys, FlushRecord(k) PROVE DeskInv'
  <2>1. PICK i \in Ids : i = queued[k].id
    BY <1>1, <1>5 DEF FlushRecord, Question
  <2>2. /\ queued' \in [Keys -> Question] /\ queued[k].what \in Whats
        /\ UNCHANGED <<current, retired, events, probes, question, stray>>
    BY <1>1, <1>5 DEF FlushRecord, Unqueued, Question
  <2>3. CASE UNCHANGED <<rt, command>>
    BY <1>1, <2>2, <2>3, NoThreadMoves
  <2>4. ASSUME NEW c \in Commands, Launch(i, queued[k].what, c), ~Alive(rt[i].thread),
               ~GivenUp(k), rt' = [rt EXCEPT ![i].thread = c]
        PROVE  DeskInv'
    <3>1. queued[k].what # "probe"
      BY <2>2 DEF Whats
    <3>2. IsCurrent(i)
      BY <2>1, <2>4, CurrentKey DEF GivenUp, DeskInv
    <3> QED
      BY <1>1, <2>2, <2>4, <3>1, <3>2, LaunchMoves
  <2> QED
    BY <1>5, <2>1, <2>3, <2>4 DEF FlushRecord, MayStart
<1>6. ASSUME NEW k \in Keys, Reconcile(k) PROVE DeskInv'
  <2>1. PICK i \in Ids : i = current[k]
    BY <1>1, <1>6 DEF Reconcile
  <2>2. UNCHANGED <<current, retired, events, queued, question, stray>> /\ IsCurrent(i)
    BY <1>6, <2>1, CurrentKey DEF Reconcile, recordVars, DeskInv
  <2>3. CASE rt' = [rt EXCEPT ![i].starting = FALSE] /\ UNCHANGED command
             /\ (probes' = probes \/ (SlotLeft /\ probes' = probes + 1))
    <3>1. [rt[i] EXCEPT !.starting = FALSE] \in Runtime
      BY <1>1 DEF Runtime
    <3>2. rt' = [rt EXCEPT ![i] = [rt[i] EXCEPT !.starting = FALSE]]
      BY <1>1, <2>3
    <3>3. rt' \in [Ids -> Runtime]
      BY <1>1, <3>1, <3>2
    <3>4. \A j \in Ids : rt'[j].key = rt[j].key /\ rt'[j].thread = rt[j].thread
      BY <1>1, <3>2 DEF Runtime
    <3> QED
      BY <1>1, <2>2, <2>3, <3>3, <3>4, NoThreadMoves
  <2>4. ASSUME NEW c \in Commands, Launch(i, "probe", c), ~Alive(rt[i].thread), SlotLeft,
               probes' = probes + 1,
               rt' = [rt EXCEPT ![i].thread = c, ![i].starting = FALSE]
        PROVE  DeskInv'
    BY <1>1, <2>2, <2>4, LaunchMoves
  <2> QED
    BY <1>6, <2>1, <2>3, <2>4 DEF Reconcile
<1> QED
  BY <1>2, <1>3, <1>4, <1>5, <1>6 DEF Record

------------------------------------------------------------------------------
(* Runtimes that go away.                                                  *)

\* A cancelled command goes on; only its reply is left out.
LEMMA Cancelled ==
  ASSUME DeskTypes, NEW ids, command' = CancelAll(ids)
  PROVE  /\ command' \in [Commands -> Command]
         /\ \A c \in Commands : /\ command'[c].at = command[c].at
                                /\ command'[c].owner = command[c].owner
                                /\ command'[c].purpose = command[c].purpose
<1>1. \A c \in Commands : command[c] \in Command
  BY DEF DeskTypes
<1>2. \A c \in Commands : [command[c] EXCEPT !.cancelled = TRUE] \in Command
  BY <1>1 DEF Command
<1>3. \A c \in Commands : command'[c] \in {command[c], [command[c] EXCEPT !.cancelled = TRUE]}
  BY DEF CancelAll
<1>4. command' \in [Commands -> Command]
  BY <1>1, <1>2 DEF CancelAll
<1> QED
  BY <1>1, <1>3, <1>4 DEF Command

\* Runtimes are dropped or regrouped; those whose command runs stay known and keep
\* their reference to it.  Signals, slots and stages are as they were.
LEMMA Regrouped ==
  ASSUME DeskInv, DeskTypes',
         \A c \in Commands : /\ command'[c].at = command[c].at
                             /\ command'[c].owner = command[c].owner
                             /\ command'[c].purpose = command[c].purpose,
         UNCHANGED probes, stray => stray',
         \/ UNCHANGED events
         \/ events # <<>> /\ Handled /\ Head(events).kind \in {"found", "unfound"},
         \A c \in Commands : Alive(c) /\ Known(command[c].owner) =>
           Known(command[c].owner)' /\ rt'[command[c].owner].thread = c,
         \A c \in Commands : Alive(c) /\ Known(command[c].owner)' => Known(command[c].owner)
  PROVE  DeskInv'
<1>1. SignalsInOrder'
  <2>1. CASE UNCHANGED events
    BY <2>1 DEF DeskInv, SignalsInOrder, ReplyAt, FinishedAt
  <2>2. CASE events # <<>> /\ Handled
    BY <2>2, HandledInOrder DEF DeskInv
  <2> QED
    BY <2>1, <2>2
<1>2. ThreadInv'
  <2>1. \A c \in Commands : Alive(c)' <=> Alive(c)
    BY DEF Alive
  <2>2. \A c \in Commands : Alive(c)' /\ Known(command[c].owner)' => rt'[command'[c].owner].thread = c
    BY <2>1 DEF DeskInv, ThreadInv
  <2>3. stray' \/ \A c \in Commands : Alive(c)' => Known(command[c].owner)'
    BY <2>1 DEF DeskInv, ThreadInv
  <2> QED
    BY <2>2, <2>3 DEF ThreadInv
<1>3. SlotsInv'
  <2>1. Probes' \subseteq Probes
    <3> SUFFICES ASSUME NEW d \in Probes' PROVE d \in Probes
      OBVIOUS
    <3>1. d \in Commands /\ command[d].purpose = "probe"
      BY DEF Probes
    <3>2. CASE command'[d].at = "run"
      BY <3>1, <3>2 DEF Probes
    <3>3. CASE \E n \in 1 .. Len(events') : ReplyAt(n, d)'
      <4>1. CASE UNCHANGED events
        BY <3>1, <3>3, <4>1 DEF Probes, ReplyAt
      <4>2. CASE events # <<>> /\ Handled
        <5>1. \A n \in 1 .. Len(events') :
                n + 1 \in 1 .. Len(events) /\ events'[n] = events[n + 1]
          BY <4>2, TailSignals DEF Handled, DeskInv
        <5> QED
          BY <3>1, <3>3, <5>1 DEF Probes, ReplyAt
      <4> QED
        BY <4>1, <4>2
    <3> QED
      BY <3>2, <3>3 DEF Probes
  <2> QED
    BY <2>1, FewerProbes DEF DeskInv, SlotsInv
<1> QED
  BY <1>1, <1>2, <1>3 DEF DeskInv

\* The same for the runtimes that are released: what else they are stays.
LEMMA ReleasedTypes ==
  ASSUME DeskTypes, NEW ids \in SUBSET Ids, rt' = Released(ids)
  PROVE  /\ rt' \in [Ids -> Runtime]
         /\ \A i \in Ids : rt'[i].key = rt[i].key
         /\ \A i \in Ids : Alive(rt[i].thread) => rt'[i] = rt[i]
<1>1. \A i \in Ids : rt[i] \in Runtime
  BY DEF DeskTypes
<1>2. \A i \in Ids : [rt[i] EXCEPT !.thread = NoCommand] \in Runtime
  BY <1>1 DEF Runtime
<1>3. \A i \in Ids : rt'[i] = IF i \in ids /\ Stopped(i)
                              THEN [rt[i] EXCEPT !.thread = NoCommand] ELSE rt[i]
  BY DEF Released
<1>4. rt' \in [Ids -> Runtime]
  BY <1>1, <1>2 DEF Released
<1>5. \A i \in Ids : [rt[i] EXCEPT !.thread = NoCommand].key = rt[i].key
  BY <1>1 DEF Runtime
<1> QED
  BY <1>3, <1>4, <1>5 DEF Stopped

\* Retired runtimes whose threads have ended are dropped.
LEMMA ReapStep ==
  ASSUME DeskInv, Reap
  PROVE  DeskInv'
<1>1. /\ command' = CancelAll(retired) /\ rt' = Released(retired)
      /\ retired' = {i \in retired : Alive(rt[i].thread)}
      /\ UNCHANGED <<current, events, probes, queued, question, stray>>
  BY DEF Reap, recordVars, StillRunning, Stopped
<1>2. DeskTypes /\ retired \in SUBSET Ids
  BY DEF DeskInv, DeskTypes
<1>3. /\ rt' \in [Ids -> Runtime]
      /\ \A i \in Ids : rt'[i].key = rt[i].key
      /\ \A i \in Ids : Alive(rt[i].thread) => rt'[i] = rt[i]
  BY <1>1, <1>2, ReleasedTypes
<1>4. /\ command' \in [Commands -> Command]
      /\ \A c \in Commands : /\ command'[c].at = command[c].at
                             /\ command'[c].owner = command[c].owner
                             /\ command'[c].purpose = command[c].purpose
  BY <1>1, <1>2, Cancelled
<1>5. DeskTypes'
  BY <1>1, <1>2, <1>3, <1>4 DEF DeskTypes, Ids
<1>6. \A i \in Ids : IsCurrent(i)' <=> IsCurrent(i)
  BY <1>1, <1>3 DEF IsCurrent
<1>7. ASSUME NEW c \in Commands, Alive(c)
      PROVE  Known(command[c].owner)' <=> Known(command[c].owner)
  <2>1. PICK o \in Ids : o = command[c].owner /\ o = command'[c].owner
    BY <1>2, <1>4 DEF DeskTypes, Command
  <2>2. Known(o) => Alive(rt[o].thread)
    BY <1>7, <2>1 DEF DeskInv, ThreadInv
  <2>3. Known(o)' <=> Known(o)
    BY <1>1, <1>6, <2>2 DEF Known
  <2> QED
    BY <2>1, <2>3
<1>8. ASSUME NEW c \in Commands, Alive(c), Known(command[c].owner)
      PROVE  rt'[command[c].owner].thread = c
  <2>1. command[c].owner \in Ids
    BY <1>2 DEF DeskTypes, Command
  <2>2. rt[command[c].owner].thread = c
    BY <1>8 DEF DeskInv, ThreadInv
  <2> QED
    BY <1>3, <1>8, <2>1, <2>2
<1> QED
  BY <1>1, <1>4, <1>5, <1>7, <1>8, Regrouped

\* closeEvent, as far as the window stays.
LEMMA CloseStep ==
  ASSUME DeskInv, Close
  PROVE  DeskInv'
<1>1. CASE CloseAsk \/ CloseRefused
  BY <1>1, NoThreadMoves DEF CloseAsk, CloseRefused, commandVars, recordVars, DeskInv, DeskTypes
<1>2. CASE CloseBlocked
  <2> DEFINE ids == retired \cup {current[k] : k \in {l \in Keys : current[l] # 0}}
  <2>1. /\ command' = CancelAll(ids) /\ rt' = Released(ids)
        /\ retired' = {i \in ids : Alive(rt[i].thread)}
        /\ UNCHANGED <<current, events, probes, queued, question, stray>>
    BY <1>2 DEF CloseBlocked, recordVars, StillRunning, Stopped
  <2>2. DeskTypes /\ ids \in SUBSET Ids
    BY DEF DeskInv, DeskTypes
  <2>20. \A i \in Ids : i \in ids <=> Known(i)
    BY <2>2, CurrentKey DEF Known, Ids
  <2> HIDE DEF ids
  <2>3. /\ rt' \in [Ids -> Runtime]
        /\ \A i \in Ids : rt'[i].key = rt[i].key
        /\ \A i \in Ids : Alive(rt[i].thread) => rt'[i] = rt[i]
    BY <2>1, <2>2, ReleasedTypes
  <2>4. /\ command' \in [Commands -> Command]
        /\ \A c \in Commands : /\ command'[c].at = command[c].at
                               /\ command'[c].owner = command[c].owner
                               /\ command'[c].purpose = command[c].purpose
    BY <2>1, <2>2, Cancelled
  <2>5. DeskTypes'
    BY <2>1, <2>2, <2>3, <2>4 DEF DeskTypes, Ids
  <2>6. \A i \in Ids : IsCurrent(i)' <=> IsCurrent(i)
    BY <2>1, <2>3 DEF IsCurrent
  <2>7. ASSUME NEW c \in Commands, Alive(c)
        PROVE  Known(command[c].owner)' <=> Known(command[c].owner)
    <3>1. PICK o \in Ids : o = command[c].owner /\ o = command'[c].owner
      BY <2>2, <2>4 DEF DeskTypes, Command
    <3>2. Known(o) => Alive(rt[o].thread)
      BY <2>7, <3>1 DEF DeskInv, ThreadInv
    <3>3. Known(o)' <=> IsCurrent(o) \/ (Known(o) /\ Alive(rt[o].thread))
      BY <2>1, <2>6, <2>20 DEF Known
    <3>4. Known(o)' <=> Known(o)
      BY <3>2, <3>3 DEF Known
    <3> QED
      BY <3>1, <3>4
  <2>8. ASSUME NEW c \in Commands, Alive(c), Known(command[c].owner)
        PROVE  rt'[command[c].owner].thread = c
    <3>1. command[c].owner \in Ids
      BY <2>2 DEF DeskTypes, Command
    <3>2. rt[command[c].owner].thread = c
      BY <2>8 DEF DeskInv, ThreadInv
    <3> QED
      BY <2>3, <2>8, <3>1, <3>2
  <2> QED
    BY <2>1, <2>4, <2>5, <2>7, <2>8, Regrouped
<1> QED
  BY <1>1, <1>2 DEF Close

------------------------------------------------------------------------------
(* Discovery.                                                              *)

\* What a discovery finds is one more signal.
LEMMA DiscoveredStep ==
  ASSUME DeskInv, Discovered
  PROVE  DeskInv'
<1>1. UNCHANGED <<rt, current, retired, command, probes, queued, question, stray>>
  BY DEF Discovered, recordVars
<1>2. PICK e \in Signal : events' = Append(events, e) /\ e.kind \in {"found", "unfound"}
  <2>1. ASSUME NEW listed \in SUBSET Keys, NEW conf \in BOOLEAN
        PROVE  [kind |-> "found", keys |-> listed, conf |-> conf] \in Signal
    BY DEF Signal
  <2>2. [kind |-> "unfound"] \in Signal
    BY DEF Signal
  <2> HIDE DEF Signal
  <2> QED
    BY <2>1, <2>2 DEF Discovered
<1>3. /\ events' \in Seq(Signal)
      /\ \A i \in 1 .. Len(events') :
           \/ i \in 1 .. Len(events) /\ events'[i] = events[i]
           \/ i = Len(events) + 1 /\ events'[i] = e
  BY <1>2, AppendSignals DEF DeskInv
<1>4. DeskTypes'
  BY <1>1, <1>3 DEF DeskInv, DeskTypes, Ids
<1>5. \A i \in 1 .. Len(events'), c \in Commands :
        /\ ReplyAt(i, c)' => i \in 1 .. Len(events) /\ ReplyAt(i, c)
        /\ FinishedAt(i, c)' => i \in 1 .. Len(events) /\ FinishedAt(i, c)
  BY <1>2, <1>3 DEF ReplyAt, FinishedAt
<1>6. SignalsInOrder'
  BY <1>1, <1>5 DEF DeskInv, SignalsInOrder
<1>7. ThreadInv'
  BY <1>1 DEF DeskInv, ThreadInv, Known, IsCurrent, Alive
<1>8. Probes' \subseteq Probes
  BY <1>1, <1>5 DEF Probes
<1>9. SlotsInv'
  BY <1>1, <1>8, FewerProbes DEF DeskInv, SlotsInv
<1> QED
  BY <1>4, <1>6, <1>7, <1>9 DEF DeskInv

\* What a refresh does to the dictionary and the retired runtimes.
LEMMA RefreshedTypes ==
  ASSUME DeskInv, NEW listed \in SUBSET Keys, NEW conf \in BOOLEAN, Refreshed(listed, conf)
  PROVE  /\ rt' \in [Ids -> Runtime]
         /\ current' \in [Keys -> Ids \cup {0}]
         /\ \A k \in Keys : current'[k] # 0 => rt'[current'[k]].key = k
         /\ retired' \in SUBSET Ids /\ queued' \in [Keys -> Question]
         /\ command' \in [Commands -> Command]
         /\ \A c \in Commands : /\ command'[c].at = command[c].at
                                /\ command'[c].owner = command[c].owner
                                /\ command'[c].purpose = command[c].purpose
         /\ \A c \in Commands : Alive(c) /\ Known(command[c].owner) =>
              Known(command[c].owner)' /\ rt'[command[c].owner].thread = c
         /\ \A c \in Commands : Alive(c) /\ Known(command[c].owner)' => Known(command[c].owner)
<1> DEFINE gone == {k \in Keys : current[k] # 0} \ listed
           lost == {current[k] : k \in gone}
           new == IF FreeIds = {} THEN {} ELSE {k \in listed : current[k] = 0}
           first == CHOOSE k \in new : TRUE
           kept(i) == [rt[i] EXCEPT !.configured = conf, !.invalid = FALSE]
<1>1. /\ rt \in [Ids -> Runtime] /\ current \in [Keys -> Ids \cup {0}]
      /\ \A i \in Ids : rt[i] \in Runtime /\ rt[i].key \in Keys
      /\ retired \in SUBSET Ids
      /\ \A c \in Commands : command[c].owner \in Ids
  BY DEF DeskInv, DeskTypes, Runtime, Command
<1>2. /\ \A k, l \in new : k = l
      /\ queued' = [k \in Keys |-> IF k \in gone THEN NoQuestion ELSE queued[k]]
      /\ command' = CancelAll(lost)
      /\ retired' = retired \cup StillRunning(lost)
      /\ current' = [k \in Keys |-> IF k \in gone THEN 0
                                    ELSE IF k \in new THEN FreeId ELSE current[k]]
      /\ rt' = [i \in Ids |->
                  IF new # {} /\ i = FreeId THEN NewRuntime(first, conf)
                  ELSE IF i \in lost
                       THEN IF Stopped(i) THEN NewRuntime(rt[i].key, FALSE) ELSE Gone(i)
                  ELSE IF i \in FreeIds THEN NoRuntime
                  ELSE IF IsCurrent(i) /\ i \notin lost
                       THEN kept(i) ELSE rt[i]]
  BY DEF Refreshed
<1>3. new # {} => /\ FreeId \in FreeIds /\ FreeId \in Ids /\ first \in new
                  /\ \A k \in new : k = first
  BY <1>2 DEF FreeId, FreeIds
<1>4. /\ new \subseteq Keys /\ gone \subseteq Keys /\ lost \subseteq Ids
      /\ \A k \in gone : current[k] # 0 /\ k \notin new
      /\ \A k \in new : current[k] = 0
  BY <1>1
<1>5. \A i \in Ids : i \in lost <=> IsCurrent(i) /\ rt[i].key \in gone
  BY <1>1, CurrentKey DEF DeskInv, Ids
<1>6. \A i \in FreeIds : ~IsCurrent(i) /\ ~Known(i) /\ i \notin lost
  BY <1>5 DEF FreeIds, Known
<1>7. \A c \in Commands : Alive(c) => command[c].owner \notin FreeIds
  BY DEF Alive, FreeIds
<1> HIDE DEF gone, lost, new, first
<1>8. \A i \in Ids :
        /\ new # {} /\ i = FreeId => rt'[i] = NewRuntime(first, conf)
        /\ i \in lost => rt'[i] = IF Stopped(i) THEN NewRuntime(rt[i].key, FALSE) ELSE Gone(i)
        /\ i \in FreeIds /\ ~(new # {} /\ i = FreeId) => rt'[i] = NoRuntime
        /\ i \notin FreeIds /\ i \notin lost /\ IsCurrent(i) =>
             rt'[i] = kept(i)
        /\ i \notin FreeIds /\ i \notin lost /\ ~IsCurrent(i) => rt'[i] = rt[i]
  BY <1>2, <1>3, <1>6
<1>9. \A i \in Ids : /\ Gone(i) \in Runtime /\ Gone(i).thread = rt[i].thread
                     /\ kept(i) \in Runtime
                     /\ kept(i).key = rt[i].key /\ kept(i).thread = rt[i].thread
  <2> SUFFICES ASSUME NEW i \in Ids
               PROVE  /\ Gone(i) \in Runtime /\ Gone(i).thread = rt[i].thread
                      /\ kept(i) \in Runtime
                      /\ kept(i).key = rt[i].key /\ kept(i).thread = rt[i].thread
    OBVIOUS
  <2>1. NewRuntime(rt[i].key, FALSE) \in Runtime
    BY <1>1, RecordTypes
  <2>2. Gone(i) \in Runtime /\ Gone(i).thread = rt[i].thread
    BY <1>1, <2>1 DEF Gone, Runtime
  <2> QED
    BY <1>1, <2>2 DEF Runtime
<1> HIDE DEF kept
<1>91. new # {} => /\ first \in Keys /\ rt'[FreeId] = NewRuntime(first, conf)
                   /\ rt'[FreeId] \in Runtime /\ rt'[FreeId].key = first
  <2>1. ASSUME new # {} PROVE first \in Keys /\ rt'[FreeId] = NewRuntime(first, conf)
    BY <1>3, <1>4, <1>8, <2>1
  <2> QED
    BY <2>1, RecordTypes
<1>92. \A i \in Ids : i \in retired' <=> i \in retired \/ (i \in lost /\ ~Stopped(i))
  BY <1>2, <1>4 DEF StillRunning
<1>10. rt' \in [Ids -> Runtime]
  <2>1. \A i \in Ids : rt'[i] \in Runtime
    <3> SUFFICES ASSUME NEW i \in Ids PROVE rt'[i] \in Runtime
      OBVIOUS
    <3>1. CASE new # {} /\ i = FreeId
      BY <1>91, <3>1
    <3>2. CASE i \in lost
      BY <1>1, <1>8, <1>9, <3>2, RecordTypes
    <3>3. CASE i \in FreeIds /\ ~(new # {} /\ i = FreeId)
      BY <1>8, <3>3, RecordTypes
    <3>4. CASE i \notin FreeIds /\ i \notin lost
      BY <1>1, <1>8, <1>9, <3>4
    <3> QED
      BY <1>3, <3>1, <3>2, <3>3, <3>4
  <2>2. rt' = [i \in Ids |-> rt'[i]]
    BY <1>2
  <2> QED
    BY <2>1, <2>2
<1>11. current' \in [Keys -> Ids \cup {0}]
  BY <1>1, <1>2, <1>3
<1>12. \A k \in Keys : current'[k] = IF k \in gone THEN 0
                                     ELSE IF k \in new THEN FreeId ELSE current[k]
  BY <1>2
<1>13. ASSUME NEW k \in Keys, current'[k] # 0
       PROVE  rt'[current'[k]].key = k
  <2>1. CASE k \in new
    BY <1>3, <1>4, <1>91, <1>12, <2>1
  <2>2. CASE k \notin new
    <3>1. current'[k] = current[k] /\ k \notin gone
      BY <1>12, <1>13, <2>2
    <3>2. PICK i \in Ids : i = current[k] /\ IsCurrent(i) /\ rt[i].key = k
      BY <1>1, <1>13, <3>1, CurrentKey DEF DeskInv
    <3>3. i \notin lost /\ i \notin FreeIds
      BY <1>5, <1>6, <3>1, <3>2
    <3>4. rt'[i] = kept(i)
      BY <1>8, <3>2, <3>3
    <3> QED
      BY <1>9, <3>1, <3>2, <3>4
  <2> QED
    BY <2>1, <2>2
<1>14. retired' \in SUBSET Ids /\ queued' \in [Keys -> Question]
  <2>1. \A k \in Keys : queued[k] \in Question
    BY DEF DeskInv, DeskTypes
  <2> QED
    BY <1>1, <1>2, <1>4, <2>1, RecordTypes DEF StillRunning
<1>15. /\ command' \in [Commands -> Command]
       /\ \A c \in Commands : /\ command'[c].at = command[c].at
                              /\ command'[c].owner = command[c].owner
                              /\ command'[c].purpose = command[c].purpose
  BY <1>2, Cancelled DEF DeskInv
<1>16. \A i \in Ids : IsCurrent(i)' <=> \E k \in Keys : current'[k] = i
  BY <1>10, <1>11, <1>13 DEF IsCurrent, Runtime, Ids
<1>17. ASSUME NEW c \in Commands, Alive(c), Known(command[c].owner)
       PROVE  Known(command[c].owner)' /\ rt'[command[c].owner].thread = c
  <2>1. PICK o \in Ids : o = command[c].owner /\ o = command'[c].owner
    BY <1>1, <1>15
  <2>2. o \notin FreeIds /\ rt[o].thread = c /\ ~Stopped(o) /\ Known(o)
    BY <1>7, <1>17, <2>1 DEF DeskInv, ThreadInv, Stopped
  <2>3. rt'[o].thread = c
    BY <1>8, <1>9, <2>2
  <2>4. Known(o)'
    <3>1. CASE o \in retired
      BY <1>92, <3>1 DEF Known
    <3>2. CASE o \in lost
      BY <1>92, <2>2, <3>2 DEF Known
    <3>3. CASE IsCurrent(o) /\ o \notin lost
      <4>1. PICK k \in Keys : current[k] = o /\ rt[o].key = k
        BY <3>3, CurrentKey DEF DeskInv
      <4>2. k \notin gone /\ k \notin new
        BY <1>4, <1>5, <3>3, <4>1 DEF Ids
      <4>3. current'[k] = o
        BY <1>12, <4>1, <4>2
      <4> QED
        BY <1>16, <4>3 DEF Known
    <3> QED
      BY <2>2, <3>1, <3>2, <3>3 DEF Known
  <2> QED
    BY <2>1, <2>3, <2>4
<1>18. ASSUME NEW c \in Commands, Alive(c), Known(command[c].owner)'
       PROVE  Known(command[c].owner)
  <2>1. PICK o \in Ids : o = command[c].owner /\ o = command'[c].owner
    BY <1>1, <1>15
  <2>2. o \notin FreeIds
    BY <1>7, <1>18, <2>1
  <2>3. ASSUME o \in retired' PROVE Known(o)
    BY <1>5, <1>92, <2>3 DEF Known
  <2>4. ASSUME IsCurrent(o)' PROVE Known(o)
    <3>1. PICK k \in Keys : current'[k] = o
      BY <1>16, <2>4
    <3>2. k \notin new
      BY <1>3, <1>4, <1>12, <2>2, <3>1
    <3>3. current[k] = o
      BY <1>12, <3>1, <3>2 DEF Ids
    <3> QED
      BY <3>3, CurrentKey DEF Known, DeskInv
  <2>5. Known(o)' => Known(o)
    BY <2>3, <2>4 DEF Known
  <2> QED
    BY <1>18, <2>1, <2>5
<1> QED
  BY <1>10, <1>11, <1>13, <1>14, <1>15, <1>17, <1>18

\* Handling what a discovery told: the dictionary follows it, or nothing changes.
LEMMA SearchingStep ==
  ASSUME DeskInv, Searching
  PROVE  DeskInv'
<1>1. CASE Discovered
  BY <1>1, DiscoveredStep
<1>2. CASE ProvisionDone
  BY <1>2, NoThreadMoves DEF ProvisionDone, commandVars, recordVars, DeskInv, DeskTypes
<1>3. CASE OnUndiscovered \/ OnDiscovered
  <2>1. /\ events # <<>> /\ Handled /\ Head(events).kind \in {"found", "unfound"}
        /\ events' = Tail(events) /\ UNCHANGED <<probes, question, stray>>
    BY <1>3 DEF OnUndiscovered, OnDiscovered, Event, Handled, recordVars
  <2>2. events' \in Seq(Signal) /\ Head(events) \in Signal
    BY <2>1, TailSignals DEF DeskInv
  <2>3. CASE UNCHANGED <<rt, current, retired, command, queued>>
    <3>1. DeskTypes'
      BY <2>1, <2>2, <2>3 DEF DeskInv, DeskTypes, Ids
    <3>2. \A i : Known(i)' <=> Known(i)
      BY <2>3 DEF Known, IsCurrent
    <3>3. \A c \in Commands : Alive(c) /\ Known(command[c].owner) =>
            Known(command[c].owner)' /\ rt'[command[c].owner].thread = c
      BY <2>3, <3>2 DEF DeskInv, ThreadInv
    <3>4. \A c \in Commands : Alive(c) /\ Known(command[c].owner)' => Known(command[c].owner)
      BY <2>3, <3>2
    <3> QED
      BY <2>1, <2>3, <3>1, <3>3, <3>4, Regrouped
  <2>4. ASSUME OnDiscovered, ~closing PROVE DeskInv'
    <3>1. PICK listed \in SUBSET Keys, conf \in BOOLEAN : Refreshed(listed, conf)
      <4>1. Head(events).keys \in SUBSET Keys /\ Head(events).conf \in BOOLEAN
        BY <2>2, <2>4 DEF OnDiscovered, Event, Signal
      <4> QED
        BY <2>4, <4>1 DEF OnDiscovered
    <3> DEFINE same == \A c \in Commands : /\ command'[c].at = command[c].at
                                           /\ command'[c].owner = command[c].owner
                                           /\ command'[c].purpose = command[c].purpose
               kept == \A c \in Commands : Alive(c) /\ Known(command[c].owner) =>
                         Known(command[c].owner)' /\ rt'[command[c].owner].thread = c
               back == \A c \in Commands : Alive(c) /\ Known(command[c].owner)' =>
                         Known(command[c].owner)
    <3>2. /\ rt' \in [Ids -> Runtime]
          /\ current' \in [Keys -> Ids \cup {0}]
          /\ \A k \in Keys : current'[k] # 0 => rt'[current'[k]].key = k
          /\ retired' \in SUBSET Ids /\ queued' \in [Keys -> Question]
          /\ command' \in [Commands -> Command] /\ same /\ kept /\ back
      BY <3>1, RefreshedTypes
    <3>3. DeskTypes'
      <4> HIDE DEF same, kept, back
      <4> QED
        BY <2>1, <2>2, <3>2 DEF DeskInv, DeskTypes, Ids
    <3> QED
      BY <2>1, <3>2, <3>3, Regrouped
  <2> QED
    BY <1>3, <2>3, <2>4 DEF OnUndiscovered, OnDiscovered, recordVars
<1> QED
  BY <1>1, <1>2, <1>3 DEF Searching

\* A discovery is started, or a link is configured.
LEMMA DiscoveryStep ==
  ASSUME DeskInv, Discovery
  PROVE  DeskInv'
<1>1. /\ rt \in [Ids -> Runtime] /\ queued \in [Keys -> Question] /\ question \in Question
      /\ \A i \in Ids : rt[i] \in Runtime
  BY DEF DeskInv, DeskTypes
<1>2. CASE Discover(TRUE) \/ Discover(FALSE)
  <2>1. UNCHANGED <<rt, current, retired, command, events, probes, queued, question, stray>>
    BY <1>2 DEF Discover, commandVars, recordVars
  <2> QED
    BY <1>1, <2>1, NoThreadMoves
<1>3. ASSUME NEW k \in Keys, Provisioned(k) PROVE DeskInv'
  <2>1. PICK i \in Ids : i = current[k]
    BY <1>3 DEF Provisioned, DeskInv, DeskTypes
  <2>2. PICK success \in BOOLEAN :
          rt' = [rt EXCEPT ![i].configured = success, ![i].online = "unknown"]
    BY <1>3, <2>1 DEF Provisioned
  <2>3. rt' = [rt EXCEPT ![i] = [rt[i] EXCEPT !.configured = success, !.online = "unknown"]]
    BY <1>1, <2>2
  <2>4. [rt[i] EXCEPT !.configured = success, !.online = "unknown"] \in Runtime
    BY <1>1 DEF Runtime
  <2>5. rt' \in [Ids -> Runtime]
    BY <1>1, <2>3, <2>4
  <2>6. \A j \in Ids : rt'[j].key = rt[j].key /\ rt'[j].thread = rt[j].thread
    BY <1>1, <2>3 DEF Runtime
  <2>7. UNCHANGED <<current, retired, command, events, probes, queued, question, stray>>
    BY <1>3 DEF Provisioned, commandVars, recordVars
  <2> QED
    BY <1>1, <2>5, <2>6, <2>7, NoThreadMoves
<1> QED
  BY <1>2, <1>3 DEF Discovery

------------------------------------------------------------------------------
(* The invariant and what it says.                                         *)

LEMMA DeskStarts ==
  ASSUME DeskInit
  PROVE  DeskInv
<1>1. /\ current \in [Keys -> Ids \cup {0}] /\ retired = {} /\ events = <<>>
      /\ command = [c \in Commands |-> Idle] /\ queued = [k \in Keys |-> NoQuestion]
      /\ question = NoQuestion /\ probes = 0
  BY DEF DeskInit
<1>2. /\ rt \in [Ids -> Runtime]
      /\ \A k \in Keys : current[k] # 0 => rt[current[k]].key = k
  <2> DEFINE key(i) == CHOOSE k \in Keys : current[k] = i
             led(i) == \E k \in Keys : current[k] = i
  <2>1. rt = [i \in Ids |-> IF led(i) THEN NewRuntime(key(i), TRUE) ELSE NoRuntime]
    BY DEF DeskInit
  <2>2. \A i \in Ids : led(i) => key(i) \in Keys /\ current[key(i)] = i
    OBVIOUS
  <2>3. \A k \in Keys : current[k] # 0 => current[k] \in Ids /\ led(current[k])
    BY <1>1
  <2>4. \A k, l \in Keys : k # l => current[k] = 0 \/ current[k] # current[l]
    BY DEF DeskInit
  <2>5. \A i \in Ids : i # 0
    BY DEF Ids
  <2> HIDE DEF key, led
  <2>6. \A i \in Ids : led(i) => NewRuntime(key(i), TRUE) \in Runtime
                                 /\ NewRuntime(key(i), TRUE).key = key(i)
    BY <2>2, RecordTypes
  <2>7. rt \in [Ids -> Runtime]
    BY <2>1, <2>6, RecordTypes
  <2>8. ASSUME NEW k \in Keys, current[k] # 0 PROVE rt[current[k]].key = k
    <3>1. rt[current[k]] = NewRuntime(key(current[k]), TRUE)
      BY <2>1, <2>3, <2>8
    <3>2. key(current[k]) = k
      BY <2>2, <2>3, <2>4, <2>8
    <3> QED
      BY <2>3, <2>6, <2>8, <3>1, <3>2
  <2> QED
    BY <2>7, <2>8
<1>3. DeskTypes
  <2>1. events \in Seq(Signal)
    <3> HIDE DEF Signal
    <3> QED
      BY <1>1
  <2> QED
    BY <1>1, <1>2, <2>1, RecordTypes DEF DeskTypes, Ids
<1>4. \A c \in Commands : command[c].at = "free" /\ command[c].purpose = "other"
  BY <1>1 DEF Idle
<1>5. Len(events) = 0
  BY <1>1
<1>6. SignalsInOrder
  BY <1>5 DEF SignalsInOrder
<1>7. ThreadInv
  BY <1>4 DEF ThreadInv, Alive
<1>8. SlotsInv
  <2>1. Probes = {}
    BY <1>4 DEF Probes
  <2> QED
    BY <1>1, <2>1, FS_EmptySet DEF SlotsInv
<1> QED
  BY <1>3, <1>6, <1>7, <1>8 DEF DeskInv

LEMMA DeskGoesOn ==
  ASSUME DeskInv, [DeskNext]_deskVars
  PROVE  DeskInv'
<1>1. CASE User
  BY <1>1, UserStep DEF User
<1>2. CASE Discovery
  BY <1>2, DiscoveryStep
<1>3. CASE Searching
  BY <1>3, SearchingStep
<1>4. CASE Handle
  BY <1>4, ReplyStep, CleanupStep DEF Handle
<1>5. CASE Record
  BY <1>5, RecordStep
<1>6. CASE Reap
  BY <1>6, ReapStep
<1>7. CASE Close
  BY <1>7, CloseStep
<1>8. ASSUME NEW c \in Commands, Thread(c) PROVE DeskInv'
  BY <1>8, ThreadStep
<1>9. CASE UNCHANGED deskVars
  BY <1>9, NoThreadMoves
     DEF deskVars, commandVars, recordVars, searchVars, DeskInv, DeskTypes
<1> QED
  BY <1>1, <1>2, <1>3, <1>4, <1>5, <1>6, <1>7, <1>8, <1>9 DEF DeskNext

LEMMA DeskAlways == DeskSpec => []DeskInv
<1>1. DeskInit => DeskInv
  BY DeskStarts
<1>2. DeskInv /\ [DeskNext]_deskVars => DeskInv'
  BY DeskGoesOn
<1> QED
  BY <1>1, <1>2, PTL DEF DeskSpec

\* However links come and go while probes are under way, no more of them run than there
\* are slots: a slot is taken before its probe's thread starts and given back at most
\* once, for a reply that is still the probe's (_probe_runtime, _on_command_result).
THEOREM SlotsBoundProbes == DeskSpec => []ProbesBounded
<1>1. DeskInv => ProbesBounded
  <2> SUFFICES ASSUME DeskInv PROVE ProbesBounded
    OBVIOUS
  <2> DEFINE running == {c \in Probing : command[c].at = "run"}
  <2>1. running \subseteq Probes
    BY DEF Probing, Probes
  <2>2. IsFiniteSet(running) /\ Cardinality(running) <= Cardinality(Probes)
    BY <2>1, FS_Subset DEF DeskInv, SlotsInv
  <2>3. Cardinality(running) \in Nat /\ Cardinality(Probes) \in Nat
    BY <2>2, FS_CardinalityType DEF DeskInv, SlotsInv
  <2> QED
    BY <2>2, <2>3 DEF DeskInv, SlotsInv, ProbesBounded
<1> QED
  BY <1>1, DeskAlways, PTL

\* A device never has two command threads: whichever signals of earlier threads are
\* still on their way, the running one is the one the runtime refers to
\* (_start_command, _thread_cleanup, refresh_devices).
THEOREM RunningIsReferredTo == DeskSpec => []OneCommandPerDevice
<1>1. DeskInv => OneCommandPerDevice
  BY DEF DeskInv, ThreadInv, Known, OneCommandPerDevice
<1> QED
  BY <1>1, DeskAlways, PTL

\* No running command thread is forgotten when its link goes away or the window is
\* asked to close, so that the window can wait for it; the one way out is a recording
\* dialog answered for a runtime that had gone (_retired_runtimes, closeEvent).
THEOREM NoThreadForgotten == DeskSpec => []ThreadsKnown
<1>1. DeskInv => ThreadsKnown
  <2> SUFFICES ASSUME DeskInv, ~stray, NEW c \in Commands, Alive(c)
               PROVE  command[c].owner \in retired \cup {current[k] : k \in Keys}
    BY DEF ThreadsKnown
  <2>1. command[c].owner \in Ids /\ Known(command[c].owner)
    BY DEF DeskInv, DeskTypes, Command, ThreadInv
  <2> QED
    BY <2>1, CurrentKey DEF Known, DeskInv
<1> QED
  BY <1>1, DeskAlways, PTL
==============================================================================
