------------------------------ MODULE DeviceLinks ------------------------------
(***************************************************************************)
(* The USB links of testagent/device.py: the file of link addresses        *)
(* (rndis_link_addresses.json), discovery, the user's notes,               *)
(* configure_device, and request_device with its cancellation.             *)
(*                                                                         *)
(* A link is known by the id of its PC adapter; behind it is one device,   *)
(* which answers at one address.  device_ip_for_pc is the CONSTANT         *)
(* function DeviceIp, and NoPc stands for every PC address it rejects or   *)
(* that is outside the USB network.  An adapter that is not there has the  *)
(* address Unplugged.  A request is one step once its caller has the       *)
(* request lock: its outcome may always be an error, and it can be a       *)
(* success only if the link's source address and the device's address      *)
(* are the ones it uses.                                                   *)
(***************************************************************************)
EXTENDS Naturals, FiniteSets

CONSTANTS
  Adapters,     \* adapter ids; a link is its adapter's
  PcIps,        \* PC addresses a device address can be derived from
  DeviceIps,    \* device addresses
  DeviceIp,     \* device_ip_for_pc, a function on PcIps
  DefaultIp,    \* DEFAULT_DEVICE_IP, where a device without an address answers
  NoPc, Unplugged,
  Notes, NoNote,
  Configurers,  \* threads that call configure_device
  Callers,      \* threads that call request_device, each for one command
  Free,         \* the owner of a lock nobody holds
  MaxChanges    \* bound on changes by the user and the devices, for TLC only

ASSUME DeviceLinksAssumption ==
  /\ DeviceIp \in [PcIps -> DeviceIps]
  /\ \A p, q \in PcIps : DeviceIp[p] = DeviceIp[q] => p = q
  /\ DefaultIp \in DeviceIps /\ \A p \in PcIps : DeviceIp[p] # DefaultIp
  /\ NoPc \notin PcIps /\ Unplugged \notin PcIps /\ NoPc # Unplugged
  /\ NoNote \notin Notes
  /\ Configurers \cap Callers = {} /\ Free \notin Configurers \cup Callers \cup Adapters
  /\ MaxChanges \in Nat

VARIABLES
  pcAddr,       \* the address each adapter has
  devAddr,      \* the address the device behind each adapter answers at
  file,         \* the link file
  scan,         \* the discovery in progress: what _assign_link_addresses holds
  shown,        \* the links the last discovery returned
  linkLock,     \* owners of _link_operation_locks
  requestLock,  \* owner of _request_lock
  at,           \* where each thread is in its call
  link,         \* the link it was called with
  copy,         \* state: the link file as configure_device read it
  tried,        \* the known_ips configure_device has probed
  found,        \* the address at which the device answered it
  asking,       \* whether a caller's request is the probe or the command
  cancelled,    \* cancel_event of a caller
  sent,         \* history: how often the device got the caller's command
  answer,       \* what the caller got
  changes,      \* counts what the user and the devices did
  verified,     \* history: the pairs of addresses configure_device has verified
  disturbed,    \* history: the device moved by itself after the verification
  warned        \* history: the caller was cancelled before it held both locks

worldVars == <<pcAddr, devAddr, changes>>
fileVars == <<file, scan, shown>>
callVars == <<asking, cancelled, sent, answer, warned>>
configureVars == <<copy, tried, found, verified, disturbed>>
linksVars == <<worldVars, fileVars, linkLock, requestLock, at, link, callVars, configureVars>>

Threads == Configurers \cup Callers

-----------------------------------------------------------------------------
(* The link file.  An entry without addresses holds a note only.           *)

NoEntry == [pc |-> NoPc, dev |-> DefaultIp, conf |-> FALSE, note |-> NoNote]
NewEntry(p, conf) == [pc |-> p, dev |-> DeviceIp[p], conf |-> conf, note |-> NoNote]

\* _saved_link_addresses(value) is not None and its first is p.
SavedFor(f, a, p) == f[a].pc = p /\ p \in PcIps

NoLink == [pc |-> Unplugged, dev |-> DefaultIp, conf |-> FALSE, ambiguous |-> FALSE,
           previous |-> DefaultIp]
UnmappedLink == [NoLink EXCEPT !.pc = NoPc]
\* previous = dev stands for a link without previous_device_ip.
MappedLink(p, conf, ambiguous, prior) ==
  [pc |-> p, dev |-> DeviceIp[p], conf |-> conf, ambiguous |-> ambiguous, previous |-> prior]

NoScan == [on |-> FALSE, todo |-> {}, seen |-> [a \in Adapters |-> Unplugged],
           file |-> [a \in Adapters |-> NoEntry], claimed |-> {},
           links |-> [a \in Adapters |-> NoLink]]
-----------------------------------------------------------------------------
(* auto_discover_devices with _assign_link_addresses, one link at a time.  *)
(* It holds _link_state_lock from the query to the save (scan.on);         *)
(* everybody else holds it for a single step.                              *)

\* The RNDIS adapters the system lists.
Observed == {a \in Adapters : pcAddr[a] # Unplugged}

DiscoverBegin ==
  /\ ~scan.on
  /\ scan' = [NoScan EXCEPT !.on = TRUE, !.seen = pcAddr, !.file = file,
                            !.todo = Observed]
  /\ UNCHANGED <<worldVars, file, shown, linkLock, requestLock, at, link, callVars,
                 configureVars>>

\* The saved entries another id may take over because they have the same PC address.
Migratable(a, p) == {b \in Adapters \ (scan.claimed \cup {a}) : SavedFor(scan.file, b, p)}

\* Mutant: only links the file knew are compared.
CollidesWithKnown(p) == \E b \in scan.claimed : scan.links[b].pc = p

\* seen_pc_ips and seen_device_ips: another link of this discovery has these addresses.
Collides(p) == \E b \in Adapters : scan.links[b].pc = p

\* link and entry of a for the address p, with nothing known of it.
AssignNew(a, p) ==
  scan' = [scan EXCEPT !.todo = @ \ {a},
                       !.file[a] = NewEntry(p, FALSE),
                       !.links[a] = MappedLink(p, FALSE, Collides(p), DeviceIp[p])]

\* Mutant: whether the saved device address is the one of today is not compared.
AssignTrusting(a, p, from) ==
  LET prior == scan.file[from]
      conf == prior.conf /\ ~Collides(p)
  IN scan' = [scan EXCEPT !.todo = @ \ {a},
                          !.claimed = @ \cup {a},
                          !.file = [b \in Adapters |-> IF b = a THEN NewEntry(p, conf)
                                                       ELSE IF b = from THEN NoEntry
                                                       ELSE scan.file[b]],
                          !.links[a] = MappedLink(p, conf, Collides(p), prior.dev)]

\* The same when the entry of `from` has p: a's own entry, or one that moves to a.
AssignKnown(a, p, from) ==
  LET prior == scan.file[from]
      conf == prior.conf /\ prior.dev = DeviceIp[p] /\ ~Collides(p)
  IN scan' = [scan EXCEPT !.todo = @ \ {a},
                          !.claimed = @ \cup {a},
                          !.file = [b \in Adapters |-> IF b = a THEN NewEntry(p, conf)
                                                       ELSE IF b = from THEN NoEntry
                                                       ELSE scan.file[b]],
                          !.links[a] = MappedLink(p, conf, Collides(p), prior.dev)]

DiscoverLink(a) ==
  LET p == scan.seen[a] IN
  /\ scan.on /\ a \in scan.todo
  /\ \/ /\ p \notin PcIps
        /\ scan' = [scan EXCEPT !.todo = @ \ {a}, !.links[a] = UnmappedLink]
     \/ /\ p \in PcIps /\ SavedFor(scan.file, a, p)
        /\ AssignKnown(a, p, a)
     \/ /\ p \in PcIps /\ ~SavedFor(scan.file, a, p) /\ Migratable(a, p) = {}
        /\ AssignNew(a, p)
     \/ /\ p \in PcIps /\ ~SavedFor(scan.file, a, p)
        /\ \E b \in Migratable(a, p) : AssignKnown(a, p, b)
  /\ UNCHANGED <<worldVars, file, shown, linkLock, requestLock, at, link, callVars,
                 configureVars>>

\* The file is replaced in one rename; the caller gets the links.
DiscoverEnd ==
  /\ scan.on /\ scan.todo = {}
  /\ file' = scan.file /\ shown' = scan.links /\ scan' = NoScan
  /\ UNCHANGED <<worldVars, linkLock, requestLock, at, link, callVars, configureVars>>

\* _on_table_cell_changed and set_device_note.
SetNote(a, n) ==
  /\ ~scan.on /\ changes < MaxChanges
  /\ shown[a] # NoLink /\ file[a].note # n
  /\ file' = [file EXCEPT ![a].note = n]
  /\ changes' = changes + 1
  /\ UNCHANGED <<pcAddr, devAddr, scan, shown, linkLock, requestLock, at, link, callVars,
                 configureVars>>

-----------------------------------------------------------------------------
(* Requests.  link[w] is the link of the call, with its adapter.           *)

Adapter(w) == link[w].adapter
Target(w) == DeviceIp[link[w].pc]

NoCall == [adapter |-> Free, pc |-> NoPc, dev |-> DefaultIp, previous |-> DefaultIp]

\* A request of w to the address ip can be answered.
Reachable(w, ip) == pcAddr[Adapter(w)] = link[w].pc /\ devAddr[Adapter(w)] = ip

\* Mutant: without _link_operation_lock.
LockIgnored(w) == at[w] = at[w]
LockFree(w) == linkLock[Adapter(w)] = Free
TakeLink(w) == linkLock' = [linkLock EXCEPT ![Adapter(w)] = w]
LetLinkGo(w) == linkLock' = [linkLock EXCEPT ![Adapter(w)] = Free]
Goto(w, step) == at' = [at EXCEPT ![w] = step]

-----------------------------------------------------------------------------
(* The user and the devices.                                               *)

SetPcAddress(a, p) ==
  /\ changes < MaxChanges /\ changes' = changes + 1
  /\ pcAddr[a] # Unplugged /\ pcAddr[a] # p
  /\ pcAddr' = [pcAddr EXCEPT ![a] = p]
  /\ UNCHANGED <<devAddr, fileVars, linkLock, requestLock, at, link, callVars, configureVars>>

\* Another adapter id for the same device: the device moves along with it.
Replug(a, b) ==
  /\ changes < MaxChanges /\ changes' = changes + 1
  /\ pcAddr[a] # Unplugged /\ pcAddr[b] = Unplugged
  /\ pcAddr' = [pcAddr EXCEPT ![a] = Unplugged, ![b] = pcAddr[a]]
  /\ devAddr' = [devAddr EXCEPT ![a] = devAddr[b], ![b] = devAddr[a]]
  /\ disturbed' = [w \in Configurers |-> disturbed[w] \/ (at[w] = "save" /\ Adapter(w) \in {a, b})]
  /\ UNCHANGED <<fileVars, linkLock, requestLock, at, link, callVars, copy, tried, found,
                 verified>>

\* A device that starts without its saved address.
ForgetAddress(a) ==
  /\ changes < MaxChanges /\ changes' = changes + 1
  /\ devAddr[a] # DefaultIp
  /\ devAddr' = [devAddr EXCEPT ![a] = DefaultIp]
  /\ disturbed' = [w \in Configurers |-> disturbed[w] \/ (at[w] = "save" /\ Adapter(w) = a)]
  /\ UNCHANGED <<pcAddr, fileVars, linkLock, requestLock, at, link, callVars, copy, tried, found,
                 verified>>

-----------------------------------------------------------------------------
(* configure_device.  at: idle, lock, probe, set, verify, save.      *)

ConfigureBegin(w, a) ==
  /\ at[w] = "idle"
  /\ shown[a].pc \in PcIps /\ ~shown[a].ambiguous
  /\ link' = [link EXCEPT ![w] = [adapter |-> a, pc |-> shown[a].pc, dev |-> shown[a].dev,
                                  previous |-> shown[a].previous]]
  /\ Goto(w, "lock")
  /\ UNCHANGED <<worldVars, fileVars, linkLock, requestLock, callVars, configureVars>>

\* With the lock held (and the device's watch hub suspended) the file is read.
ConfigureLoad(w) ==
  /\ at[w] = "lock" /\ LockFree(w) /\ ~scan.on
  /\ TakeLink(w)
  /\ copy' = [copy EXCEPT ![w] = file]
  /\ Goto(w, "probe")
  /\ UNCHANGED <<worldVars, fileVars, requestLock, link, callVars, tried, found, verified,
                 disturbed>>

\* known_ips: the target first, then the previous address, then the saved ones.
KnownIps(w) == {Target(w), link[w].previous} \cup
  {copy[w][b].dev : b \in {c \in Adapters : SavedFor(copy[w], c, link[w].pc) /\ copy[w][c].conf}}
NextKnown(w) ==
  LET left == KnownIps(w) \ tried[w] IN
  IF Target(w) \in left THEN {Target(w)}
  ELSE IF link[w].previous \in left THEN {link[w].previous} ELSE left

\* The call returns: the link lock is released and its locals are gone.
Leave(w) ==
  /\ LetLinkGo(w) /\ Goto(w, "idle")
  /\ link' = [link EXCEPT ![w] = NoCall]
  /\ copy' = [copy EXCEPT ![w] = NoScan.file] /\ tried' = [tried EXCEPT ![w] = {}]
  /\ found' = [found EXCEPT ![w] = DefaultIp] /\ disturbed' = [disturbed EXCEPT ![w] = FALSE]

\* The target has answered.
Verified(w) ==
  /\ Goto(w, "save")
  /\ verified' = verified \cup {<<link[w].pc, Target(w)>>}
  /\ disturbed' = [disturbed EXCEPT ![w] = FALSE]

\* One known address is probed: no answer, the target answers, or another one does.
ConfigureProbe(w) ==
  /\ at[w] = "probe" /\ requestLock = Free
  /\ \E ip \in NextKnown(w) :
       /\ tried' = [tried EXCEPT ![w] = @ \cup {ip}]
       /\ \/ /\ Goto(w, "probe")
             /\ UNCHANGED <<found, verified, disturbed>>
          \/ /\ Reachable(w, ip)
             /\ found' = [found EXCEPT ![w] = ip]
             /\ IF ip = Target(w) THEN Verified(w)
                ELSE Goto(w, "set") /\ UNCHANGED <<verified, disturbed>>
  /\ UNCHANGED <<worldVars, fileVars, linkLock, requestLock, link, callVars, copy>>

\* No known address answered: the default address is asked.
ConfigureBootstrap(w) ==
  /\ at[w] = "probe" /\ requestLock = Free /\ KnownIps(w) \subseteq tried[w]
  /\ \/ Reachable(w, DefaultIp) /\ Goto(w, "set") /\ UNCHANGED linkLock
        /\ found' = [found EXCEPT ![w] = DefaultIp]
        /\ UNCHANGED <<link, copy, tried, disturbed>>
     \/ Leave(w)
  /\ UNCHANGED <<worldVars, fileVars, requestLock, callVars, verified>>

\* set_device_ip.  Whether the device got it or not, and whether its answer was
\* lost or not, the target is asked next.
ConfigureSet(w) ==
  /\ at[w] = "set" /\ requestLock = Free
  /\ \/ UNCHANGED devAddr
     \/ Reachable(w, found[w]) /\ devAddr' = [devAddr EXCEPT ![Adapter(w)] = Target(w)]
  /\ Goto(w, "verify")
  /\ UNCHANGED <<pcAddr, changes, fileVars, linkLock, requestLock, link, callVars,
                 configureVars>>

ConfigureVerify(w) ==
  /\ at[w] = "verify" /\ requestLock = Free
  /\ \/ Reachable(w, Target(w)) /\ Verified(w) /\ UNCHANGED linkLock
        /\ UNCHANGED <<link, copy, tried, found>>
     \/ Leave(w) /\ UNCHANGED verified
  /\ UNCHANGED <<worldVars, fileVars, requestLock, callVars>>

\* The copy is written back with the link's own entry, or cannot be written.
ConfigureSave(w) ==
  /\ at[w] = "save" /\ ~scan.on
  /\ \/ file' = [copy[w] EXCEPT ![Adapter(w)] = NewEntry(link[w].pc, TRUE)]
     \/ UNCHANGED file
  /\ Leave(w)
  /\ UNCHANGED <<worldVars, scan, shown, requestLock, callVars, verified>>

Configure(w) ==
  \/ \E a \in Adapters : ConfigureBegin(w, a)
  \/ ConfigureLoad(w) \/ ConfigureProbe(w) \/ ConfigureBootstrap(w)
  \/ ConfigureSet(w) \/ ConfigureVerify(w) \/ ConfigureSave(w)

-----------------------------------------------------------------------------
(* request_device.  at: idle, lock, locked, want, got, open, sent, done;   *)
(* locked and got are the moments between a lock and the second look at    *)
(* the cancel event.                                                       *)

\* Mutant: a lock is kept when the cancellation comes together with it.
EndForgetful(c, result) ==
  /\ Goto(c, "done")
  /\ answer' = [answer EXCEPT ![c] = result]
  /\ linkLock' = [a \in Adapters |-> IF linkLock[a] = c THEN Free ELSE linkLock[a]]
  /\ requestLock' = IF requestLock = c /\ result # "cancelled" THEN Free ELSE requestLock

End(c, result) ==
  /\ Goto(c, "done")
  /\ answer' = [answer EXCEPT ![c] = result]
  /\ linkLock' = [a \in Adapters |-> IF linkLock[a] = c THEN Free ELSE linkLock[a]]
  /\ requestLock' = IF requestLock = c THEN Free ELSE requestLock

CallBegin(c, a) ==
  /\ at[c] = "idle" /\ shown[a].pc \in PcIps
  /\ link' = [link EXCEPT ![c] = [adapter |-> a, pc |-> shown[a].pc, dev |-> shown[a].dev,
                                  previous |-> shown[a].previous]]
  /\ \E first \in {"probe", "command"} : asking' = [asking EXCEPT ![c] = first]
  /\ Goto(c, "lock")
  /\ UNCHANGED <<worldVars, fileVars, linkLock, requestLock, cancelled, sent, answer, warned,
                 configureVars>>

CallLockLink(c) ==
  /\ at[c] = "lock" /\ LockFree(c)
  /\ TakeLink(c) /\ Goto(c, "locked")
  /\ UNCHANGED <<worldVars, fileVars, requestLock, link, callVars, configureVars>>

CallLockRequest(c) ==
  /\ at[c] = "want" /\ requestLock = Free
  /\ requestLock' = c /\ Goto(c, "got")
  /\ UNCHANGED <<worldVars, fileVars, linkLock, link, callVars, configureVars>>

\* Mutant: the event is looked at while waiting only.
GivesUpWaiting(c) == cancelled[c] /\ at[c] \in {"lock", "want", "sent"}

\* Wherever the event is looked at: while waiting for a lock, right after getting
\* one, before the connection, and while the answer is read.
GivesUp(c) == cancelled[c] /\ at[c] \in {"lock", "locked", "want", "got", "sent"}

CallGiveUp(c) ==
  /\ GivesUp(c)
  /\ End(c, "cancelled")
  /\ UNCHANGED <<worldVars, fileVars, link, asking, cancelled, sent, warned, configureVars>>

CallGoOn(c) ==
  /\ at[c] = "locked" /\ ~GivesUp(c)
  /\ Goto(c, "want")
  /\ UNCHANGED <<worldVars, fileVars, linkLock, requestLock, link, callVars, configureVars>>

\* The connection, up to the last look at the event.
CallConnect(c) ==
  /\ at[c] = "got" /\ ~GivesUp(c)
  /\ \/ /\ Reachable(c, link[c].dev)
        /\ Goto(c, "open")
        /\ UNCHANGED <<linkLock, requestLock, answer>>
     \/ End(c, "error")
  /\ UNCHANGED <<worldVars, fileVars, link, asking, cancelled, sent, warned, configureVars>>

\* The request leaves; the device may have gone meanwhile.
CallTransmit(c) ==
  /\ at[c] = "open"
  /\ Goto(c, "sent")
  /\ \/ /\ asking[c] = "command" /\ Reachable(c, link[c].dev)
        /\ sent' = [sent EXCEPT ![c] = @ + 1]
     \/ UNCHANGED sent
  /\ UNCHANGED <<worldVars, fileVars, linkLock, requestLock, link, asking, cancelled, answer,
                 warned, configureVars>>

\* The answer to the probe is followed by the command, under the same link lock.
CallProbed(c) ==
  /\ at[c] = "sent" /\ asking[c] = "probe" /\ ~GivesUp(c)
  /\ Reachable(c, link[c].dev)
  /\ requestLock' = Free /\ Goto(c, "want")
  /\ asking' = [asking EXCEPT ![c] = "command"]
  /\ UNCHANGED <<worldVars, fileVars, linkLock, link, cancelled, sent, answer, warned,
                 configureVars>>

\* An answer can only be one to a command the device got.
CallAnswered(c) ==
  /\ at[c] = "sent" /\ asking[c] = "command" /\ ~GivesUp(c)
  /\ sent[c] > 0
  /\ End(c, "ok")
  /\ UNCHANGED <<worldVars, fileVars, link, asking, cancelled, sent, warned, configureVars>>

\* Mutant: a command without an answer is sent again.
CallRetried(c) ==
  /\ at[c] = "sent" /\ ~GivesUp(c)
  /\ requestLock' = Free /\ Goto(c, "want")
  /\ UNCHANGED <<worldVars, fileVars, linkLock, link, callVars, configureVars>>

\* No answer within the time, or a connection that breaks.
CallFailed(c) ==
  /\ at[c] = "sent" /\ ~GivesUp(c)
  /\ End(c, "error")
  /\ UNCHANGED <<worldVars, fileVars, link, asking, cancelled, sent, warned, configureVars>>

\* CommandWorker.cancel, from another thread.
Cancel(c) ==
  /\ ~cancelled[c] /\ at[c] # "done"
  /\ cancelled' = [cancelled EXCEPT ![c] = TRUE]
  /\ warned' = [warned EXCEPT ![c] = asking[c] = "probe" \/ at[c] \notin {"open", "sent"}]
  /\ UNCHANGED <<worldVars, fileVars, linkLock, requestLock, at, link, asking, sent, answer,
                 configureVars>>

Call(c) ==
  \/ \E a \in Adapters : CallBegin(c, a)
  \/ CallLockLink(c) \/ CallLockRequest(c) \/ CallGiveUp(c) \/ CallGoOn(c) \/ CallConnect(c)
  \/ CallTransmit(c) \/ CallProbed(c) \/ CallAnswered(c) \/ CallFailed(c) \/ Cancel(c)

-----------------------------------------------------------------------------

\* The file is new, or from an earlier session (of a release that may have paired
\* addresses in another way); the devices have never been configured or are where it says.
LinksInit ==
  /\ pcAddr \in [Adapters -> PcIps \cup {Unplugged}]
  /\ \E a \in Adapters : pcAddr[a] # Unplugged
  /\ file \in [Adapters -> {NoEntry} \cup
       {[pc |-> p, dev |-> d, conf |-> TRUE, note |-> NoNote] :
          p \in PcIps, d \in DeviceIps \ {DefaultIp}}]
  /\ \A a \in Adapters : file[a] # NoEntry => file[a].pc = pcAddr[a]
  /\ devAddr = [a \in Adapters |-> file[a].dev]
  /\ scan = NoScan /\ shown = NoScan.links
  /\ linkLock = [a \in Adapters |-> Free] /\ requestLock = Free
  /\ at = [w \in Threads |-> "idle"] /\ link = [w \in Threads |-> NoCall]
  /\ copy = [w \in Configurers |-> NoScan.file] /\ tried = [w \in Configurers |-> {}]
  /\ found = [w \in Configurers |-> DefaultIp]
  /\ asking = [c \in Callers |-> "probe"]
  /\ cancelled = [c \in Callers |-> FALSE] /\ warned = [c \in Callers |-> FALSE]
  /\ sent = [c \in Callers |-> 0] /\ answer = [c \in Callers |-> "none"]
  /\ changes = 0
  /\ verified = {<<file[a].pc, file[a].dev>> : a \in {b \in Adapters : file[b].conf}}
  /\ disturbed = [w \in Configurers |-> FALSE]

DiscoverLinks == DiscoverBegin \/ DiscoverEnd \/ \E a \in Adapters : DiscoverLink(a)

Notice == \E a \in Adapters, n \in Notes \cup {NoNote} : SetNote(a, n)

World == \E a \in Adapters : \/ \E p \in PcIps \cup {NoPc} : SetPcAddress(a, p)
                             \/ \E b \in Adapters : Replug(a, b)
                             \/ ForgetAddress(a)

LinksNext ==
  \/ DiscoverLinks \/ Notice \/ World
  \/ \E w \in Configurers : Configure(w)
  \/ \E c \in Callers : Call(c)

LinksSpec == LinksInit /\ [][LinksNext]_linksVars

-----------------------------------------------------------------------------
(* Properties.                                                             *)

\* When configure_device has verified a device and goes on to record it, the device
\* answers at its target address, unless it moved by itself: nobody else's configure,
\* with a link of before an address change, can have moved it meanwhile.
VerifiedStaysThere ==
  \A w \in Configurers :
    at[w] = "save" => devAddr[Adapter(w)] = Target(w) \/ disturbed[w]

\* An entry of the link file says configured only for a pair of addresses that
\* configure_device has verified, here or in an earlier session: not for the address
\* of another link, of a failed attempt, or of an earlier mapping.
ConfiguredWasVerified ==
  \A a \in Adapters : file[a].conf => <<file[a].pc, file[a].dev>> \in verified

\* Of the links one discovery returns, those with the same device address are told
\* apart: all but one are ambiguous, and an ambiguous one is not configured.
PairsToldApart ==
  \A a, b \in Adapters :
    a # b /\ shown[a].pc \in PcIps /\ shown[a].dev = shown[b].dev /\ shown[b].pc \in PcIps
      => \/ shown[a].ambiguous /\ ~shown[a].conf
         \/ shown[b].ambiguous /\ ~shown[b].conf

\* A thread that is not in a call holds no lock: none is left behind by a
\* cancellation at whatever moment, by an error or by a lost answer.
NoLockLeftBehind ==
  /\ \A a \in Adapters : linkLock[a] # Free =>
       /\ at[linkLock[a]] \notin {"idle", "lock", "done"}
       /\ Adapter(linkLock[a]) = a
  /\ requestLock # Free => at[requestLock] \in {"got", "open", "sent"}

\* A command cancelled before its own connection is open never reaches the device.
CancelledNotSent == \A c \in Callers : warned[c] => sent[c] = 0

\* request_device implements a remote call: the device gets the command at most once,
\* before the caller has an answer, and "ok" means that it got it.
Remote == INSTANCE RemoteCall WITH Clients <- Callers, taken <- sent, result <- answer
CommandsSentOnce == Remote!Spec
================================================================================
