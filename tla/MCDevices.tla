------------------------------ MODULE MCDevices ------------------------------
(***************************************************************************)
(* Instances of DeviceLinks and of DeviceDesk.  Each behaviour is one of   *)
(* four situations (part): the user and two configurations of one device,  *)
(* with every interleaving; the same with adapters that come and go and    *)
(* discoveries undisturbed; commands with their cancellation; and the      *)
(* window's probes of a device that goes away and comes back.              *)
(***************************************************************************)
EXTENDS DeviceLinks, DeviceDesk, TLC

VARIABLE part

MCDeviceIp == "p1" :> "d1" @@ "p2" :> "d2"

Plugged == {a \in Adapters : pcAddr[a] # Unplugged}
NoFile == \A a \in Adapters : file[a] = NoEntry

MCInit ==
  /\ LinksInit /\ DeskInit
  /\ \/ part = "race" /\ Cardinality(Plugged) = 1
     \/ part = "configure"
     \/ part = "call" /\ \E a \in Adapters :
          /\ Plugged = {a} /\ pcAddr[a] = "p1" /\ file[a].dev \in {"d1", DefaultIp}
          /\ \A b \in Adapters \ {a} : file[b] = NoEntry
     \/ part = "probing" /\ Plugged = Adapters /\ NoFile /\ \A a \in Adapters : pcAddr[a] = "p1"
  /\ part # "probing" => current = [k \in Keys |-> 0]

Configuring == \E w \in Configurers : Configure(w)
Readdress == \E a \in Adapters, p \in PcIps \cup {NoPc} : SetPcAddress(a, p)

LinksPart ==
  \/ DiscoverLinks
  \/ part = "race" /\ (Readdress \/ Configuring)
  \/ part = "configure" /\ ~scan.on /\ (Configuring \/ (changes < 1 /\ World))
  \/ /\ part = "call" /\ ~scan.on
     /\ \/ changes < 1 /\ (Notice \/ World)
        \/ \E c \in Callers : Call(c)

\* Commands, probes and discoveries only: no dialog is open and the window is not closed.
DeskPart ==
  /\ DeskNext
  /\ question' = NoQuestion /\ ~closing' /\ ~auto'

MCNext ==
  /\ UNCHANGED part
  /\ \/ part # "probing" /\ LinksPart /\ UNCHANGED deskVars
     \/ part = "probing" /\ DeskPart /\ UNCHANGED linksVars

mcVars == <<linksVars, deskVars, part>>
MCSpec == MCInit /\ [][MCNext]_mcVars

Symmetry == Permutations(Adapters) \cup Permutations(Configurers) \cup Permutations(Commands)
================================================================================
