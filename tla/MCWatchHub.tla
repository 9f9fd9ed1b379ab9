------------------------------ MODULE MCWatchHub ------------------------------
(***************************************************************************)
(* One device and at most two clients that watch it, for TLC.  Two hub     *)
(* objects are a hub that is stopping and the one that takes its place; a  *)
(* client that would need a third waits for the first to be garbage.       *)
(***************************************************************************)
EXTENDS WatchHub, TLC

\* WatchWorker asks for 1000 ms, RecordWorker for 500.
MCIntervalOf == [c \in Clients |-> IF c \in GuiClients THEN 1000 ELSE 500]
MCClientKey == [c \in Clients |-> CHOOSE k \in Keys : TRUE]
MCConfigureKey == [g \in Configures |-> CHOOSE k \in Keys : TRUE]

HubSymmetry == Permutations(Hubs)
==============================================================================
