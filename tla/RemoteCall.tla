------------------------------ MODULE RemoteCall ------------------------------
(***************************************************************************)
(* What a caller of request_device (testagent/device.py) is promised:      *)
(* "Ensure the target address is restored, then send one command exactly   *)
(* once."  A command may be lost and its answer may be lost; it is never   *)
(* taken twice, never after the caller has been told an outcome, and a     *)
(* caller that is told "ok" knows it was taken.                            *)
(***************************************************************************)
EXTENDS Naturals

CONSTANT Clients

VARIABLES
  taken,   \* how often the device took the client's command
  result   \* what the client was told

vars == <<taken, result>>

Init ==
  /\ taken = [c \in Clients |-> 0]
  /\ result = [c \in Clients |-> "none"]

Take(c) ==
  /\ result[c] = "none" /\ taken[c] = 0
  /\ taken' = [taken EXCEPT ![c] = 1]
  /\ UNCHANGED result

Tell(c, r) ==
  /\ result[c] = "none"
  /\ r = "ok" => taken[c] = 1
  /\ result' = [result EXCEPT ![c] = r]
  /\ UNCHANGED taken

Next == \E c \in Clients : Take(c) \/ \E r \in {"ok", "error", "cancelled"} : Tell(c, r)

Spec == Init /\ [][Next]_vars
================================================================================
