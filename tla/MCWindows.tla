------------------------------ MODULE MCWindows ------------------------------
(***************************************************************************)
(* Instances of the parts of the desktop program that have a liveness      *)
(* property: firmware upgrades, the main window's devices, the App test    *)
(* page.  They share no state: a behaviour is one of one part, with the    *)
(* others as they were.                                                    *)
(***************************************************************************)
EXTENDS Firmware, DeviceDesk, AppTest

VARIABLE part

CONSTANT b1     \* the board that is upgraded more than once

MCInit ==
  /\ part \in {"boards", "again", "desk", "case", "cloud"}
  /\ FirmwareInit /\ (part \notin {"boards", "again"} => files = None({}))
  /\ DeskInit /\ \A k \in Keys : current[k] \in {0, IF part = "desk" THEN 1 ELSE 0}
  /\ AppTestInit

\* One upgrade or cleaning of any boards, or two of the same one.
TwoBoards == FirmwareNext /\ starts' <= 1
OneBoard ==
  /\ FirmwareNext
  /\ batch'.chosen \subseteq {b1} /\ clean'.todo \subseteq {b1}
  /\ single'.at # "off" => single'.board = b1

MCNext ==
  /\ UNCHANGED part
  /\ \/ part = "boards" /\ TwoBoards /\ UNCHANGED <<deskVars, appTestVars>>
     \/ part = "again" /\ OneBoard /\ UNCHANGED <<deskVars, appTestVars>>
     \/ part = "desk" /\ DeskNext /\ UNCHANGED <<firmwareVars, appTestVars>>
     \/ part = "case" /\ AppTestNext /\ cloud'.at = "off" /\ UNCHANGED <<firmwareVars, deskVars>>
     \/ part = "cloud" /\ AppTestNext /\ caseRun'.at = "off" /\ UNCHANGED <<firmwareVars, deskVars>>

mcVars == <<firmwareVars, deskVars, appTestVars, part>>

MCSpec == MCInit /\ [][MCNext]_mcVars /\ FirmwareFairness /\ DeskFairness /\ AppTestFairness
================================================================================
