------------------------------- MODULE MCTools -------------------------------
(***************************************************************************)
(* Instances of the parts of the desktop program with safety properties    *)
(* only: the editor of custom tests and its rules, the file of PC          *)
(* profiles, downloads, the cases on the phone, the OTG monitor, and the   *)
(* event streams with case5.  They share no state: a behaviour is one of   *)
(* one part, with the others as they were.                                 *)
(***************************************************************************)
EXTENDS CustomEditing, CustomRules, ProfileStore, Downloads, MobileCases, OtgMonitor, DeviceEvents

VARIABLE part

\* The state of a part that is not the one of the behaviour.
SomeMetadata == CHOOSE m \in Metadata : m.sha = "right" /\ ~Malformed(m)
SomeCaps == CHOOSE c \in Caps(Actions, FullOptions) : TRUE

MCInit ==
  /\ part \in {"editor", "rules", "store", "downloads", "mobile", "otg", "events"}
  /\ EditingInit /\ OtgInit /\ DeviceEventsInit
  /\ StoreInit /\ (part # "store" => active.now = 0)
  /\ DownloadsInit /\ (part # "downloads" => expect = SomeMetadata /\ pool.stopFirst)
  /\ MobileInit /\ (part # "mobile" => uia.case = "case1" /\ phone.link = "none" /\ past.local = 0)
  /\ IF part = "rules" THEN RulesInit
     ELSE /\ caps = SomeCaps /\ plan = SimplePlan
          /\ preview = NoPreview /\ c01 = [Begun EXCEPT !.at = "asked"]

MCNext ==
  /\ UNCHANGED part
  /\ \/ /\ part = "editor" /\ EditingNext
        /\ UNCHANGED <<rulesVars, storeVars, downloadVars, mobileVars, otgVars, eventVars>>
     \/ /\ part = "rules" /\ RulesNext
        /\ UNCHANGED <<editingVars, storeVars, downloadVars, mobileVars, otgVars, eventVars>>
     \/ /\ part = "store" /\ StoreNext
        /\ UNCHANGED <<editingVars, rulesVars, downloadVars, mobileVars, otgVars, eventVars>>
     \/ /\ part = "downloads" /\ DownloadsNext
        /\ UNCHANGED <<editingVars, rulesVars, storeVars, mobileVars, otgVars, eventVars>>
     \/ /\ part = "mobile" /\ MobileNext
        /\ UNCHANGED <<editingVars, rulesVars, storeVars, downloadVars, otgVars, eventVars>>
     \/ /\ part = "otg" /\ OtgNext
        /\ UNCHANGED <<editingVars, rulesVars, storeVars, downloadVars, mobileVars, eventVars>>
     \/ /\ part = "events" /\ DeviceEventsNext
        /\ UNCHANGED <<editingVars, rulesVars, storeVars, downloadVars, mobileVars, otgVars>>

mcVars == <<editingVars, rulesVars, storeVars, downloadVars, mobileVars, otgVars, eventVars, part>>

MCSpec == MCInit /\ [][MCNext]_mcVars
================================================================================
