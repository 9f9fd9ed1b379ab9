----------------------------- MODULE MobileCases -----------------------------
(***************************************************************************)
(* The cases that drive the Android App (apptest/mobile_uia): case1        *)
(* downloads a video and deletes the local copy, case2 previews the videos *)
(* of the device one after the other, case6 connects and disconnects, and  *)
(* case7 taps at random and must end connected.                            *)
(*                                                                         *)
(* The phone goes its own way: a page that is still loading shows no       *)
(* number (read as 0) or that of another tab, downloads and deletions take *)
(* their time or never happen, a swipe does nothing, the camera's link is  *)
(* lost.  Where a script looks for a node and raises when it is missing,   *)
(* the run fails; every sleep may raise CaseCancelled.                     *)
(***************************************************************************)
EXTENDS Integers, FiniteSets

CONSTANTS
  Rounds,     \* iterations of a run
  Videos,     \* videos in the device's list
  MaxLocal    \* bound on local videos, and on the numbers a page may show

ASSUME MobileCasesAssumption == Rounds \in Nat \ {0} /\ Videos \in Nat \ {0, 1} /\ MaxLocal \in Nat

VARIABLES
  phone,      \* local videos, downloads and a deletion under way, the camera linked
  uia,        \* the script: its case, iteration, place, what it has read, and the videos it
              \* has counted for case2
  past        \* history: the local videos and downloads when the run began; whether a number
              \* was acted upon that was not the number of local videos; the video shown,
              \* those watched, swipes that did nothing or went beyond the list

mobileVars == <<phone, uia, past>>

Cases == {"case1", "case2", "case6", "case7"}
FirstStep == [case1 |-> "album", case2 |-> "preview", case6 |-> "settings", case7 |-> "pick"]

Unread == [baseline |-> 0]

\* _extract_total_count, the first number of the page: the local videos, or another tab's
\* while the page is loading, or 0 for none.
OnPage == 0..MaxLocal
Read(n) == past' = [past EXCEPT !.misread = @ \/ n # phone.local]

Go(step) == uia' = [uia EXCEPT !.at = step]
Fail == uia' = [uia EXCEPT !.at = "over", !.exit = 1]

\* The next iteration, or the end of the loop.
Pass(read, last) ==
  uia' = IF uia.round < Rounds
         THEN [uia EXCEPT !.round = @ + 1, !.at = FirstStep[uia.case], !.read = read]
         ELSE IF last = "over" THEN [uia EXCEPT !.at = "over", !.exit = 0] ELSE [uia EXCEPT !.at = last]

At(case, step) == uia.case = case /\ uia.at = step

\* raise_if_cancelled and cancellable_sleep, and any step whose node is not there.
CancelRun == uia.at # "over" /\ uia' = [uia EXCEPT !.at = "over", !.exit = 2] /\ UNCHANGED <<phone, past>>
NodeMissing == uia.at # "over" /\ Fail /\ UNCHANGED <<phone, past>>

-----------------------------------------------------------------------------
(* The phone.                                                              *)

PhoneMoves ==
  /\ uia.at # "over"
  /\ \/ phone.loading > 0 /\ phone' = [phone EXCEPT !.loading = @ - 1, !.local = @ + 1]
     \/ phone.deleting /\ phone.local > 0 /\ phone' = [phone EXCEPT !.deleting = FALSE, !.local = @ - 1]
     \/ phone.link # "none" /\ phone' = [phone EXCEPT !.link = "none"]
     \/ ~phone.crashed /\ uia.case = "case7" /\ phone' = [phone EXCEPT !.crashed = TRUE]
  /\ UNCHANGED <<uia, past>>

-----------------------------------------------------------------------------
(* case1: _run_single_iteration.                                           *)

ReadBaseline ==
  /\ At("case1", "album")
  /\ \E n \in OnPage : Read(n) /\ uia' = [uia EXCEPT !.at = "device", !.read = [baseline |-> n]]
  /\ UNCHANGED phone

TapDownload ==
  /\ At("case1", "device") /\ phone.link # "none" /\ phone.local + phone.loading < MaxLocal
  /\ Go("download") /\ phone' = [phone EXCEPT !.loading = @ + 1] /\ UNCHANGED past

\* _wait_for_local_video_download.
SawDownload ==
  /\ At("case1", "download")
  /\ \E n \in OnPage : n > uia.read.baseline /\ Read(n)
  /\ Go("select") /\ UNCHANGED phone

\* The first video of the list, and the confirmation, if one is asked.
TapDelete ==
  /\ At("case1", "select") /\ phone.local > 0
  /\ \E works \in BOOLEAN : phone' = [phone EXCEPT !.deleting = works]
  /\ Go("verify") /\ UNCHANGED past

\* _wait_for_delete_success.
SawDelete ==
  /\ At("case1", "verify") /\ Read(uia.read.baseline)
  /\ Pass(uia.read, "over") /\ UNCHANGED phone

Case1 == ReadBaseline \/ TapDownload \/ SawDownload \/ TapDelete \/ SawDelete

-----------------------------------------------------------------------------
(* case2.                                                                  *)

\* Mutant: the way back begins one video late.
ActionOneLate(iteration, count) ==
  IF (iteration - 1) % (count * 2) < count THEN "next" ELSE "previous"

\* _navigation_action: to the last video and back, for ever.
NavigationAction(iteration, count) ==
  LET span == count - 1 IN
  IF (iteration - 1) % (span * 2) < span THEN "next" ELSE "previous"

\* _prepare_preview_entry: the number on the page, or else the cards that are visible, at
\* least two; one video more than there are stands for a number that was another tab's.
Counted == 2..(Videos + 1)

\* The preview is watched to its end, or the run fails; then a swipe, but for the last time.
\* The script sees that a preview is shown, not which: a swipe may do nothing, and the App
\* does nothing with one beyond the first or the last video.
Previewed ==
  /\ At("case2", "preview")
  /\ LET to == past.video + (IF NavigationAction(uia.round, uia.count) = "next" THEN 1 ELSE -1)
         seen == [past EXCEPT !.watched = @ \cup {past.video}]
     IN  IF uia.round = Rounds THEN past' = seen
         ELSE \/ past' = [seen EXCEPT !.lost = @ + 1]
              \/ to \in 1..Videos /\ past' = [seen EXCEPT !.video = to]
              \/ to \notin 1..Videos /\ past' = [seen EXCEPT !.astray = TRUE]
  /\ Pass(uia.read, "over") /\ UNCHANGED phone

-----------------------------------------------------------------------------
(* case6: _run_single_iteration.                                           *)

\* A device that is linked is unlinked first, if its tag and the dialog are there.
UnlinkFirst ==
  /\ At("case6", "settings")
  /\ \E works \in BOOLEAN : phone' = IF works THEN [phone EXCEPT !.link = "none"] ELSE phone
  /\ Go("card") /\ UNCHANGED past

\* The card is there only without a link; the target is found among the cards.
Connect ==
  /\ At("case6", "card") /\ phone.link = "none"
  /\ phone' = [phone EXCEPT !.link = "target"]
  /\ Go("tag") /\ UNCHANGED past

\* The dialog is confirmed; whether the link is gone is looked at, and only noted.
Disconnect ==
  /\ At("case6", "tag") /\ phone.link # "none"
  /\ \E works \in BOOLEAN : phone' = IF works THEN [phone EXCEPT !.link = "none"] ELSE phone
  /\ Pass(Unread, "over") /\ UNCHANGED past

Case6 == UnlinkFirst \/ Connect \/ Disconnect

-----------------------------------------------------------------------------
(* case7.                                                                  *)

\* A crash dialog is dismissed, if it can be, and costs the iteration, not the run; a
\* connection that fails costs nothing.
Tap ==
  /\ At("case7", "pick")
  /\ \/ phone.crashed /\ \E gone \in BOOLEAN : phone' = [phone EXCEPT !.crashed = ~gone]
     \/ ~phone.crashed /\ \E link \in {phone.link, "target"} : phone' = [phone EXCEPT !.link = link]
  /\ Pass(Unread, "final") /\ UNCHANGED past

\* _ensure_connected_final: any device that is linked will do; else one attempt.
FinalCheck ==
  /\ At("case7", "final")
  /\ \/ phone.link # "none" /\ uia' = [uia EXCEPT !.at = "over", !.exit = 0] /\ UNCHANGED phone
     \/ /\ phone.link = "none" /\ phone' = [phone EXCEPT !.link = "target"]
        /\ uia' = [uia EXCEPT !.at = "over", !.exit = 0]
     \/ phone.link = "none" /\ Fail /\ UNCHANGED phone
  /\ UNCHANGED past

-----------------------------------------------------------------------------

MobileInit ==
  /\ \E case \in Cases, count \in Counted :
       /\ case # "case2" => count = Videos
       /\ uia = [case |-> case, round |-> 1, at |-> FirstStep[case], exit |-> 3,
                 read |-> Unread, count |-> count]
  /\ \E link \in {"none", "target", "other"}, n, m \in 0..1 :
       /\ phone = [local |-> n, loading |-> m, deleting |-> FALSE, link |-> link, crashed |-> FALSE]
       /\ past = [local |-> n + m, misread |-> FALSE,
                  video |-> 1, watched |-> {}, lost |-> 0, astray |-> FALSE]

MobileNext == CancelRun \/ NodeMissing \/ PhoneMoves \/ Case1 \/ Previewed \/ Case6 \/ Tap \/ FinalCheck

MobileSpec == MobileInit /\ [][MobileNext]_mobileVars

-----------------------------------------------------------------------------
(* Properties.                                                             *)

\* What a run that passes has done.  case1: if each number it acted upon was that of the
\* local videos, the phone has as many of them as when the run began, those still being
\* downloaded included, and no deletion under way, however downloads and deletions are
\* delayed.  case2, if it has not counted more videos than there are: no swipe went beyond
\* either end of the list unless another one was lost, and the videos up to the counted
\* ones, less one for each swipe that was lost, were watched, if there were iterations
\* enough.
PassedMeansDone ==
  uia.at = "over" /\ uia.exit = 0 =>
    /\ uia.case = "case1" /\ ~past.misread =>
         phone.local + phone.loading = past.local /\ ~phone.deleting
    /\ uia.case = "case2" /\ uia.count <= Videos =>
         /\ past.astray => past.lost > 0
         /\ Rounds >= uia.count => \A v \in 1..Videos : v + past.lost <= uia.count => v \in past.watched
================================================================================
