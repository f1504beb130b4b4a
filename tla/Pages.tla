-------------------------------- MODULE Pages --------------------------------
(***************************************************************************)
(* The three pages of the browser that move money or decide on it, side by *)
(* side: each is a document of its own, and none reads what another keeps. *)
(***************************************************************************)
EXTENDS PaymentPage, OfficerPage, ApplyPage

PagesSpec == PayPageSpec /\ DeskSpec /\ ApplySpec

(* On either page, what a visit left behind is never written over the file *)
(* now on screen ("must not write B's data over whatever is on screen"),   *)
(* but for what a re-check of the officer's loads late; nor is an older    *)
(* balance what an officer is told to review.                              *)
ScreensAreOfThisVisit == ScreenIsOfThisVisit /\ DeskIsOfThisVisit

=============================================================================
