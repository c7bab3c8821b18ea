--------------------------- MODULE MCSmsDelivery ---------------------------
(***************************************************************************)
(* A small instance of SmsDelivery with one-off requests for TLC.           *)
(***************************************************************************)
EXTENDS SmsOneOff, TLC

\* Two reconcilers alone, or one while two administrators ask.
TwoCrews ==
    {[reconcilers |-> Reconcilers, requests |-> {}]}
      \cup {[reconcilers |-> {r}, requests |-> Requests] :
              r \in {CHOOSE r \in Reconcilers : TRUE}}
=============================================================================
