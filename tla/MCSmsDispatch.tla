--------------------------- MODULE MCSmsDispatch ---------------------------
(***************************************************************************)
(* A small instance of SmsDispatch for TLC.                                 *)
(***************************************************************************)
EXTENDS SmsDispatch, TLC
=============================================================================
