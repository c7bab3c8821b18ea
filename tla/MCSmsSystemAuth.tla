-------------------------- MODULE MCSmsSystemAuth --------------------------
(***************************************************************************)
(* Small instances of SmsSystemAuth for TLC.                                *)
(***************************************************************************)
EXTENDS SmsSystemAuth, TLC

Interchangeable == Permutations(Requests) \cup Permutations(Phones)
                     \cup Permutations(ConsumptionKeys) \cup Permutations(Sweepers)
=============================================================================
