------------------------ MODULE MCSmsAdministration ------------------------
(***************************************************************************)
(* A small instance of SmsAdministration for TLC: three requests of a few   *)
(* kinds at a time, so that every pair of operations that shares a row      *)
(* meets, and most triples do.                                              *)
(***************************************************************************)
EXTENDS SmsAdministration, TLC

Mix(imported, kinds1, kinds2, kinds3) ==
    [imported |-> imported, kinds |-> <<kinds1, kinds2, kinds3>>]

MCMixes == {
    \* the configuration under tests of the connection, from the first save on
    Mix({}, {"save"}, {"legacyProbe", "patch"}, {"probe", "patch"}),
    \* a test send, repeated while the administrator changes what it depends on
    Mix({1}, {"testSend"}, {"testSend"}, {"save", "updateTemplate", "updateSignature"}),
    \* sends, renames and revocations
    Mix({1, 2}, {"send"}, {"updateTemplate"}, {"commit", "updateSignature"}),
    \* two ways to one template key
    Mix({1}, {"commit"}, {"import"}, {"updateTemplate"}),
    \* an old and a new preview
    Mix({1}, {"preview"}, {"commit"}, {"import"}) }

\* Nothing depends on which connection or which idempotency key it is.
Interchangeable == Permutations(Inputs) \cup Permutations(OperationKeys)
=============================================================================
