------------------------------ MODULE MCAuthForms ------------------------------
(***************************************************************************)
(* Small instances of AuthForms, and of AuthKit alone, for TLC.             *)
(***************************************************************************)
EXTENDS AuthForms, TLC

CONSTANTS u1, p1

\* The first user has the first number, others have none yet.
FirstBound == [u \in Users |-> IF u = u1 THEN p1 ELSE None]

Interchangeable == Permutations(Requests)

Mix(view, kinds, moves, others, rebinds, breaks, failures) ==
    [form |-> TRUE, view |-> view, kinds |-> kinds, moves |-> moves, others |-> others, rebinds |-> rebinds,
     breaks |-> breaks, failures |-> failures]

\* Requests of any clients alone.
RequestsMix == [Mix("login", {}, 0, 0, 0, 0, 0) EXCEPT !.form = FALSE]

\* The user switches, sends and submits; calls may fail.
CaptchaMix == Mix("login", {}, 4, 0, 0, 0, 1)

\* Codes are sent by the form and by others, while the number changes hands or
\* processes end.
RebindMix == Mix("reset-password", {"send-login"}, 2, 2, 1, 0, 0)
BreakMix == Mix("reset-password", {"send-login"}, 2, 1, 0, 1, 0)

SomeMixes == {RequestsMix, CaptchaMix, RebindMix, BreakMix}
=============================================================================
