---------------------------- MODULE MCAreaImport ----------------------------
(***************************************************************************)
(* Small instances of AreaImport for TLC: a region with three children, and a *)
(* second source that names one of the children differently.                *)
(***************************************************************************)
EXTENDS AreaImport, TLC

CONSTANTS m1, m2

Region(code, level, parent, name) ==
    [code |-> code, level |-> level, parent |-> parent, name |-> name]

\* The rows of a source, which gives the third code its name.
Rows(name) == <<Region(1, 1, 0, "a"), Region(2, 2, 1, "b"),
                Region(3, 2, 1, name), Region(4, 2, 1, "e")>>

Library == (m1 :> Rows("c")) @@ (m2 :> Rows("d"))

\* The older datasets know the third code by another path.
SamePath == {1, 2, 4}
=============================================================================
