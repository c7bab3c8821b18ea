------------------------ MODULE MCSkuConfiguration ------------------------
(***************************************************************************)
(* Small instances of SkuConfiguration for TLC.                             *)
(***************************************************************************)
EXTENDS SkuConfiguration, TLC

CONSTANTS c1, c2

\* Every request under a commandId of its own, or c2 under that of c1.
DifferentIds == [c \in Commands |-> c]
SharedId == [c \in Commands |-> IF c = c2 THEN c1 ELSE c]

\* Clients make at most one id themselves.
OneId == {<<0, 1>>}

\* Two requests are enough where one gives a value an id of its own.
Inventive == \E c \in Commands : /\ sent[c] # NoPayload /\ sent[c].op = "save"
                                 /\ \E n \in sent[c].named : n[2] \in OwnIds
FewWithOwnIds == Inventive => Cardinality({c \in Commands : sent[c] # NoPayload}) <= 2

\* Products are interchangeable, and requests with commandIds of their own.
Products == Permutations(Spus)
Symmetry == Permutations(Commands) \cup Permutations(Spus)
=============================================================================
