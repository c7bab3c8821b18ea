---------------------------- MODULE MCSmsChallenge ----------------------------
(***************************************************************************)
(* Small instances of SmsChallenge for TLC.                                 *)
(***************************************************************************)
EXTENDS SmsChallenge, TLC

CONSTANTS a1, a2, b1, c1, k1, k2, k3, p1, p2

\* a2 repeats the request of a1.
Keyed == [c \in Callers |-> CASE c = b1 -> k2 [] c = c1 -> k3 [] OTHER -> k1]

\* The first two requests name one phone, the third another one.
Phoned == [k \in Keys |-> IF k = k3 THEN p2 ELSE p1]

Interchangeable ==
    Permutations({a1, a2}) \cup Permutations(Hosts) \cup Permutations(ConsumptionKeys)
=============================================================================
