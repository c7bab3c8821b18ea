---------------------------- MODULE MCAreaSelection ----------------------------
EXTENDS AreaSelection

Region(parent, level, kind, enabled, sort) ==
    [parent |-> parent, level |-> level, kind |-> kind, enabled |-> enabled, sort |-> sort]

\* In v1 province A has the city a, in v2 that city is B's; A then has nothing but the
\* group g.
TwoSnapshots ==
    [v1 |-> [A |-> Region(Root, 1, "region", TRUE, 1),
             B |-> Region(Root, 1, "region", FALSE, 2),
             a |-> Region("A", 2, "region", TRUE, 1)],
     v2 |-> [A |-> Region(Root, 1, "region", TRUE, 1),
             B |-> Region(Root, 1, "region", TRUE, 2),
             a |-> Region("B", 2, "region", TRUE, 1),
             g |-> Region("A", 2, "group", TRUE, 1)]]

HeldValues == {[dataset |-> "v1", codes |-> <<"A", "a">>]}

\* Values the host sets by itself: of the first dataset, or of each.
EitherValue == HeldValues \cup {[dataset |-> "v2", codes |-> <<"B", "a">>]}

Limits(targets, moves, stragglers) ==
    [targets |-> targets, moves |-> moves, stragglers |-> stragglers]

SomeBounds == {Limits({2}, 3, 0), Limits({2}, 2, 1), Limits({1, 2}, 2, 0)}
=============================================================================
