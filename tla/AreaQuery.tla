------------------------------- MODULE AreaQuery -------------------------------
(***************************************************************************)
(* What area-kit answers about one snapshot of the regions: paths, pages,   *)
(* summaries and the verdict on a selection.  A snapshot is a table from    *)
(* region codes to rows; a query reads it in one repeatable-read            *)
(* transaction, so each operator takes the table it saw.                    *)
(*                                                                          *)
(* Names, labels and counts are left out; the sort order of siblings, which *)
(* the cursors of pages depend on, is not.                                  *)
(***************************************************************************)
EXTENDS Integers, FiniteSets, SequencesExt

CONSTANTS
    Root,               \* the parent of a province
    PageSize,           \* rows of a page (50 unless the caller says otherwise)
    AllowEarly,         \* policy.allowEarlyTermination of the host's server
    GroupExceptions     \* the group codes its policy accepts as endpoints

ASSUME AreaQueryConstants == PageSize \in Nat \ {0} /\ AllowEarly \in BOOLEAN

\* Of a row: its parent's code, its level, 1 to 5, its kind, whether it is enabled, and
\* its place among its siblings, which stands for the pair of sort and code that orders
\* them.  enabled and sort are the host's to change (PresentationPatch), the rest is
\* the source's.

\* What the audit of a source and the table's constraint area_region_root leave of
\* a snapshot: provinces at the top, everything else one level below its parent.
IsTree(table) ==
    \A c \in DOMAIN table :
        /\ table[c].level \in 1..5 /\ c # Root
        /\ IF table[c].level = 1 THEN table[c].parent = Root
           ELSE /\ table[c].parent \in DOMAIN table
                /\ table[table[c].parent].level = table[c].level - 1

\* The length of a code tells its level (CODE_LENGTHS), whatever the version.
SameLevels(table1, table2) ==
    \A c \in DOMAIN table1 \cap DOMAIN table2 : table1[c].level = table2[c].level

-----------------------------------------------------------------------------
LevelOf(table, code) == table[code].level

\* The code a number of levels above another one.
Above(table, code, levels) ==
    LET up(c) == table[c].parent IN
    IF levels = 0 THEN code
    ELSE IF levels = 1 THEN up(code)
    ELSE IF levels = 2 THEN up(up(code))
    ELSE IF levels = 3 THEN up(up(up(code)))
    ELSE up(up(up(up(code))))

\* getPaths: the codes from the province down to a code; it goes up at most five rows.
PathTo(table, code) ==
    [i \in 1..LevelOf(table, code) |-> Above(table, code, LevelOf(table, code) - i)]

ChildrenOf(table, parent) == {c \in DOMAIN table : table[c].parent = parent}

\* A region is off as soon as one of its ancestors is.
EffectivelyEnabled(table, code) ==
    \A c \in ToSet(PathTo(table, code)) : table[c].enabled

\* getChildFacts and childrenState.
ChildrenState(table, code) ==
    LET children == ChildrenOf(table, code) IN
    IF children = {} THEN "NONE_IN_SNAPSHOT"
    ELSE IF EffectivelyEnabled(table, code) /\ \E c \in children : table[c].enabled
         THEN "AVAILABLE" ELSE "ALL_DISABLED"

\* summarizeNodes: what a client is told of a row, besides its names.
Summary(table, code) ==
    [code |-> code, parent |-> table[code].parent, level |-> LevelOf(table, code),
     navigable |-> EffectivelyEnabled(table, code)]

-----------------------------------------------------------------------------
NoCursor == [after |-> -1]

\* A cursor is bound to the dataset and to the query it continues.
Cursor(dataset, query, after) == [dataset |-> dataset, query |-> query, after |-> after]

CursorFits(cursor, dataset, query) ==
    cursor = NoCursor \/ (cursor.dataset = dataset /\ cursor.query = query)

\* listNodes: the codes with a property, in the order of their sort key, from the
\* one after the cursor on; one more than a page is read to know whether it ends.
PageOf(table, dataset, query, codes, cursor) ==
    LET rows == {c \in codes : table[c].sort > cursor.after}
        before(c) == {d \in rows : table[d].sort < table[c].sort}
        shown == {c \in rows : Cardinality(before(c)) < PageSize}
        last == CHOOSE c \in shown : \A d \in shown : table[d].sort <= table[c].sort
    IN [items |-> {Summary(table, c) : c \in shown},
        next  |-> IF shown # rows THEN Cursor(dataset, query, table[last].sort) ELSE NoCursor]

-----------------------------------------------------------------------------
\* evaluateSelection: the verdict of the server on the codes a client sends, for a
\* dataset that is ready.
Verdict(table, codes, target) ==
    LET last == Last(codes)
        path == PathTo(table, last)
    IN IF \E c \in ToSet(codes) : c \notin DOMAIN table THEN "UNKNOWN_CODE"
       ELSE IF path # codes THEN "PARENT_MISMATCH"
       ELSE IF ~ EffectivelyEnabled(table, last) THEN "NOT_SELECTABLE"
       ELSE IF table[last].kind = "group"
            THEN IF target = 2 /\ Len(path) = 2 /\ last \in GroupExceptions
                 THEN "GROUP_ENDPOINT_EXCEPTION" ELSE "NAVIGATION_ONLY"
       ELSE IF Len(path) > target THEN "TARGET_LEVEL_EXCEEDED"
       ELSE IF Len(path) = target THEN "TARGET_REACHED"
       ELSE IF AllowEarly /\ ChildrenState(table, last) = "NONE_IN_SNAPSHOT"
            THEN "EARLY_TERMINATION_ACCEPTED" ELSE "TARGET_LEVEL_NOT_REACHED"

Accepting == {"GROUP_ENDPOINT_EXCEPTION", "TARGET_REACHED", "EARLY_TERMINATION_ACCEPTED"}
=============================================================================
