----------------------------- MODULE AddressRegions -----------------------------
(***************************************************************************)
(* The region data addr-parse-kit works on: the snapshot a host's provider  *)
(* hands over, the index built from it and the checks of a selected path    *)
(* against both.  Two providers are modelled: the one that reads area-kit   *)
(* page by page while operators go on editing the order of regions, and the *)
(* one that reads a JSON file.                                              *)
(*                                                                          *)
(* A table maps region codes to rows; names are sequences of words.         *)
(***************************************************************************)
EXTENDS AreaQuery

CONSTANTS
    Snapshots,      \* the tables of the versions of the dataset
    Levels          \* the levels a provider reads, 1..4 in the code

NoCode == "none"

\* The units without a government of their own are prefectures (CLASSIFICATION_EVIDENCE).
GroupsArePrefectures(table) ==
    \A c \in DOMAIN table : table[c].kind = "group" => LevelOf(table, c) = 2

\* What a row is told by, and the key that is no region's.
HasRows(table) ==
    /\ IsFiniteSet(DOMAIN table) /\ NoCode \notin DOMAIN table
    /\ \A c \in DOMAIN table :
         {"name", "source", "parent", "level", "kind", "sort"} \subseteq DOMAIN table[c]

ASSUME AddressRegionsConstants ==
    /\ 1 \in Levels /\ Levels \subseteq 1..4
    /\ \A v \in DOMAIN Snapshots : /\ HasRows(Snapshots[v]) /\ IsTree(Snapshots[v])
                                  /\ GroupsArePrefectures(Snapshots[v])

\* RegionNode
Node(table, code) == [code |-> code, name |-> table[code].name, level |-> LevelOf(table, code)]

Ancestors(table, code) == ToSet(PathTo(table, code)) \ {code}

\* filter: the elements of a sequence at some of its positions, in their order.
Filter(seq, at) ==
    [k \in 1..Cardinality(at) |->
        seq[CHOOSE i \in at : Cardinality({j \in at : j <= i}) = k]]

Filled(codes) == Filter(codes, {i \in DOMAIN codes : codes[i] # NoCode})

-----------------------------------------------------------------------------
\* buildRegionIndex: the nodes of a snapshot, whose parents must be among them.
Indexable(table, nodes) ==
    /\ nodes # {}
    /\ \A c \in nodes : table[c].parent = Root \/ table[c].parent \in nodes
    /\ \E c \in nodes : table[c].parent = Root /\ ChildrenOf(table, c) \cap nodes # {}

\* names: what may not be taken for the name of a person.
PlaceNames(table) == {table[c].name : c \in DOMAIN table} \cup {table[c].source : c \in DOMAIN table}

\* parseSnapshot: the rows of a JSON file, refused when there are none, one is
\* malformed or a code is there twice.
Parsable(file) == Len(file.codes) > 0 /\ ~ file.malformed /\ IsInjective(file.codes)

\* childrenOf: the regions a form offers below another one, without the units of
\* statistics.
Offered(table, parent) ==
    {[code |-> c, name |-> table[c].name, level |-> LevelOf(table, c), kind |-> table[c].kind] :
        c \in {d \in ChildrenOf(table, parent) : table[d].kind # "statisticalUnit"}}

-----------------------------------------------------------------------------
\* validateSelection: the codes exist, their levels go up, and all but the one in
\* the first position have an ancestor among those before them.
ValidSelection(table, codes) ==
    LET filled == Filled(codes)
        before(i) == SelectInSeq(filled, LAMBDA c : c = filled[i]) - 1
    IN /\ ToSet(filled) \subseteq DOMAIN table
       /\ \A i \in 2..Len(filled) : LevelOf(table, filled[i - 1]) < LevelOf(table, filled[i])
       /\ \A i \in 1..Len(filled) :
            codes[1] # filled[i] =>
                Ancestors(table, filled[i]) \cap ToSet(SubSeq(filled, 1, before(i))) # {}

\* Mutation: the codes are looked up and not compared with the path.
OnPathOfLastByCode(table, codes) ==
    LET filled == Filled(codes) IN
    /\ filled # << >>
    /\ ToSet(filled) \subseteq DOMAIN table

\* createSnapshotProvider.validatePath and createJsonSnapshotProvider.validatePath:
\* every code is on the path of the deepest one.
OnPathOfLast(table, codes) ==
    LET filled == Filled(codes) IN
    /\ filled # << >>
    /\ Last(filled) \in DOMAIN table
    /\ ToSet(filled) \subseteq ToSet(PathTo(table, Last(filled)))

\* createAreaKitProvider.validatePath: and in its order.
DownThePathOfLast(table, codes) ==
    LET filled == Filled(codes) IN
    /\ OnPathOfLast(table, codes)
    /\ \A i, j \in 1..Len(filled) :
         i < j => LevelOf(table, filled[i]) < LevelOf(table, filled[j])

-----------------------------------------------------------------------------
\* The load of a snapshot from area-kit: the provinces, then for each further level
\* the regions of that level below each province, page by page.
NoLoad == [version |-> NoCode, level |-> 0, provinces |-> << >>, at |-> 0,
           cursor |-> NoCursor, nodes |-> {}, counted |-> << >>]

StartLoad(version) ==
    [NoLoad EXCEPT !.version = version, !.level = 1, !.counted = [l \in Levels |-> 0]]

\* The query the load sends next.
LoadQuery(load) ==
    IF load.level = 1 THEN [level |-> 1, ancestor |-> NoCode]
    ELSE [level |-> load.level, ancestor |-> load.provinces[load.at]]

\* listRegions with level and ancestorCode
Matching(table, query) ==
    {c \in DOMAIN table : /\ LevelOf(table, c) = query.level
                          /\ query.ancestor # NoCode => query.ancestor \in Ancestors(table, c)}

\* add: rows seen before are passed over.
Collect(load, page) ==
    LET new == {item \in page.items : item.code \notin load.nodes} IN
    [load EXCEPT !.nodes = @ \cup {item.code : item \in new},
                 !.counted = [l \in Levels |-> @[l] + Cardinality({i \in new : i.level = l})],
                 !.cursor = page.next,
                 !.provinces = IF load.level = 1
                               THEN @ \o SetToSeq({i.code : i \in page.items}) ELSE @]

\* collect: the next page, or the first one of the next province or level.
NextLevel(load) == CHOOSE l \in Levels \cup {5} :
    l > load.level /\ \A m \in Levels : m > load.level => l <= m

Advance(load) ==
    IF load.cursor # NoCursor THEN load
    ELSE IF load.level # 1 /\ load.at < Len(load.provinces) THEN [load EXCEPT !.at = @ + 1]
    ELSE [load EXCEPT !.level = NextLevel(load), !.at = 1]

ReadPage(load, table) ==
    Advance(Collect(load, PageOf(table, load.version, LoadQuery(load),
                                 Matching(table, LoadQuery(load)), load.cursor)))

AllRead(load) == load.level = 5 \/ (load.level > 1 /\ load.provinces = << >>)

\* Mutation: the load asks only that no region was seen twice.
CountsUnchecked(load, table) == \A l \in Levels : load.counted[l] <= Cardinality(DOMAIN table)

\* levelCounts: the load is refused unless every level is as large as the dataset
\* says.
CountsAgree(load, table) ==
    \A l \in Levels : load.counted[l] = Cardinality({c \in DOMAIN table : LevelOf(table, c) = l})
=============================================================================
