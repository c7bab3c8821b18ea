---------------------- MODULE SmsAdministrationProofs ----------------------
(***************************************************************************)
(* Machine-checked proofs about SmsAdministration, for any set of requests, *)
(* any connections and any finite catalogue.                                *)
(***************************************************************************)
EXTENDS SmsAdministration, TLAPS, FiniteSetTheorems, SequenceTheorems, WellFoundedInduction

Kinds == Claimed \cup Unclaimed

Identifiers == Signatures \cup Templates \cup Keys

-----------------------------------------------------------------------------
(* The invariant: what the rows look like *)

ConfigRow == [status : {"unconfigured", "untested", "disabled", "ready", "degraded"},
              inputs : Inputs \cup {{}}, enabled : BOOLEAN,
              test : {"never", "succeeded", "failed"}, version : Nat]

Candidate == [type : {"signature", "template"}, id : Nat,
              status : {"approved", "rejected", "unavailable"},
              key : Nat, signature : Nat]

\* A candidate names resources there are; one that carries a selection names an imported template.
CandidateOK(c) ==
    /\ c \in Candidate
    /\ c.type = "signature" => c.id \in Signatures
    /\ c.type = "template" => c.id \in Templates /\ c.signature \in Signatures \cup {None}
    /\ c.type = "template" /\ c.key # None => c.id \in Known(templates)

SyncRow == [candidates : SUBSET Candidate, done : SUBSET Candidate]

RowsOK ==
    /\ config \in ConfigRow
    /\ TypeOK
    /\ \A t \in Known(templates) : templates[t].key \in Keys /\ templates[t].signature \in Known(signatures)
    /\ \A t \in Templates \ Known(templates) :
          templates[t].key = None /\ templates[t].signature = None /\ ~templates[t].enabled
    /\ syncs \in Seq(SyncRow)
    /\ \A i \in DOMAIN syncs : \A c \in syncs[i].candidates : CandidateOK(c)
    /\ \A m \in messages : m.template \in Known(templates)

\* The kinds of requests that come to a program counter.
KindsAt(pc) ==
    CASE pc = "begun" -> Unclaimed \cup {"preview"}
      [] pc = "claim" -> Claimed
      [] pc = "fenced" -> {"commit", "import", "updateTemplate", "testSend"}
      [] pc = "target" -> {"send", "testSend"}
      [] OTHER -> Kinds

InputOK(kind, in) ==
    /\ kind \in {"save", "patch"} => in.inputs \in Inputs
    /\ kind = "save" => in.version \in Nat /\ in.version <= config.version
    /\ kind = "commit" =>
          /\ in.sync \in Nat
          /\ \A c \in in.chosen : CandidateOK(c) /\ ~IsNewTemplate(c)
    /\ kind = "import" =>
          /\ in.sync \in Nat
          /\ in.id \in Templates
          /\ in.key \in Keys
          /\ in.signature \in Known(signatures)
    /\ kind = "updateSignature" => in.id \in Known(signatures)
    /\ kind = "updateTemplate" =>
          /\ in.id \in Known(templates)
          /\ in.rename \in Keys \cup {None}

ViewOK(kind, pc, in, view) ==
    /\ kind \in {"save", "legacyProbe"} /\ pc = "work" =>
          /\ view \in ConfigRow
          /\ view.version <= config.version
          /\ view.version = config.version => view = config
          /\ kind = "save" => in.version <= view.version
    /\ kind = "preview" /\ pc \in {"claim", "work"} => \A c \in view : CandidateOK(c)
    /\ kind \in {"send", "testSend"} /\ pc \in {"target", "work"} => view \in Known(templates)

RequestOK(r) ==
    /\ req[r].pc \in {"idle", "begun", "claim", "fenced", "target", "work", "done"}
    /\ req[r].pc = "idle" => req[r].kinds \subseteq Kinds
    /\ req[r].pc # "idle" =>
          /\ req[r] = [pc |-> req[r].pc, kind |-> req[r].kind, key |-> req[r].key,
                       in |-> req[r].in, view |-> req[r].view]
          /\ req[r].kind \in KindsAt(req[r].pc)
          /\ req[r].kind \in Claimed => req[r].key \in OperationKeys
          /\ InputOK(req[r].kind, req[r].in)
          /\ ViewOK(req[r].kind, req[r].pc, req[r].in, req[r].view)

TypeInv ==
    /\ RowsOK
    /\ DOMAIN req = Requests
    /\ \A r \in Requests : RequestOK(r)

-----------------------------------------------------------------------------
(* The order of the locks *)

Rows == {<<"operation", kind, key>> : kind \in Kinds, key \in OperationKeys}
        \cup {<<"config">>, <<"commits">>}
        \cup ({"sync", "signature-key", "template-code", "template-key", "template", "signature"} \X Nat)

Lock == [row : Rows, mode : {"exclusive", "shared"}]
HeldLock == [owner : Requests, row : Rows, mode : {"exclusive", "shared"}]

Span == Cardinality(Identifiers) + 1

\* The first rank of the rows of one name, and the rank of a row.
Floor(name) ==
    CASE name = "operation" -> 0
      [] name = "config" -> Span
      [] name = "sync" -> 2 * Span
      [] name = "commits" -> 3 * Span
      [] name = "signature-key" -> 4 * Span
      [] name = "template-code" -> 5 * Span
      [] name = "template-key" -> 6 * Span
      [] name = "template" -> 7 * Span
      [] name = "signature" -> 8 * Span

Rank(row) ==
    IF row[1] \in {"operation", "config", "sync", "commits"} THEN Floor(row[1])
    ELSE Floor(row[1]) + Place(row[2], Identifiers)

\* The list asks for its rows in this order, and they are between two ranks.
Ascending(list, floor, ceiling) ==
    /\ list \in Seq(Lock)
    /\ \A i \in 1 .. Len(list) : floor <= Rank(list[i].row) /\ Rank(list[i].row) < ceiling
    /\ \A i, j \in 1 .. Len(list) : i < j => Rank(list[i].row) < Rank(list[j].row)

Listed(lock, list) == \E i \in 1 .. Len(list) : list[i] = lock

Ceiling(r) ==
    CASE req[r].pc \in {"idle", "begun", "done"} -> 0
      [] req[r].pc = "claim" -> Span
      [] req[r].pc = "fenced" /\ IsKind(r, {"testSend"}) -> 2 * Span
      [] req[r].pc = "fenced" /\ IsKind(r, {"commit", "import"}) -> 7 * Span
      [] req[r].pc = "fenced" /\ IsKind(r, {"updateTemplate"}) -> 8 * Span
      [] req[r].pc = "target" -> 8 * Span
      [] OTHER -> 9 * Span

LockInv ==
    /\ DOMAIN todo = Requests
    /\ locks \subseteq HeldLock
    /\ \A k, l \in locks : k.owner # l.owner => ~Conflicting(k, l)
    /\ \A r \in Requests :
          /\ Ascending(todo[r], 0, Ceiling(r))
          /\ \A l \in locks : l.owner = r =>
                /\ Rank(l.row) < Ceiling(r)
                /\ \A i \in 1 .. Len(todo[r]) : Rank(l.row) < Rank(todo[r][i].row)

-----------------------------------------------------------------------------
(* The locks a request has *)

Holds(r, lock) == [owner |-> r, row |-> lock.row, mode |-> lock.mode] \in locks
Secured(r, lock) == Holds(r, lock) \/ Listed(lock, todo[r])

TemplateLock(t) == Exclusive(<<"template", t>>)
ReadLock(t) == Shared(<<"template", t>>)
ParentLock(s) == Exclusive(<<"signature-key", s>>)

Kept(r) ==
    /\ req[r].pc \in {"fenced", "target", "work"} /\ IsKind(r, Claimed) => Holds(r, OperationLock(req[r]))
    /\ req[r].pc \in {"target", "work"} /\ IsKind(r, {"testSend"}) => Holds(r, ConfigLock)
    /\ req[r].pc = "work" =>
          /\ IsKind(r, {"send", "testSend"}) => Holds(r, ReadLock(req[r].view))
          /\ IsKind(r, {"updateTemplate"}) => Holds(r, TemplateLock(In(r).id))
          /\ IsKind(r, {"commit"}) => \A s \in ScopeOf(r) \ {None} : Holds(r, ParentLock(s))
          /\ IsKind(r, {"import"}) => Holds(r, ParentLock(In(r).signature))

Wanted(r) ==
    /\ req[r].pc = "claim" => Secured(r, OperationLock(req[r]))
    /\ req[r].pc = "fenced" =>
          /\ IsKind(r, {"testSend"}) => Secured(r, ConfigLock)
          /\ IsKind(r, {"updateTemplate"}) => Secured(r, TemplateLock(In(r).id))
          /\ IsKind(r, {"commit"}) => \A s \in ScopeOf(r) \ {None} : Secured(r, ParentLock(s))
          /\ IsKind(r, {"import"}) => Secured(r, ParentLock(In(r).signature))
    /\ req[r].pc = "target" => Secured(r, ReadLock(req[r].view))
    /\ req[r].pc = "work" =>
          /\ IsKind(r, {"save", "legacyProbe", "patch", "probe"}) => Secured(r, ConfigLock)
          /\ IsKind(r, {"commit"}) =>
                \A t \in Known(templates) :
                   t \in ChosenOf(r, "template") \/ templates[t].signature \in ScopeOf(r) =>
                      Secured(r, TemplateLock(t))

HoldInv == \A r \in Requests : Kept(r) /\ Wanted(r)

-----------------------------------------------------------------------------
(* What was decided under them *)

Decided(r) ==
    /\ req[r].pc \in {"fenced", "target", "work"} /\ IsKind(r, Claimed) => Entries(r) = {}
    /\ req[r].pc \in {"target", "work"} /\ IsKind(r, {"testSend"}) =>
          config.status = "ready" /\ config.enabled /\ config.version = In(r).version
    /\ req[r].pc = "work" =>
          /\ IsKind(r, {"send", "testSend"}) =>
                UsableTemplate(req[r].view) /\ templates[req[r].view].key = In(r).key
          /\ IsKind(r, {"updateTemplate"}) =>
                /\ Flip(In(r).enabled, templates[In(r).id].enabled) => Approved(templates[In(r).id])
                /\ NextKey(r) # templates[In(r).id].key => ~IsUsed(In(r).id)

DecidedInv == \A r \in Requests : Decided(r)

AdministrationInv ==
    /\ TypeInv /\ LockInv /\ HoldInv
    /\ DecidedInv
    /\ SetupInv
    /\ OneEffectPerKey
-----------------------------------------------------------------------------
(* Lists of rows in ascending order *)

\* The places of the numbers of a finite set ascend with the numbers.
LEMMA PlacesAscend ==
    ASSUME NEW S \in SUBSET Nat, IsFiniteSet(S)
    PROVE  /\ Cardinality(S) \in Nat
           /\ \A x \in S : Place(x, S) \in 1 .. Cardinality(S)
           /\ \A x, y \in S : x < y => Place(x, S) < Place(y, S)
<1> DEFINE UpTo(x) == {y \in S : y <= x}
<1>1. Cardinality(S) \in Nat
  BY FS_CardinalityType
<1>2. ASSUME NEW x \in S
      PROVE  /\ IsFiniteSet(UpTo(x))
             /\ Cardinality(UpTo(x)) \in Nat
             /\ Cardinality(UpTo(x)) <= Cardinality(S)
             /\ Cardinality(UpTo(x)) # 0
  <2>1. UpTo(x) \in SUBSET S
    OBVIOUS
  <2>2. IsFiniteSet(UpTo(x)) /\ Cardinality(UpTo(x)) <= Cardinality(S)
    <3> HIDE DEF UpTo
    <3> QED  BY <2>1, FS_Subset
  <2>3. x \in UpTo(x)
    OBVIOUS
  <2> HIDE DEF UpTo
  <2>4. Cardinality(UpTo(x)) \in Nat
    BY <2>2, FS_CardinalityType
  <2>5. Cardinality(UpTo(x)) # 0
    BY <2>2, <2>3, FS_EmptySet
  <2> QED  BY <2>2, <2>4, <2>5
<1>3. ASSUME NEW x \in S, NEW y \in S, x < y
      PROVE  Cardinality(UpTo(x)) < Cardinality(UpTo(y))
  <2>0. x \in Nat /\ y \in Nat /\ x <= y /\ ~(y <= x)
    BY <1>3
  <2>1. UpTo(x) \in SUBSET UpTo(y) /\ y \in UpTo(y) /\ y \notin UpTo(x)
    <3>1. \A z \in S : z <= x => z <= y
      BY <2>0
    <3>2. \A z \in UpTo(x) : z \in UpTo(y)
      BY <3>1
    <3>3. y \in UpTo(y) /\ y \notin UpTo(x)
      BY <2>0
    <3> HIDE DEF UpTo
    <3> QED  BY <3>2, <3>3
  <2> HIDE DEF UpTo
  <2>2. /\ Cardinality(UpTo(x)) <= Cardinality(UpTo(y))
        /\ Cardinality(UpTo(y)) = Cardinality(UpTo(x)) => UpTo(y) = UpTo(x)
    BY <1>2, <2>1, FS_Subset
  <2>3. Cardinality(UpTo(x)) \in Nat /\ Cardinality(UpTo(y)) \in Nat
    BY <1>2
  <2> QED  BY <2>1, <2>2, <2>3
<1>4. \A x \in S : Place(x, S) = Cardinality(UpTo(x))
  BY DEF Place
<1> HIDE DEF UpTo
<1>5. \A x \in S : Place(x, S) \in 1 .. Cardinality(S)
  BY <1>1, <1>2, <1>4
<1>6. \A x, y \in S : x < y => Place(x, S) < Place(y, S)
  BY <1>3, <1>4
<1> QED  BY <1>1, <1>5, <1>6

\* Every place is taken, and the numbers at the places ascend.
LEMMA NumbersAscend ==
    ASSUME NEW S \in SUBSET Nat, IsFiniteSet(S)
    PROVE  /\ \A i \in 1 .. Cardinality(S) : Nth(i, S) \in S
           /\ \A i, j \in 1 .. Cardinality(S) : i < j => Nth(i, S) < Nth(j, S)
           /\ \A x \in S : \E i \in 1 .. Cardinality(S) : x = Nth(i, S)
<1> DEFINE n == Cardinality(S)
           f == [x \in S |-> Place(x, S)]
<1>1. /\ n \in Nat
      /\ \A x \in S : Place(x, S) \in 1 .. n
      /\ \A x, y \in S : x < y => Place(x, S) < Place(y, S)
  BY PlacesAscend
<1>2. \A x, y \in S : Place(x, S) = Place(y, S) => x = y
  <2> SUFFICES ASSUME NEW x \in S, NEW y \in S, Place(x, S) = Place(y, S), x # y  PROVE FALSE
    OBVIOUS
  <2>1. x < y \/ y < x
    OBVIOUS
  <2>2. Place(x, S) \in 1 .. n /\ Place(y, S) \in 1 .. n
    BY <1>1
  <2> HIDE DEF n
  <2> QED  BY <1>1, <2>1, <2>2
<1>3. \A i \in 1 .. n : \E x \in S : Place(x, S) = i
  <2>1. f \in [S -> 1 .. n]
    BY <1>1
  <2>2. f \in Injection(S, 1 .. n)
    BY <2>1, <1>2 DEF Injection, IsInjective
  <2>3. IsFiniteSet(1 .. n) /\ Cardinality(1 .. n) = n
    BY <1>1, FS_Interval
  <2> HIDE DEF f, n
  <2>4. Cardinality(S) = Cardinality(1 .. n) <=> f \in Surjection(S, 1 .. n)
    BY <2>2, <2>3, FS_Injection
  <2>5. f \in Surjection(S, 1 .. n)
    BY <2>3, <2>4 DEF n
  <2>6. \A i \in 1 .. n : \E x \in S : f[x] = i
    BY <2>5 DEF Surjection
  <2> QED  BY <2>6 DEF f
<1>4. \A i \in 1 .. n : Nth(i, S) \in S /\ Place(Nth(i, S), S) = i
  <2> SUFFICES ASSUME NEW i \in 1 .. n  PROVE Nth(i, S) \in S /\ Place(Nth(i, S), S) = i
    OBVIOUS
  <2>1. PICK x \in S : Place(x, S) = i
    BY <1>3
  <2> HIDE DEF n
  <2> QED  BY <2>1 DEF Nth
<1>5. \A x \in S : \E i \in 1 .. n : x = Nth(i, S)
  BY <1>1, <1>2, <1>4
<1>6. ASSUME NEW i \in 1 .. n, NEW j \in 1 .. n, i < j
      PROVE  Nth(i, S) < Nth(j, S)
  <2>1. Nth(i, S) \in S /\ Nth(j, S) \in S /\ Place(Nth(i, S), S) = i /\ Place(Nth(j, S), S) = j
    BY <1>4
  <2>2. Nth(j, S) < Nth(i, S) => j < i
    BY <1>1, <2>1
  <2>3. Nth(i, S) # Nth(j, S)
    BY <1>6, <2>1
  <2>4. Nth(i, S) \in Nat /\ Nth(j, S) \in Nat
    BY <2>1
  <2>5. ~(j < i)
    BY <1>1, <1>6
  <2> QED  BY <2>2, <2>3, <2>4, <2>5
<1> QED  BY <1>4, <1>5, <1>6

-----------------------------------------------------------------------------
(* Ranks *)

\* The identifiers of the catalogue are finitely many numbers.
LEMMA IdentifiersAreFinite == Identifiers \in SUBSET Nat /\ IsFiniteSet(Identifiers)
<1>1. IsFiniteSet(Signatures) /\ IsFiniteSet(Templates) /\ IsFiniteSet(Keys)
  BY IdentifiersAssumption
<1>2. IsFiniteSet(Signatures \cup Templates)
  BY <1>1, FS_Union
<1>3. IsFiniteSet((Signatures \cup Templates) \cup Keys)
  BY <1>1, <1>2, FS_Union
<1>4. Signatures \subseteq Nat /\ Templates \subseteq Nat /\ Keys \subseteq Nat
  BY IdentifiersAssumption
<1> QED  BY <1>3, <1>4 DEF Identifiers

\* There is room for every identifier between the first ranks of two names.
LEMMA SpanHasRoom ==
    /\ Span \in Nat \ {0}
    /\ \A x \in Identifiers : Place(x, Identifiers) \in 1 .. Span - 1
    /\ \A x, y \in Identifiers : x < y => Place(x, Identifiers) < Place(y, Identifiers)
<1>1. Identifiers \in SUBSET Nat /\ IsFiniteSet(Identifiers)
  BY IdentifiersAreFinite
<1>2. Cardinality(Identifiers) \in Nat
  BY <1>1, FS_CardinalityType
<1>3. /\ \A x \in Identifiers : Place(x, Identifiers) \in 1 .. Cardinality(Identifiers)
      /\ \A x, y \in Identifiers : x < y => Place(x, Identifiers) < Place(y, Identifiers)
  BY <1>1, PlacesAscend
<1>4. Span = Cardinality(Identifiers) + 1
  BY DEF Span
<1> QED  BY <1>2, <1>3, <1>4

\* Every row has a rank.
LEMMA RankIsNatural == \A row \in Rows : Rank(row) \in Nat
<1> SUFFICES ASSUME NEW row \in Rows  PROVE Rank(row) \in Nat
  OBVIOUS
<1>0. Span \in Nat
  BY SpanHasRoom
<1>1. \A name : name \in {"operation", "config", "sync", "commits", "signature-key", "template-code",
                          "template-key", "template", "signature"} => Floor(name) \in Nat
  BY <1>0 DEF Floor
<1>2. row[1] \in {"operation", "config", "sync", "commits", "signature-key", "template-code",
                  "template-key", "template", "signature"}
  BY DEF Rows
<1>3. Place(row[2], Identifiers) \in Nat
  <2>1. IsFiniteSet(Identifiers)
    BY IdentifiersAreFinite
  <2> DEFINE T == {y \in Identifiers : y <= row[2]}
  <2>2. T \in SUBSET Identifiers
    OBVIOUS
  <2>3. Place(row[2], Identifiers) = Cardinality(T)
    BY DEF Place
  <2> HIDE DEF T
  <2>4. IsFiniteSet(T)
    BY <2>1, <2>2, FS_Subset
  <2> QED  BY <2>3, <2>4, FS_CardinalityType
<1>4. Floor(row[1]) \in Nat
  BY <1>1, <1>2
<1> QED  BY <1>3, <1>4 DEF Rank

\* The names of the rows that have a number.
Numbered == {"signature-key", "template-code", "template-key", "template", "signature"}

\* A row with a number is between the first ranks of its name and of the next.
LEMMA RankOfNumbered ==
    ASSUME NEW name \in Numbered, NEW x \in Identifiers
    PROVE  /\ <<name, x>> \in Rows
           /\ Rank(<<name, x>>) = Floor(name) + Place(x, Identifiers)
           /\ Floor(name) <= Rank(<<name, x>>)
           /\ Rank(<<name, x>>) < Floor(name) + Span
<1>1. Span \in Nat /\ Place(x, Identifiers) \in 1 .. Span - 1
  BY SpanHasRoom
<1>2. Floor(name) \in Nat
  BY <1>1 DEF Floor, Numbered
<1>3. x \in Nat
  BY IdentifiersAssumption DEF Identifiers
<1>4. <<name, x>> \in Rows
  BY <1>3 DEF Rows, Numbered
<1>5. Rank(<<name, x>>) = Floor(name) + Place(x, Identifiers)
  BY DEF Rank, Numbered
<1> QED  BY <1>1, <1>2, <1>4, <1>5

-----------------------------------------------------------------------------
(* Lists of locks *)

\* Nothing to ask for.
LEMMA NothingAscends ==
    ASSUME NEW floor, NEW ceiling
    PROVE  Ascending(<<>>, floor, ceiling)
  BY DEF Ascending

\* A single lock.
LEMMA OneAscends ==
    ASSUME NEW lock \in Lock, NEW floor \in Nat, NEW ceiling \in Nat,
           floor <= Rank(lock.row), Rank(lock.row) < ceiling
    PROVE  Ascending(<<lock>>, floor, ceiling) /\ Listed(lock, <<lock>>)
<1>1. <<lock>> \in Seq(Lock) /\ Len(<<lock>>) = 1 /\ <<lock>>[1] = lock
  OBVIOUS
<1>2. \A i, j \in 1 .. 1 : ~(i < j)
  OBVIOUS
<1> QED  BY <1>1, <1>2 DEF Ascending, Listed

\* Wider bounds.
LEMMA WiderAscends ==
    ASSUME NEW list, NEW a \in Nat, NEW b \in Nat, NEW c \in Nat, NEW d \in Nat,
           Ascending(list, b, c), a <= b, c <= d
    PROVE  Ascending(list, a, d)
<1>1. \A i \in 1 .. Len(list) : list[i] \in Lock
  BY DEF Ascending
<1>2. \A lock \in Lock : Rank(lock.row) \in Nat
  BY RankIsNatural DEF Lock
<1>3. \A i \in 1 .. Len(list) : Rank(list[i].row) \in Nat
  BY <1>1, <1>2
<1> QED  BY <1>3 DEF Ascending

\* One list after another that is above it.
LEMMA ConcatAscends ==
    ASSUME NEW s, NEW t, NEW a \in Nat, NEW b \in Nat, NEW c \in Nat,
           Ascending(s, a, b), Ascending(t, b, c), a <= b, b <= c
    PROVE  /\ Ascending(s \o t, a, c)
           /\ \A lock : Listed(lock, s) \/ Listed(lock, t) => Listed(lock, s \o t)
<1>1. s \in Seq(Lock) /\ t \in Seq(Lock)
  BY DEF Ascending
<1>2. /\ s \o t \in Seq(Lock)
      /\ Len(s \o t) = Len(s) + Len(t)
      /\ Len(s) \in Nat /\ Len(t) \in Nat
      /\ \A i \in 1 .. Len(s) : (s \o t)[i] = s[i]
      /\ \A i \in 1 .. Len(t) : (s \o t)[Len(s) + i] = t[i]
  BY <1>1
<1>3. \A i \in 1 .. Len(s \o t) : Rank((s \o t)[i].row) \in Nat
  <2>1. \A i \in 1 .. Len(s \o t) : (s \o t)[i] \in Lock
    BY <1>2
  <2>2. \A lock \in Lock : Rank(lock.row) \in Nat
    BY RankIsNatural DEF Lock
  <2> QED  BY <2>1, <2>2
<1>4. \A i \in 1 .. Len(s \o t) :
         \/ i \in 1 .. Len(s) /\ (s \o t)[i] = s[i]
         \/ i - Len(s) \in 1 .. Len(t) /\ (s \o t)[i] = t[i - Len(s)] /\ i > Len(s)
  <2> SUFFICES ASSUME NEW i \in 1 .. Len(s \o t), ~(i \in 1 .. Len(s))
               PROVE  i - Len(s) \in 1 .. Len(t) /\ (s \o t)[i] = t[i - Len(s)] /\ i > Len(s)
    BY <1>2
  <2>1. i - Len(s) \in 1 .. Len(t) /\ i > Len(s) /\ Len(s) + (i - Len(s)) = i
    BY <1>2
  <2> QED  BY <1>2, <2>1
<1>5. \A i \in 1 .. Len(s) : a <= Rank(s[i].row) /\ Rank(s[i].row) < b
  BY DEF Ascending
<1>6. \A i \in 1 .. Len(t) : b <= Rank(t[i].row) /\ Rank(t[i].row) < c
  BY DEF Ascending
<1>7. \A i \in 1 .. Len(s \o t) : a <= Rank((s \o t)[i].row) /\ Rank((s \o t)[i].row) < c
  BY <1>3, <1>4, <1>5, <1>6
<1>8. ASSUME NEW i \in 1 .. Len(s \o t), NEW j \in 1 .. Len(s \o t), i < j
      PROVE  Rank((s \o t)[i].row) < Rank((s \o t)[j].row)
  <2>1. CASE j \in 1 .. Len(s) /\ (s \o t)[j] = s[j]
    <3>1. i \in 1 .. Len(s) /\ (s \o t)[i] = s[i]
      BY <1>2, <1>8, <2>1
    <3> QED  BY <1>8, <2>1, <3>1 DEF Ascending
  <2>2. CASE j - Len(s) \in 1 .. Len(t) /\ (s \o t)[j] = t[j - Len(s)] /\ j > Len(s)
    <3>1. CASE i \in 1 .. Len(s) /\ (s \o t)[i] = s[i]
      <4>1. Rank((s \o t)[i].row) < b
        BY <1>5, <3>1
      <4>2. b <= Rank((s \o t)[j].row)
        BY <1>6, <2>2
      <4>3. Rank((s \o t)[i].row) \in Nat /\ Rank((s \o t)[j].row) \in Nat
        BY <1>3
      <4> QED  BY <4>1, <4>2, <4>3
    <3>2. CASE i - Len(s) \in 1 .. Len(t) /\ (s \o t)[i] = t[i - Len(s)] /\ i > Len(s)
      <4>1. i - Len(s) < j - Len(s)
        BY <1>2, <1>8
      <4> QED  BY <2>2, <3>2, <4>1 DEF Ascending
    <3> QED  BY <1>4, <3>1, <3>2
  <2> QED  BY <1>4, <2>1, <2>2
<1>9. ASSUME NEW lock, Listed(lock, s) \/ Listed(lock, t)
      PROVE  Listed(lock, s \o t)
  <2>1. CASE Listed(lock, s)
    <3>1. PICK i \in 1 .. Len(s) : s[i] = lock
      BY <2>1 DEF Listed
    <3> QED  BY <1>2, <3>1 DEF Listed
  <2>2. CASE Listed(lock, t)
    <3>1. PICK i \in 1 .. Len(t) : t[i] = lock
      BY <2>2 DEF Listed
    <3>2. Len(s) + i \in 1 .. Len(s \o t) /\ (s \o t)[Len(s) + i] = lock
      BY <1>2, <3>1
    <3> QED  BY <3>2 DEF Listed
  <2> QED  BY <1>9, <2>1, <2>2
<1> QED  BY <1>2, <1>7, <1>8, <1>9 DEF Ascending

\* The rows of one name.
LEMMA AllOfAscends ==
    ASSUME NEW name \in Numbered, NEW S \in SUBSET Identifiers
    PROVE  /\ Ascending(AllOf(name, S), Floor(name), Floor(name) + Span)
           /\ \A x \in S : Listed(Exclusive(<<name, x>>), AllOf(name, S))
<1> DEFINE n == Cardinality(S)
           list == AllOf(name, S)
<1>1. Identifiers \in SUBSET Nat /\ IsFiniteSet(Identifiers)
  BY IdentifiersAreFinite
<1>2. S \in SUBSET Nat /\ IsFiniteSet(S) /\ n \in Nat
  BY <1>1, FS_Subset, FS_CardinalityType
<1>3. /\ \A i \in 1 .. n : Nth(i, S) \in S
      /\ \A i, j \in 1 .. n : i < j => Nth(i, S) < Nth(j, S)
      /\ \A x \in S : \E i \in 1 .. n : x = Nth(i, S)
  BY <1>2, NumbersAscend
<1>4. \A i \in 1 .. n : list[i] = Exclusive(<<name, Nth(i, S)>>)
  BY DEF AllOf
<1>5. \A x \in S : Exclusive(<<name, x>>) \in Lock
  BY RankOfNumbered DEF Exclusive, Lock
<1>6. list \in [1 .. n -> Lock]
  BY <1>3, <1>5 DEF AllOf
<1>7. list \in Seq(Lock) /\ Len(list) = n
  <2> HIDE DEF list, n
  <2> QED  BY <1>2, <1>6
<1> HIDE DEF n, list
<1>8. \A i \in 1 .. n : list[i].row = <<name, Nth(i, S)>>
  <2>1. \A row : Exclusive(row).row = row
    BY DEF Exclusive
  <2> QED  BY <1>4, <2>1
<1>9. \A i \in 1 .. n :
         /\ Rank(list[i].row) = Floor(name) + Place(Nth(i, S), Identifiers)
         /\ Floor(name) <= Rank(list[i].row)
         /\ Rank(list[i].row) < Floor(name) + Span
  BY <1>3, <1>8, RankOfNumbered
<1>10. ASSUME NEW i \in 1 .. n, NEW j \in 1 .. n, i < j
       PROVE  Rank(list[i].row) < Rank(list[j].row)
  <2>1. Place(Nth(i, S), Identifiers) < Place(Nth(j, S), Identifiers)
    BY <1>3, <1>10, SpanHasRoom
  <2>2. Place(Nth(i, S), Identifiers) \in Nat /\ Place(Nth(j, S), Identifiers) \in Nat
    BY <1>3, SpanHasRoom
  <2>3. Floor(name) \in Nat
    BY SpanHasRoom DEF Floor, Numbered
  <2> QED  BY <1>9, <2>1, <2>2, <2>3
<1>11. Ascending(list, Floor(name), Floor(name) + Span)
  BY <1>7, <1>9, <1>10 DEF Ascending
<1>12. \A x \in S : Listed(Exclusive(<<name, x>>), list)
  BY <1>3, <1>4, <1>7 DEF Listed
<1> QED  BY <1>11, <1>12 DEF list

-----------------------------------------------------------------------------
(* The rows only grow *)

\* What no step takes away: known rows stay known under their signature, and the
\* configuration does not change without a new version.
RowsGrow ==
    /\ \A s \in Known(signatures) : s \in Known(signatures)'
    /\ \A t \in Known(templates) : t \in Known(templates)' /\ templates'[t].signature = templates[t].signature
    /\ config.version <= config'.version
    /\ config'.version = config.version => config' = config

\* A candidate stays as it should be.
LEMMA CandidatesStay ==
    ASSUME RowsGrow, NEW c, CandidateOK(c)
    PROVE  CandidateOK(c)'
  BY DEF RowsGrow, CandidateOK

\* An input stays as it should be.
LEMMA InputsStay ==
    ASSUME RowsGrow, config.version \in Nat, config'.version \in Nat,
           NEW kind, NEW in, InputOK(kind, in)
    PROVE  InputOK(kind, in)'
<1>1. kind = "save" => in.version \in Nat /\ in.version <= config'.version
  BY DEF InputOK, RowsGrow
<1>2. kind = "commit" => \A c \in in.chosen : CandidateOK(c)' /\ ~IsNewTemplate(c)
  BY CandidatesStay DEF InputOK
<1>3. kind = "import" => in.signature \in Known(signatures)'
  BY DEF InputOK, RowsGrow
<1>4. kind = "updateSignature" => in.id \in Known(signatures)'
  BY DEF InputOK, RowsGrow
<1>5. kind = "updateTemplate" => in.id \in Known(templates)'
  BY DEF InputOK, RowsGrow
<1> QED  BY <1>1, <1>2, <1>3, <1>4, <1>5 DEF InputOK, IsNewTemplate

\* A request that does nothing stays as it should be.
LEMMA RequestsStay ==
    ASSUME TypeInv, RowsGrow, config'.version \in Nat, NEW r \in Requests, req'[r] = req[r]
    PROVE  RequestOK(r)'
<1>1. RequestOK(r)
  BY DEF TypeInv
<1>2. config.version \in Nat
  BY DEF TypeInv, RowsOK, ConfigRow
<1>3. CASE req[r].pc = "idle"
  BY <1>1, <1>3 DEF RequestOK
<1>4. CASE req[r].pc # "idle"
  <2> PICK x : x = req[r]
    OBVIOUS
  <2>1. InputOK(x.kind, x.in) /\ ViewOK(x.kind, x.pc, x.in, x.view)
    BY <1>1, <1>4 DEF RequestOK
  <2>2. InputOK(x.kind, x.in)'
    BY <1>2, <2>1, InputsStay
  <2>3. ViewOK(x.kind, x.pc, x.in, x.view)'
    <3>1. ASSUME x.kind \in {"save", "legacyProbe"}, x.pc = "work"
          PROVE  /\ x.view \in ConfigRow
                 /\ x.view.version <= config'.version
                 /\ x.view.version = config'.version => x.view = config'
                 /\ x.kind = "save" => x.in.version <= x.view.version
      <4>1. /\ x.view \in ConfigRow /\ x.view.version <= config.version
            /\ x.view.version = config.version => x.view = config
            /\ x.kind = "save" => x.in.version <= x.view.version
        BY <2>1, <3>1 DEF ViewOK
      <4>2. x.view.version \in Nat
        BY <4>1 DEF ConfigRow
      <4> QED  BY <1>2, <4>1, <4>2 DEF RowsGrow
    <3>2. ASSUME x.kind = "preview", x.pc \in {"claim", "work"}
          PROVE  \A c \in x.view : CandidateOK(c)'
      BY <2>1, <3>2, CandidatesStay DEF ViewOK
    <3>3. ASSUME x.kind \in {"send", "testSend"}, x.pc \in {"target", "work"}
          PROVE  x.view \in Known(templates)'
      BY <2>1, <3>3 DEF ViewOK, RowsGrow
    <3> QED  BY <3>1, <3>2, <3>3 DEF ViewOK
  <2> QED  BY <1>1, <1>4, <2>2, <2>3 DEF RequestOK
<1> QED  BY <1>3, <1>4

\* One request moves, and the rows are as they should be.
LEMMA OneMoves ==
    ASSUME TypeInv, RowsOK', RowsGrow, NEW r \in Requests,
           DOMAIN req' = Requests, \A q \in Requests \ {r} : req'[q] = req[q],
           RequestOK(r)'
    PROVE  TypeInv' /\ RowsGrow
<1>1. config'.version \in Nat
  BY DEF RowsOK, ConfigRow
<1>2. \A q \in Requests : RequestOK(q)'
  BY <1>1, RequestsStay
<1> QED  BY <1>2 DEF TypeInv

\* A step that writes no row keeps the rows as they should be.
LEMMA SameRows ==
    ASSUME TypeInv, UNCHANGED data
    PROVE  RowsOK' /\ RowsGrow
<1>1. RowsOK
  BY DEF TypeInv
<1>2. /\ config' = config /\ signatures' = signatures /\ templates' = templates
      /\ syncs' = syncs /\ messages' = messages
  BY DEF data
<1>3. \A c : CandidateOK(c)' <=> CandidateOK(c)
  BY <1>2 DEF CandidateOK, Known
<1>4. RowsOK'
  BY <1>1, <1>2, <1>3 DEF RowsOK, TypeOK, Known
<1>5. config.version \in Nat
  BY <1>1 DEF RowsOK, ConfigRow
<1>6. RowsGrow
  BY <1>2, <1>5 DEF RowsGrow, Known
<1> QED  BY <1>4, <1>6

\* A request moves with something it has seen.
Sees(r, view, pc) == req' = [req EXCEPT ![r].view = view, ![r].pc = pc]

\* A request that has begun has its fields, and writing one leaves the others.
LEMMA FieldsStay ==
    ASSUME TypeInv, NEW r \in Requests, req[r].pc # "idle", NEW pc, NEW view,
           Sees(r, view, pc)
    PROVE  /\ DOMAIN req' = Requests
           /\ \A q \in Requests \ {r} : req'[q] = req[q]
           /\ req'[r] = [pc |-> pc, kind |-> req[r].kind, key |-> req[r].key,
                         in |-> req[r].in, view |-> view]
<1>1. req[r] = [pc |-> req[r].pc, kind |-> req[r].kind, key |-> req[r].key,
                in |-> req[r].in, view |-> req[r].view]
  BY DEF TypeInv, RequestOK
<1>2. PICK x : x = req[r]
  OBVIOUS
<1>3. DOMAIN req = Requests
  BY DEF TypeInv
<1>4. req' = [req EXCEPT ![r] = [[x EXCEPT !.view = view] EXCEPT !.pc = pc]]
  BY <1>2, <1>3 DEF Sees
<1>5. x = [pc |-> x.pc, kind |-> x.kind, key |-> x.key, in |-> x.in, view |-> x.view]
  BY <1>1, <1>2
<1>6. [x EXCEPT !.view = view] = [pc |-> x.pc, kind |-> x.kind, key |-> x.key, in |-> x.in, view |-> view]
  BY <1>5
<1>7. PICK y : y = [x EXCEPT !.view = view]
  OBVIOUS
<1>8. y = [pc |-> x.pc, kind |-> x.kind, key |-> x.key, in |-> x.in, view |-> view]
  BY <1>6, <1>7
<1>9. /\ y = [pc |-> y.pc, kind |-> y.kind, key |-> y.key, in |-> y.in, view |-> y.view]
      /\ y.kind = x.kind /\ y.key = x.key /\ y.in = x.in /\ y.view = view
  BY <1>8
<1>10. [y EXCEPT !.pc = pc] = [pc |-> pc, kind |-> y.kind, key |-> y.key, in |-> y.in, view |-> y.view]
  BY ONLY <1>9
<1> QED  BY <1>2, <1>3, <1>4, <1>7, <1>9, <1>10

\* The same for a step of a request that writes its program counter only.
LEMMA OthersStay ==
    ASSUME TypeInv, NEW r \in Requests, req[r].pc # "idle", NEW pc, req' = [req EXCEPT ![r].pc = pc]
    PROVE  /\ DOMAIN req' = Requests
           /\ \A q \in Requests \ {r} : req'[q] = req[q]
           /\ req'[r] = [pc |-> pc, kind |-> req[r].kind, key |-> req[r].key,
                         in |-> req[r].in, view |-> req[r].view]
<1>1. req[r] = [pc |-> req[r].pc, kind |-> req[r].kind, key |-> req[r].key,
                in |-> req[r].in, view |-> req[r].view]
  BY DEF TypeInv, RequestOK
<1>2. PICK x : x = req[r]
  OBVIOUS
<1>3. DOMAIN req = Requests
  BY DEF TypeInv
<1>4. req'[r] = [x EXCEPT !.pc = pc]
  BY <1>2, <1>3
<1>5. x = [pc |-> x.pc, kind |-> x.kind, key |-> x.key, in |-> x.in, view |-> x.view]
  BY <1>1, <1>2
<1>6. [x EXCEPT !.pc = pc] = [pc |-> pc, kind |-> x.kind, key |-> x.key, in |-> x.in, view |-> x.view]
  BY <1>5
<1> QED  BY <1>2, <1>3, <1>4, <1>6

-----------------------------------------------------------------------------
(* Steps that write no row keep the types *)

\* What does not change is as it should be after a step, too.
LEMMA SameInputs ==
    ASSUME UNCHANGED data, NEW kind, NEW pc, NEW in, NEW view
    PROVE  /\ InputOK(kind, in)' <=> InputOK(kind, in)
           /\ ViewOK(kind, pc, in, view)' <=> ViewOK(kind, pc, in, view)
<1>1. /\ config' = config /\ signatures' = signatures /\ templates' = templates
      /\ syncs' = syncs /\ messages' = messages
  BY DEF data
<1>2. \A c : CandidateOK(c)' <=> CandidateOK(c)
  BY <1>1 DEF CandidateOK, Known
<1>3. InputOK(kind, in)' <=> InputOK(kind, in)
  BY <1>1, <1>2 DEF InputOK, Known
<1>4. ViewOK(kind, pc, in, view)' <=> ViewOK(kind, pc, in, view)
  BY <1>1, <1>2 DEF ViewOK, Known
<1> QED  BY <1>3, <1>4

\* A request that moves without writing a row.
LEMMA QuietMove ==
    ASSUME TypeInv, UNCHANGED data, NEW r \in Requests, req[r].pc # "idle", NEW pc, NEW view,
           DOMAIN req' = Requests, \A q \in Requests \ {r} : req'[q] = req[q],
           req'[r] = [pc |-> pc, kind |-> req[r].kind, key |-> req[r].key,
                      in |-> req[r].in, view |-> view],
           pc \in {"begun", "claim", "fenced", "target", "work", "done"},
           req[r].kind \in KindsAt(pc),
           ViewOK(req[r].kind, pc, req[r].in, view)
    PROVE  TypeInv' /\ RowsGrow
<1>1. PICK x : x = req[r]
  OBVIOUS
<1>2. InputOK(x.kind, x.in) /\ (x.kind \in Claimed => x.key \in OperationKeys)
  BY <1>1 DEF TypeInv, RequestOK
<1>3. InputOK(x.kind, x.in)' /\ ViewOK(x.kind, pc, x.in, view)'
  BY <1>1, <1>2, SameInputs
<1>4. PICK y : y = [pc |-> pc, kind |-> x.kind, key |-> x.key, in |-> x.in, view |-> view]
  OBVIOUS
<1>5. /\ y = [pc |-> y.pc, kind |-> y.kind, key |-> y.key, in |-> y.in, view |-> y.view]
      /\ y.pc = pc /\ y.kind = x.kind /\ y.key = x.key /\ y.in = x.in /\ y.view = view
  BY <1>4
<1>6. req'[r] = y
  BY <1>1, <1>4
<1>7. RequestOK(r)'
  BY <1>1, <1>2, <1>3, <1>5, <1>6 DEF RequestOK
<1> QED  BY <1>7, SameRows, OneMoves

\* The inputs a caller could have are as they should be.
LEMMA InputsAreOK ==
    ASSUME RowsOK, NEW kind \in Kinds, NEW in \in InputsOf(kind)
    PROVE  InputOK(kind, in)
<1>1. config.version \in Nat
  BY DEF RowsOK, ConfigRow
<1>2. CASE kind = "save"
  <2>1. in \in [inputs : Inputs, enabled : {"on", "off"}, version : {config.version}]
    BY <1>2 DEF InputsOf
  <2>2. in.inputs \in Inputs /\ in.version = config.version
    BY <2>1
  <2> QED  BY <1>1, <1>2, <2>2 DEF InputOK
<1>3. CASE kind = "patch"
  <2>1. in \in [inputs : Inputs, enabled : Switch, version : {config.version}]
    BY <1>3 DEF InputsOf
  <2>2. in.inputs \in Inputs
    BY <2>1
  <2> QED  BY <1>3, <2>2 DEF InputOK
<1>4. CASE kind = "commit"
  <2>1. in \in UNION {[version : {config.version}, sync : {i},
                       chosen : (SUBSET {c \in syncs[i].candidates : ~IsNewTemplate(c)}) \ {{}}] :
                      i \in DOMAIN syncs}
    BY <1>4 DEF InputsOf
  <2>2. PICK i \in DOMAIN syncs :
           in \in [version : {config.version}, sync : {i},
                   chosen : (SUBSET {c \in syncs[i].candidates : ~IsNewTemplate(c)}) \ {{}}]
    BY <2>1
  <2>3. in.sync = i /\ \A c \in in.chosen : c \in syncs[i].candidates /\ ~IsNewTemplate(c)
    BY <2>2
  <2>4. \A c \in syncs[i].candidates : CandidateOK(c)
    BY DEF RowsOK
  <2>5. i \in Nat
    BY DEF RowsOK
  <2> QED  BY <1>4, <2>3, <2>4, <2>5 DEF InputOK
<1>5. CASE kind = "import"
  <2> DEFINE Of(i, s) == [sync : {i}, id : {c.id : c \in {c \in syncs[i].candidates : IsNewTemplate(c)}},
                          key : Keys, signature : {s}, version : {signatures[s].version}]
  <2>1. in \in UNION {Of(i, s) : i \in DOMAIN syncs, s \in Known(signatures)}
    BY <1>5 DEF InputsOf
  <2> HIDE DEF Of
  <2>2. PICK i \in DOMAIN syncs, s \in Known(signatures) : in \in Of(i, s)
    BY <2>1
  <2> USE DEF Of
  <2>3. /\ in.sync = i /\ in.key \in Keys /\ in.signature = s
        /\ \E c \in syncs[i].candidates : IsNewTemplate(c) /\ in.id = c.id
    BY <2>2
  <2>4. \A c \in syncs[i].candidates : CandidateOK(c)
    BY DEF RowsOK
  <2>5. in.id \in Templates
    BY <2>3, <2>4 DEF CandidateOK, IsNewTemplate
  <2>6. i \in Nat
    BY DEF RowsOK
  <2> QED  BY <1>5, <2>3, <2>5, <2>6 DEF InputOK
<1>6. CASE kind = "updateSignature"
  <2>1. in \in UNION {[id : {s}, enabled : {"on", "off"}, version : {signatures[s].version}] :
                      s \in Known(signatures)}
    BY <1>6 DEF InputsOf
  <2>2. in.id \in Known(signatures)
    BY <2>1
  <2> QED  BY <1>6, <2>2 DEF InputOK
<1>7. CASE kind = "updateTemplate"
  <2>1. in \in UNION {[id : {t}, enabled : Switch, rename : Keys \cup {None},
                       version : {templates[t].version}] :
                      t \in Known(templates)}
    BY <1>7 DEF InputsOf
  <2>2. in.id \in Known(templates) /\ in.rename \in Keys \cup {None}
    BY <2>1
  <2> QED  BY <1>7, <2>2 DEF InputOK
<1>8. CASE kind \notin {"save", "patch", "commit", "import", "updateSignature", "updateTemplate"}
  BY <1>8 DEF InputOK
<1> QED  BY <1>2, <1>3, <1>4, <1>5, <1>6, <1>7, <1>8

\* A request starts with an input that is as it should be.
LEMMA StartTypes ==
    ASSUME TypeInv, NEW r \in Requests, NEW kind \in Kinds, NEW key, NEW in,
           kind \in Claimed => key \in OperationKeys, InputOK(kind, in), Start(r, kind, key, in)
    PROVE  TypeInv' /\ RowsGrow
<1>1. PICK pc : pc = IF kind \in Claimed \ {"preview"} THEN "claim" ELSE "begun"
  OBVIOUS
<1>2. PICK y : y = [pc |-> pc, kind |-> kind, key |-> key, in |-> in, view |-> {}]
  OBVIOUS
<1>3. req' = [req EXCEPT ![r] = y] /\ UNCHANGED data
  BY <1>1, <1>2 DEF Start
<1>4. /\ y = [pc |-> y.pc, kind |-> y.kind, key |-> y.key, in |-> y.in, view |-> y.view]
      /\ y.pc = pc /\ y.kind = kind /\ y.key = key /\ y.in = in /\ y.view = {}
  BY <1>2
<1>5. DOMAIN req' = Requests /\ req'[r] = y /\ \A q \in Requests \ {r} : req'[q] = req[q]
  BY <1>3 DEF TypeInv
<1>6. pc \in {"claim", "begun"} /\ kind \in KindsAt(pc)
  BY <1>1 DEF KindsAt, Kinds, Claimed, Unclaimed
<1>7. ViewOK(kind, pc, in, {})
  BY <1>1 DEF ViewOK, Claimed
<1>8. InputOK(kind, in)' /\ ViewOK(kind, pc, in, {})'
  BY <1>3, <1>7, SameInputs
<1>9. RequestOK(r)'
  BY <1>4, <1>5, <1>6, <1>8 DEF RequestOK
<1> QED  BY <1>3, <1>5, <1>9, SameRows, OneMoves

\* A request begins or is repeated.
LEMMA BeginTypes ==
    ASSUME TypeInv, NEW r \in Requests, Begin(r) \/ \E q \in Requests : Repeat(r, q)
    PROVE  TypeInv' /\ RowsGrow
<1>1. CASE Begin(r)
  <2>1. PICK kind \in req[r].kinds :
           \E in \in InputsOf(kind), key \in IF kind \in Claimed THEN OperationKeys ELSE {None} :
              Start(r, kind, key, in)
    BY <1>1 DEF Begin
  <2>2. PICK in \in InputsOf(kind), key \in IF kind \in Claimed THEN OperationKeys ELSE {None} :
           Start(r, kind, key, in)
    BY <2>1
  <2>3. kind \in Kinds
    BY <1>1 DEF Begin, TypeInv, RequestOK
  <2>4. InputOK(kind, in)
    BY <2>3, InputsAreOK DEF TypeInv
  <2>5. kind \in Claimed => key \in OperationKeys
    BY <2>2
  <2> QED  BY <2>2, <2>3, <2>4, <2>5, StartTypes
<1>2. ASSUME NEW q \in Requests, Repeat(r, q)
      PROVE  TypeInv' /\ RowsGrow
  <2>1. req[q].pc # "idle" /\ req[q].kind \in Claimed /\ Start(r, req[q].kind, req[q].key, req[q].in)
    BY <1>2 DEF Repeat, IsKind, In
  <2>2. PICK x : x = req[q]
    OBVIOUS
  <2>3. InputOK(x.kind, x.in) /\ x.key \in OperationKeys
    BY <2>1, <2>2 DEF TypeInv, RequestOK
  <2>4. x.kind \in Kinds
    BY <2>1, <2>2 DEF Kinds
  <2> QED  BY <2>1, <2>2, <2>3, <2>4, StartTypes
<1> QED  BY <1>1, <1>2

\* A request ends without having written a row.
LEMMA EndTypes ==
    ASSUME TypeInv, NEW r \in Requests, GiveUp(r) \/ Replay(r)
    PROVE  TypeInv' /\ RowsGrow
<1>1. req[r].pc # "idle" /\ req' = [req EXCEPT ![r].pc = "done"] /\ UNCHANGED data
  BY DEF GiveUp, Replay, Begun, At, Finish, Goto
<1>2. /\ DOMAIN req' = Requests
      /\ \A q \in Requests \ {r} : req'[q] = req[q]
      /\ req'[r] = [pc |-> "done", kind |-> req[r].kind, key |-> req[r].key,
                    in |-> req[r].in, view |-> req[r].view]
  BY <1>1, OthersStay
<1>3. req[r].kind \in KindsAt("done")
  BY <1>1 DEF TypeInv, RequestOK, KindsAt, Kinds, Claimed, Unclaimed
<1>4. PICK x : x = req[r]
  OBVIOUS
<1>5. ViewOK(x.kind, "done", x.in, x.view)
  BY DEF ViewOK
<1> QED  BY <1>1, <1>2, <1>3, <1>4, <1>5, QuietMove

\* What is read before a transaction is what is written in the row then.
LEMMA ReadBeforeTypes ==
    ASSUME TypeInv, NEW r \in Requests, ReadBefore(r)
    PROVE  TypeInv' /\ RowsGrow
<1>1. /\ req[r].pc = "begun" /\ req[r].kind \in {"save", "legacyProbe"} /\ UNCHANGED data
  BY DEF ReadBefore, At, IsKind
<1>0. req[r].pc # "idle"
  BY <1>1
<1>9. Sees(r, config, "work")
  BY DEF ReadBefore, Sees
<1>2. PICK x : x = req[r]
  OBVIOUS
<1>3. /\ DOMAIN req' = Requests
      /\ \A q \in Requests \ {r} : req'[q] = req[q]
      /\ req'[r] = [pc |-> "work", kind |-> req[r].kind, key |-> req[r].key,
                    in |-> req[r].in, view |-> config]
  BY <1>0, <1>9, FieldsStay
<1>4. InputOK(x.kind, x.in)
  BY <1>1, <1>2 DEF TypeInv, RequestOK
<1>5. config \in ConfigRow /\ config.version <= config.version
  BY DEF TypeInv, RowsOK, ConfigRow
<1>6. ViewOK(x.kind, "work", x.in, config)
  BY <1>1, <1>2, <1>4, <1>5 DEF ViewOK, InputOK
<1>7. x.kind \in KindsAt("work")
  BY <1>1, <1>2 DEF KindsAt, Kinds, Unclaimed
<1> QED  BY <1>1, <1>2, <1>3, <1>6, <1>7, QuietMove

\* A discovery yields candidates that are as they should be.
LEMMA DiscoveredAreOK ==
    ASSUME RowsOK,
           NEW remoteSignatures \in [Signatures -> {"absent", "approved", "rejected"}],
           NEW remoteTemplates \in [Templates -> {"absent", "approved", "rejected"}],
           NEW refreshed,
           NEW c \in Discovery(remoteSignatures, remoteTemplates, refreshed)
    PROVE  CandidateOK(c)
<1>1. Signatures \subseteq Nat /\ Templates \subseteq Nat /\ Keys \subseteq Nat /\ None \in Nat
  BY IdentifiersAssumption DEF None
<1>2. Known(signatures) \subseteq Signatures /\ Known(templates) \subseteq Templates
  BY DEF Known, RowsOK, TypeOK
<1>3. ASSUME NEW s \in Signatures, NEW status \in {"approved", "rejected", "unavailable"}
      PROVE  CandidateOK(SignatureCandidate(s, status))
  BY <1>1 DEF CandidateOK, SignatureCandidate, Candidate
<1>4. ASSUME NEW t \in Templates, NEW status \in {"approved", "rejected", "unavailable"}
      PROVE  CandidateOK(TemplateCandidate(t, status))
  <2>1. templates[t].key \in Nat /\ templates[t].signature \in Nat /\ templates[t].signature \in Signatures \cup {None}
    BY <1>1 DEF RowsOK, TypeOK, TemplateRow
  <2>2. templates[t].key # None => t \in Known(templates)
    BY DEF RowsOK
  <2> QED  BY <1>1, <2>1, <2>2 DEF CandidateOK, TemplateCandidate, Candidate
<1>5. \/ \E s \in Signatures : /\ remoteSignatures[s] # "absent"
                               /\ c = SignatureCandidate(s, remoteSignatures[s])
      \/ \E s \in Known(signatures) : c = SignatureCandidate(s, "unavailable")
      \/ \E t \in Templates : /\ remoteTemplates[t] # "absent"
                              /\ c = TemplateCandidate(t, remoteTemplates[t])
      \/ \E t \in Known(templates) : c = TemplateCandidate(t, "unavailable")
  BY DEF Discovery
<1> QED  BY <1>2, <1>3, <1>4, <1>5

\* A preview discovers what the provider lists.
LEMMA DiscoverTypes ==
    ASSUME TypeInv, NEW r \in Requests, Discover(r)
    PROVE  TypeInv' /\ RowsGrow
<1>1. req[r].pc = "begun" /\ req[r].kind = "preview" /\ UNCHANGED data
  BY DEF Discover, At, IsKind
<1>0. req[r].pc # "idle"
  BY <1>1
<1>2. PICK remoteSignatures \in [Signatures -> {"absent", "approved", "rejected"}],
           remoteTemplates \in [Templates -> {"absent", "approved", "rejected"}],
           refreshed \in SUBSET Known(templates) :
           Sees(r, Discovery(remoteSignatures, remoteTemplates, refreshed), "claim")
  BY DEF Discover, Sees
<1>3. PICK found : found = Discovery(remoteSignatures, remoteTemplates, refreshed)
  OBVIOUS
<1>4. \A c \in found : CandidateOK(c)
  BY <1>3, DiscoveredAreOK DEF TypeInv
<1>5. Sees(r, found, "claim")
  BY <1>2, <1>3
<1>6. /\ DOMAIN req' = Requests
      /\ \A q \in Requests \ {r} : req'[q] = req[q]
      /\ req'[r] = [pc |-> "claim", kind |-> req[r].kind, key |-> req[r].key,
                    in |-> req[r].in, view |-> found]
  BY <1>0, <1>5, FieldsStay
<1>7. PICK x : x = req[r]
  OBVIOUS
<1>8. ViewOK(x.kind, "claim", x.in, found)
  BY <1>1, <1>4, <1>7 DEF ViewOK
<1>9. x.kind \in KindsAt("claim")
  BY <1>1, <1>7 DEF KindsAt, Claimed
<1> QED  BY <1>1, <1>6, <1>7, <1>8, <1>9, QuietMove

\* A new key was claimed, or a request found what it goes on with under its locks.
LEMMA GoOnTypes ==
    ASSUME TypeInv, NEW r \in Requests,
           Claim(r) \/ LockAffected(r) \/ LockParent(r) \/ CheckUpdate(r) \/ CheckTemplate(r)
    PROVE  TypeInv' /\ RowsGrow
<1>1. PICK x : x = req[r]
  OBVIOUS
<1>2. PICK pc : pc = IF Claim(r) /\ IsKind(r, {"commit", "import", "updateTemplate", "testSend"})
                     THEN "fenced" ELSE "work"
  OBVIOUS
<1>3. /\ x.pc \in {"claim", "fenced", "target"}
      /\ UNCHANGED data
      /\ req' = [req EXCEPT ![r].pc = pc]
  BY <1>1, <1>2 DEF Claim, LockAffected, LockParent, CheckUpdate, CheckTemplate, At, Goto
<1>4. x.kind \in KindsAt(x.pc) /\ ViewOK(x.kind, x.pc, x.in, x.view)
  BY <1>1, <1>3 DEF TypeInv, RequestOK
<1>5. /\ pc = "fenced" => x.pc = "claim" /\ x.kind \in {"commit", "import", "updateTemplate", "testSend"}
      /\ pc = "work" => \/ x.pc = "claim" /\ x.kind \notin {"commit", "import", "updateTemplate", "testSend"}
                        \/ x.pc = "fenced" /\ x.kind \in {"commit", "import", "updateTemplate"}
                        \/ x.pc = "target"
      /\ pc \in {"fenced", "work"}
  BY <1>1, <1>2 DEF Claim, LockAffected, LockParent, CheckUpdate, CheckTemplate, At, IsKind
<1>6. x.kind \in KindsAt(pc)
  BY <1>4, <1>5 DEF KindsAt, Kinds, Claimed, Unclaimed
<1>7. ViewOK(x.kind, pc, x.in, x.view)
  BY <1>4, <1>5 DEF ViewOK, KindsAt, Claimed
<1>8. /\ DOMAIN req' = Requests
      /\ \A q \in Requests \ {r} : req'[q] = req[q]
      /\ req'[r] = [pc |-> pc, kind |-> req[r].kind, key |-> req[r].key,
                    in |-> req[r].in, view |-> req[r].view]
  BY <1>1, <1>3, OthersStay
<1> QED  BY <1>1, <1>3, <1>5, <1>6, <1>7, <1>8, QuietMove

\* A send has found a template.
LEMMA FindTypes ==
    ASSUME TypeInv, NEW r \in Requests, FindTemplate(r)
    PROVE  TypeInv' /\ RowsGrow
<1>1. req[r].pc # "idle" /\ req[r].kind \in {"send", "testSend"} /\ UNCHANGED data
  BY DEF FindTemplate, At, IsKind
<1>0. req[r].pc # "idle"
  BY <1>1
<1>2. PICK t \in Known(templates) : Sees(r, t, "target")
  BY DEF FindTemplate, Sees
<1>3. /\ DOMAIN req' = Requests
      /\ \A q \in Requests \ {r} : req'[q] = req[q]
      /\ req'[r] = [pc |-> "target", kind |-> req[r].kind, key |-> req[r].key,
                    in |-> req[r].in, view |-> t]
  BY <1>0, <1>2, FieldsStay
<1>4. PICK x : x = req[r]
  OBVIOUS
<1>5. ViewOK(x.kind, "target", x.in, t)
  BY DEF ViewOK
<1>6. x.kind \in KindsAt("target")
  BY <1>1, <1>4 DEF KindsAt
<1> QED  BY <1>1, <1>3, <1>4, <1>5, <1>6, QuietMove

\* A request that waited has got a lock.
LEMMA LockTypes ==
    ASSUME TypeInv, UNCHANGED <<data, req>>
    PROVE  TypeInv' /\ RowsGrow
<1>1. RowsOK' /\ RowsGrow
  BY SameRows
<1>2. config'.version \in Nat
  BY <1>1 DEF RowsOK, ConfigRow
<1>3. \A r \in Requests : RequestOK(r)'
  BY <1>1, <1>2, RequestsStay
<1> QED  BY <1>1, <1>3 DEF TypeInv

-----------------------------------------------------------------------------
(* Steps that write rows keep the types *)

\* An operation that has written its rows is done.
LEMMA CompleteTypes ==
    ASSUME TypeInv, NEW r \in Requests, req[r].pc = "work", Complete(r), RowsOK', RowsGrow
    PROVE  TypeInv' /\ RowsGrow
<1>1. req' = [req EXCEPT ![r].pc = "done"]
  BY DEF Complete, Finish, Goto
<1>2. /\ DOMAIN req' = Requests
      /\ \A q \in Requests \ {r} : req'[q] = req[q]
      /\ req'[r] = [pc |-> "done", kind |-> req[r].kind, key |-> req[r].key,
                    in |-> req[r].in, view |-> req[r].view]
  <2>1. req[r].pc # "idle"
    OBVIOUS
  <2> QED  BY <1>1, <2>1, OthersStay
<1>3. PICK x : x = req[r]
  OBVIOUS
<1>4. x.kind \in Kinds /\ InputOK(x.kind, x.in) /\ (x.kind \in Claimed => x.key \in OperationKeys)
  BY <1>3 DEF TypeInv, RequestOK, KindsAt
<1>5. config.version \in Nat /\ config'.version \in Nat
  BY DEF TypeInv, RowsOK, ConfigRow
<1>6. InputOK(x.kind, x.in)'
  BY <1>4, <1>5, InputsStay
<1>7. ViewOK(x.kind, "done", x.in, x.view)'
  BY DEF ViewOK
<1>8. PICK y : y = [pc |-> "done", kind |-> x.kind, key |-> x.key, in |-> x.in, view |-> x.view]
  OBVIOUS
<1>9. /\ y = [pc |-> y.pc, kind |-> y.kind, key |-> y.key, in |-> y.in, view |-> y.view]
      /\ y.pc = "done" /\ y.kind = x.kind /\ y.key = x.key /\ y.in = x.in /\ y.view = x.view
  BY <1>8
<1>10. req'[r] = y
  BY <1>2, <1>3, <1>8
<1>11. RequestOK(r)'
  BY <1>4, <1>6, <1>7, <1>9, <1>10 DEF RequestOK, KindsAt
<1> QED  BY <1>2, <1>11, OneMoves

\* A new version of the configuration.
LEMMA ConfigGrows ==
    ASSUME TypeInv, config' \in ConfigRow, config'.version = config.version + 1,
           UNCHANGED <<signatures, templates, syncs, messages>>
    PROVE  RowsOK' /\ RowsGrow
<1>1. RowsOK
  BY DEF TypeInv
<1>2. \A c : CandidateOK(c)' <=> CandidateOK(c)
  BY DEF CandidateOK, Known
<1>3. RowsOK'
  BY <1>1, <1>2 DEF RowsOK, TypeOK, Known
<1>4. config.version \in Nat
  BY <1>1 DEF RowsOK, ConfigRow
<1>5. RowsGrow
  BY <1>4 DEF RowsGrow, Known
<1> QED  BY <1>3, <1>5

\* The catalogue of a later state.
LEMMA CatalogueGrows ==
    ASSUME TypeInv, UNCHANGED <<config, messages>>, TypeOK',
           \A s \in Known(signatures) : s \in Known(signatures)',
           \A t \in Known(templates) : t \in Known(templates)' /\ templates'[t].signature = templates[t].signature,
           \A t \in Known(templates)' : templates'[t].key \in Keys /\ templates'[t].signature \in Known(signatures)',
           \A t \in Templates \ Known(templates)' :
              templates'[t].key = None /\ templates'[t].signature = None /\ ~templates'[t].enabled,
           syncs' \in Seq(SyncRow),
           \A i \in DOMAIN syncs' : \A c \in syncs'[i].candidates : CandidateOK(c)
    PROVE  RowsOK' /\ RowsGrow
<1>1. RowsOK /\ config.version \in Nat
  BY DEF TypeInv, RowsOK, ConfigRow
<1>2. RowsGrow
  BY <1>1 DEF RowsGrow
<1>3. \A i \in DOMAIN syncs' : \A c \in syncs'[i].candidates : CandidateOK(c)'
  BY <1>2, CandidatesStay
<1>4. \A m \in messages' : m.template \in Known(templates)'
  BY <1>1, <1>2 DEF RowsOK, RowsGrow
<1>5. config' \in ConfigRow
  BY <1>1 DEF RowsOK, ConfigRow
<1> QED  BY <1>2, <1>3, <1>4, <1>5 DEF RowsOK

\* What a save or a patch writes.
LEMMA UpdatedIsRow ==
    ASSUME config \in ConfigRow, NEW inputs \in Inputs, NEW enabled \in BOOLEAN, NEW reset \in BOOLEAN
    PROVE  /\ UpdatedConfig(inputs, enabled, reset) \in ConfigRow
           /\ UpdatedConfig(inputs, enabled, reset).version = config.version + 1
  BY DEF UpdatedConfig, ConfigRow

\* A save or a patch.
LEMMA UpdateTypes ==
    ASSUME TypeInv, NEW r \in Requests, SaveConfig(r) \/ PatchConfig(r)
    PROVE  TypeInv' /\ RowsGrow
<1>1. config \in ConfigRow
  BY DEF TypeInv, RowsOK
<1>2. req[r].pc = "work" /\ Complete(r) /\ UNCHANGED <<signatures, templates, syncs, messages>>
  BY DEF SaveConfig, PatchConfig, AtWork, At
<1>3. In(r).inputs \in Inputs
  <2>1. req[r].kind \in {"save", "patch"} /\ req[r].pc # "idle"
    BY <1>2 DEF SaveConfig, PatchConfig, AtWork, IsKind
  <2> QED  BY <2>1 DEF TypeInv, RequestOK, InputOK, In
<1>4. \E enabled, reset \in BOOLEAN : config' = UpdatedConfig(In(r).inputs, enabled, reset)
  <2>1. CASE SaveConfig(r)
    <3>1. InputsChanged(req[r].view, In(r).inputs) \in BOOLEAN
      BY DEF InputsChanged
    <3> QED  BY <2>1, <3>1 DEF SaveConfig
  <2>2. CASE PatchConfig(r)
    <3>1. InputsChanged(config, In(r).inputs) \in BOOLEAN /\ Flip(In(r).enabled, config.enabled) \in BOOLEAN
      BY DEF InputsChanged, Flip
    <3> QED  BY <2>2, <3>1 DEF PatchConfig
  <2> QED  BY <2>1, <2>2
<1>5. config' \in ConfigRow /\ config'.version = config.version + 1
  BY <1>1, <1>3, <1>4, UpdatedIsRow
<1> QED  BY <1>2, <1>5, ConfigGrows, CompleteTypes

\* What a test of the connection writes.
TestedConfig(outcome) ==
    [config EXCEPT !.test = outcome,
                   !.status = IF outcome = "succeeded" THEN "ready" ELSE "degraded",
                   !.version = @ + 1]

\* It is a row of the next version, with the same connection.
LEMMA TestedIsRow ==
    ASSUME config \in ConfigRow, NEW outcome \in {"succeeded", "failed"}
    PROVE  /\ TestedConfig(outcome) \in ConfigRow
           /\ TestedConfig(outcome).version = config.version + 1
           /\ TestedConfig(outcome).inputs = config.inputs
           /\ TestedConfig(outcome).test = outcome
           /\ TestedConfig(outcome).status = IF outcome = "succeeded" THEN "ready" ELSE "degraded"
<1>1. PICK status : status = IF outcome = "succeeded" THEN "ready" ELSE "degraded"
  OBVIOUS
<1>2. PICK x \in ConfigRow : x = config
  OBVIOUS
<1>3. PICK y : y = [x EXCEPT !.test = outcome]
  OBVIOUS
<1>4. y \in ConfigRow /\ y.test = outcome /\ y.inputs = x.inputs /\ y.version = x.version
  BY <1>3 DEF ConfigRow
<1>5. PICK z : z = [y EXCEPT !.status = status]
  OBVIOUS
<1>6. z \in ConfigRow /\ z.test = outcome /\ z.inputs = x.inputs /\ z.version = x.version /\ z.status = status
  BY <1>1, <1>4, <1>5 DEF ConfigRow
<1>7. PICK u : u = [z EXCEPT !.version = z.version + 1]
  OBVIOUS
<1>8. /\ u \in ConfigRow /\ u.test = outcome /\ u.inputs = x.inputs /\ u.version = x.version + 1
      /\ u.status = status
  BY <1>6, <1>7 DEF ConfigRow
<1>9. TestedConfig(outcome) = u
  BY <1>1, <1>2, <1>3, <1>5, <1>7 DEF TestedConfig
<1> QED  BY <1>1, <1>2, <1>8, <1>9

\* A test of the connection.
LEMMA ProbeTypes ==
    ASSUME TypeInv, NEW r \in Requests, RecordConnectionTest(r)
    PROVE  TypeInv' /\ RowsGrow
<1>1. config \in ConfigRow
  BY DEF TypeInv, RowsOK
<1>2. req[r].pc = "work" /\ Complete(r) /\ UNCHANGED <<signatures, templates, syncs, messages>>
  BY DEF RecordConnectionTest, AtWork, At
<1>3. PICK outcome \in {"succeeded", "failed"} : config' = TestedConfig(outcome)
  BY DEF RecordConnectionTest, TestedConfig
<1>4. config' \in ConfigRow /\ config'.version = config.version + 1
  BY <1>1, <1>3, TestedIsRow
<1> QED  BY <1>2, <1>4, ConfigGrows, CompleteTypes

\* A preview is stored.
LEMMA PreviewTypes ==
    ASSUME TypeInv, NEW r \in Requests, CreateSyncPreview(r)
    PROVE  TypeInv' /\ RowsGrow
<1>1. /\ req[r].pc = "work" /\ req[r].kind = "preview" /\ Complete(r)
      /\ UNCHANGED <<config, signatures, templates, messages>>
  BY DEF CreateSyncPreview, AtWork, At, IsKind
<1>2. RowsOK
  BY DEF TypeInv
<1>3. PICK found : found = req[r].view
  OBVIOUS
<1>4. \A c \in found : CandidateOK(c)
  BY <1>1, <1>3 DEF TypeInv, RequestOK, ViewOK
<1>5. [candidates |-> found, done |-> {}] \in SyncRow
  BY <1>4 DEF CandidateOK, SyncRow
<1>6. PICK row \in SyncRow : row = [candidates |-> found, done |-> {}]
  BY <1>5
<1>7. syncs' = Append(syncs, row)
  BY <1>3, <1>6 DEF CreateSyncPreview
<1>8. syncs \in Seq(SyncRow) /\ \A i \in DOMAIN syncs : \A c \in syncs[i].candidates : CandidateOK(c)
  BY <1>2 DEF RowsOK
<1>9. /\ syncs' \in Seq(SyncRow)
      /\ \A i \in DOMAIN syncs' : (i \in DOMAIN syncs /\ syncs'[i] = syncs[i]) \/ syncs'[i] = row
  BY <1>7, <1>8
<1>10. row.candidates = found
  BY <1>6
<1>11. \A i \in DOMAIN syncs' : \A c \in syncs'[i].candidates : CandidateOK(c)
  BY <1>4, <1>8, <1>9, <1>10
<1>12. TypeOK' /\ RowsOK' /\ RowsGrow
  <2>1. TypeOK'
    BY <1>1, <1>2 DEF RowsOK, TypeOK
  <2>2. Known(signatures)' = Known(signatures) /\ Known(templates)' = Known(templates)
    BY <1>1 DEF Known
  <2> QED  BY <1>1, <1>2, <1>9, <1>11, <2>1, <2>2, CatalogueGrows DEF RowsOK
<1> QED  BY <1>1, <1>12, CompleteTypes

\* A message is stored.
LEMMA StoreTypes ==
    ASSUME TypeInv, NEW r \in Requests, StoreMessage(r)
    PROVE  TypeInv' /\ RowsGrow
<1>1. /\ req[r].pc = "work" /\ req[r].kind \in {"send", "testSend"} /\ Complete(r)
      /\ UNCHANGED <<config, signatures, templates, syncs>>
      /\ messages' = messages \cup {[template |-> req[r].view, key |-> In(r).key, by |-> r]}
  BY DEF StoreMessage, AtWork, At, IsKind
<1>2. RowsOK /\ config.version \in Nat
  BY DEF TypeInv, RowsOK, ConfigRow
<1>3. req[r].view \in Known(templates)
  BY <1>1 DEF TypeInv, RequestOK, ViewOK
<1>4. \A m \in messages' : m.template \in Known(templates)
  BY <1>1, <1>2, <1>3 DEF RowsOK
<1>5. \A c : CandidateOK(c)' <=> CandidateOK(c)
  BY <1>1 DEF CandidateOK, Known
<1>6. RowsOK'
  BY <1>1, <1>2, <1>4, <1>5 DEF RowsOK, TypeOK, Known
<1>7. RowsGrow
  BY <1>1, <1>2 DEF RowsGrow, Known
<1> QED  BY <1>1, <1>6, <1>7, CompleteTypes

\* What a template becomes when its signature is no longer approved, and what a
\* candidate of its own makes of it.
Withdrawn(row, status) == [row EXCEPT !.enabled = FALSE, !.version = @ + 1, !.status = status]
Refreshed(row, status, enabled) == [row EXCEPT !.status = status, !.version = @ + 1, !.enabled = enabled]
Renamed(row, enabled, key) == [row EXCEPT !.enabled = enabled, !.key = key, !.version = @ + 1]
Toggled(row, enabled) == [row EXCEPT !.enabled = enabled, !.version = @ + 1]

Statuses == {"absent", "approved", "rejected", "unavailable"}

\* A row whose signature was withdrawn.
LEMMA WithdrawnIsRow ==
    ASSUME NEW row \in TemplateRow, NEW status \in Statuses
    PROVE  Withdrawn(row, status) = [status |-> status, enabled |-> FALSE, version |-> row.version + 1,
                                     key |-> row.key, signature |-> row.signature]
<1>1. PICK x : x = [row EXCEPT !.enabled = FALSE]
  OBVIOUS
<1>2. x = [status |-> row.status, enabled |-> FALSE, version |-> row.version, key |-> row.key,
           signature |-> row.signature]
  BY <1>1 DEF TemplateRow
<1>3. PICK y : y = [x EXCEPT !.version = row.version + 1]
  OBVIOUS
<1>4. y = [status |-> row.status, enabled |-> FALSE, version |-> row.version + 1, key |-> row.key,
           signature |-> row.signature]
  BY <1>2, <1>3
<1>5. PICK z : z = [y EXCEPT !.status = status]
  OBVIOUS
<1>6. z = [status |-> status, enabled |-> FALSE, version |-> row.version + 1, key |-> row.key,
           signature |-> row.signature]
  BY <1>4, <1>5
<1>7. Withdrawn(row, status) = z
  BY <1>1, <1>3, <1>5 DEF Withdrawn
<1> QED  BY <1>6, <1>7

\* A row that a candidate of its own rewrote.
LEMMA RefreshedIsRow ==
    ASSUME NEW row \in TemplateRow, NEW status \in Statuses, NEW enabled \in BOOLEAN
    PROVE  Refreshed(row, status, enabled)
              = [status |-> status, enabled |-> enabled, version |-> row.version + 1,
                 key |-> row.key, signature |-> row.signature]
<1>1. PICK x : x = [row EXCEPT !.status = status]
  OBVIOUS
<1>2. x = [status |-> status, enabled |-> row.enabled, version |-> row.version, key |-> row.key,
           signature |-> row.signature]
  BY <1>1 DEF TemplateRow
<1>3. PICK y : y = [x EXCEPT !.version = row.version + 1]
  OBVIOUS
<1>4. y = [status |-> status, enabled |-> row.enabled, version |-> row.version + 1, key |-> row.key,
           signature |-> row.signature]
  BY <1>2, <1>3
<1>5. PICK z : z = [y EXCEPT !.enabled = enabled]
  OBVIOUS
<1>6. z = [status |-> status, enabled |-> enabled, version |-> row.version + 1, key |-> row.key,
           signature |-> row.signature]
  BY <1>4, <1>5
<1>7. Refreshed(row, status, enabled) = z
  BY <1>1, <1>2, <1>3, <1>5 DEF Refreshed
<1> QED  BY <1>6, <1>7

\* A row that an administrator rewrote.
LEMMA RenamedIsRow ==
    ASSUME NEW row \in TemplateRow, NEW enabled \in BOOLEAN, NEW key \in Keys
    PROVE  Renamed(row, enabled, key)
              = [status |-> row.status, enabled |-> enabled, version |-> row.version + 1,
                 key |-> key, signature |-> row.signature]
<1>1. PICK x : x = [row EXCEPT !.enabled = enabled]
  OBVIOUS
<1>2. x = [status |-> row.status, enabled |-> enabled, version |-> row.version, key |-> row.key,
           signature |-> row.signature]
  BY <1>1 DEF TemplateRow
<1>3. PICK y : y = [x EXCEPT !.key = key]
  OBVIOUS
<1>4. y = [status |-> row.status, enabled |-> enabled, version |-> row.version, key |-> key,
           signature |-> row.signature]
  BY <1>2, <1>3
<1>5. PICK z : z = [y EXCEPT !.version = row.version + 1]
  OBVIOUS
<1>6. z = [status |-> row.status, enabled |-> enabled, version |-> row.version + 1, key |-> key,
           signature |-> row.signature]
  BY <1>4, <1>5
<1>7. Renamed(row, enabled, key) = z
  BY <1>1, <1>2, <1>3, <1>4, <1>5 DEF Renamed
<1> QED  BY <1>6, <1>7

\* A signature that an administrator switched on or off.
LEMMA ToggledIsRow ==
    ASSUME NEW row \in SignatureRow, NEW enabled \in BOOLEAN
    PROVE  Toggled(row, enabled) = [status |-> row.status, enabled |-> enabled, version |-> row.version + 1]
<1>1. PICK x : x = [row EXCEPT !.enabled = enabled]
  OBVIOUS
<1>2. x = [status |-> row.status, enabled |-> enabled, version |-> row.version]
  BY <1>1 DEF SignatureRow
<1>3. PICK y : y = [x EXCEPT !.version = row.version + 1]
  OBVIOUS
<1>4. y = [status |-> row.status, enabled |-> enabled, version |-> row.version + 1]
  BY <1>2, <1>3
<1>5. Toggled(row, enabled) = y
  BY <1>1, <1>2, <1>3 DEF Toggled
<1> QED  BY <1>4, <1>5

-----------------------------------------------------------------------------
(* What a commit writes *)

\* The candidates of one resource, and those that withdraw a signature.
Of(type, id, chosen) == {c \in chosen : c.type = type /\ c.id = id}
Withdrawing(s, chosen) == {c \in chosen : c.type = "signature" /\ c.id = s /\ ~Approved(c)}

\* The row of a signature after a commit.
LEMMA CommittedSignatureRow ==
    ASSUME RowsOK, NEW chosen, \A c \in chosen : CandidateOK(c) /\ ~IsNewTemplate(c),
           NEW s \in Signatures
    PROVE  /\ CommittedSignature(s, chosen) \in SignatureRow
           /\ signatures[s].status # "absent" => CommittedSignature(s, chosen).status # "absent"
           /\ CommittedSignature(s, chosen).enabled =>
                 signatures[s].enabled \/ Approved(CommittedSignature(s, chosen))
           /\ Of("signature", s, chosen) = {} => CommittedSignature(s, chosen) = signatures[s]
           /\ Of("signature", s, chosen) # {} /\ CommittedSignature(s, chosen).enabled =>
                 Approved(CommittedSignature(s, chosen))
           /\ Of("signature", s, chosen) # {} =>
                 \E c \in Of("signature", s, chosen) : CommittedSignature(s, chosen).status = c.status
<1>1. signatures[s] \in SignatureRow
  BY DEF RowsOK, TypeOK
<1>2. CASE Of("signature", s, chosen) = {}
  <2>1. CommittedSignature(s, chosen) = signatures[s]
    BY <1>2 DEF CommittedSignature, Of
  <2> QED  BY <1>1, <1>2, <2>1
<1>3. CASE Of("signature", s, chosen) # {}
  <2>1. PICK c \in Of("signature", s, chosen) : c = CHOOSE d \in Of("signature", s, chosen) : TRUE
    BY <1>3
  <2>2. PICK enabled \in BOOLEAN : enabled = (Approved(c) /\ (signatures[s].status = "absent" \/ signatures[s].enabled))
    OBVIOUS
  <2>3. CommittedSignature(s, chosen) = [status |-> c.status, enabled |-> enabled, version |-> signatures[s].version + 1]
    BY <1>3, <2>1, <2>2 DEF CommittedSignature, Of
  <2>4. c.status \in {"approved", "rejected", "unavailable"}
    BY <2>1 DEF Of, CandidateOK, Candidate
  <2>5. CommittedSignature(s, chosen) \in SignatureRow /\ CommittedSignature(s, chosen).status = c.status
    BY <1>1, <2>3, <2>4 DEF SignatureRow
  <2>6. CommittedSignature(s, chosen).enabled => Approved(CommittedSignature(s, chosen))
    <3>1. CommittedSignature(s, chosen).enabled = enabled /\ CommittedSignature(s, chosen).status = c.status
      BY <2>3
    <3>2. enabled => Approved(c)
      BY <2>2
    <3> QED  BY <3>1, <3>2 DEF Approved
  <2> QED  BY <1>3, <2>1, <2>4, <2>5, <2>6
<1> QED  BY <1>2, <1>3

\* The row of a template after the signatures of a commit.
LEMMA AfterSignaturesRow ==
    ASSUME RowsOK, NEW chosen, \A c \in chosen : CandidateOK(c) /\ ~IsNewTemplate(c),
           NEW t \in Templates
    PROVE  /\ AfterSignatures(t, chosen) \in TemplateRow
           /\ AfterSignatures(t, chosen).key = templates[t].key
           /\ AfterSignatures(t, chosen).signature = templates[t].signature
           /\ t \in Known(templates) => AfterSignatures(t, chosen).status # "absent"
           /\ t \notin Known(templates) => AfterSignatures(t, chosen) = templates[t]
           /\ Withdrawing(templates[t].signature, chosen) = {} => AfterSignatures(t, chosen) = templates[t]
           /\ Withdrawing(templates[t].signature, chosen) # {} => ~AfterSignatures(t, chosen).enabled
<1>1. templates[t] \in TemplateRow /\ (t \in Known(templates) <=> templates[t].status # "absent")
  BY DEF RowsOK, TypeOK, Known
<1>2. CASE Withdrawing(templates[t].signature, chosen) = {}
  <2>1. AfterSignatures(t, chosen) = templates[t]
    BY <1>2 DEF AfterSignatures, Withdrawing
  <2> QED  BY <1>1, <1>2, <2>1
<1>3. CASE Withdrawing(templates[t].signature, chosen) # {}
  <2>1. PICK status : status = IF \E c \in Withdrawing(templates[t].signature, chosen) : c.status = "unavailable"
                               THEN "unavailable" ELSE templates[t].status
    OBVIOUS
  <2>2. AfterSignatures(t, chosen) = Withdrawn(templates[t], status)
    BY <1>3, <2>1 DEF AfterSignatures, Withdrawing, Withdrawn
  <2>3. status \in Statuses /\ (status = "absent" => templates[t].status = "absent")
    BY <1>1, <2>1 DEF TemplateRow, Statuses
  <2>4. AfterSignatures(t, chosen) = [status |-> status, enabled |-> FALSE, version |-> templates[t].version + 1,
                                      key |-> templates[t].key, signature |-> templates[t].signature]
    BY <1>1, <2>2, <2>3, WithdrawnIsRow
  <2>5. /\ AfterSignatures(t, chosen) \in TemplateRow
        /\ AfterSignatures(t, chosen).key = templates[t].key
        /\ AfterSignatures(t, chosen).signature = templates[t].signature
        /\ ~AfterSignatures(t, chosen).enabled
        /\ AfterSignatures(t, chosen).status = status
    BY <1>1, <2>3, <2>4 DEF TemplateRow, Statuses
  <2>6. t \in Known(templates)
    <3>1. PICK c \in chosen : c.type = "signature" /\ c.id = templates[t].signature
      BY <1>3 DEF Withdrawing
    <3>2. templates[t].signature \in Signatures
      BY <3>1 DEF CandidateOK
    <3>3. templates[t].signature # None
      BY <3>2, IdentifiersAssumption DEF None
    <3> QED  BY <3>3 DEF RowsOK
  <2> QED  BY <1>1, <1>3, <2>3, <2>5, <2>6
<1> QED  BY <1>2, <1>3

\* The row of a template after a commit.
LEMMA CommittedTemplateRow ==
    ASSUME RowsOK, NEW chosen, \A c \in chosen : CandidateOK(c) /\ ~IsNewTemplate(c),
           NEW t \in Templates
    PROVE  /\ CommittedTemplate(t, chosen) \in TemplateRow
           /\ CommittedTemplate(t, chosen).key = templates[t].key
           /\ CommittedTemplate(t, chosen).signature = templates[t].signature
           /\ t \in Known(templates) => CommittedTemplate(t, chosen).status # "absent"
           /\ t \notin Known(templates) => CommittedTemplate(t, chosen) = templates[t]
           /\ Of("template", t, chosen) = {} => CommittedTemplate(t, chosen) = AfterSignatures(t, chosen)
           /\ Of("template", t, chosen) # {} /\ CommittedTemplate(t, chosen).enabled =>
                 /\ Approved(CommittedTemplate(t, chosen))
                 /\ Approved(CommittedSignature(templates[t].signature, chosen))
<1>0. PICK row \in TemplateRow : row = AfterSignatures(t, chosen)
  BY AfterSignaturesRow
<1>1. /\ row.key = templates[t].key /\ row.signature = templates[t].signature
      /\ t \in Known(templates) => row.status # "absent"
      /\ t \notin Known(templates) => row = templates[t]
  BY <1>0, AfterSignaturesRow
<1>2. CASE Of("template", t, chosen) = {}
  <2>1. CommittedTemplate(t, chosen) = row
    BY <1>0, <1>2 DEF CommittedTemplate, Of
  <2> QED  BY <1>0, <1>1, <1>2, <2>1
<1>3. CASE Of("template", t, chosen) # {}
  <2>1. PICK c \in Of("template", t, chosen) : c = CHOOSE d \in Of("template", t, chosen) : TRUE
    BY <1>3
  <2>2. c.status \in {"approved", "rejected", "unavailable"} /\ t \in Known(templates)
    BY <2>1 DEF Of, CandidateOK, Candidate, IsNewTemplate
  <2> DEFINE parent == CommittedSignature(row.signature, chosen)
  <2>3. PICK enabled \in BOOLEAN : enabled = (row.enabled /\ Approved(c) /\ parent.enabled /\ Approved(parent))
    OBVIOUS
  <2>4. CommittedTemplate(t, chosen) = Refreshed(row, c.status, enabled)
    BY <1>0, <1>3, <2>1, <2>3 DEF CommittedTemplate, Of, Refreshed
  <2>5. CommittedTemplate(t, chosen) = [status |-> c.status, enabled |-> enabled, version |-> row.version + 1,
                                        key |-> row.key, signature |-> row.signature]
    BY <2>2, <2>4, RefreshedIsRow DEF Statuses
  <2>6. /\ CommittedTemplate(t, chosen) \in TemplateRow
        /\ CommittedTemplate(t, chosen).key = row.key
        /\ CommittedTemplate(t, chosen).signature = row.signature
        /\ CommittedTemplate(t, chosen).status = c.status
    BY <2>2, <2>5 DEF TemplateRow
  <2>7. CommittedTemplate(t, chosen).enabled =>
           Approved(CommittedTemplate(t, chosen)) /\ Approved(CommittedSignature(templates[t].signature, chosen))
    <3>1. CommittedTemplate(t, chosen).enabled = enabled /\ CommittedTemplate(t, chosen).status = c.status
      BY <2>5
    <3> HIDE DEF parent
    <3>2. enabled => Approved(c) /\ Approved(parent)
      BY <2>3
    <3>3. Approved(c) => Approved(CommittedTemplate(t, chosen))
      BY <3>1 DEF Approved
    <3>4. parent = CommittedSignature(templates[t].signature, chosen)
      BY <1>1 DEF parent
    <3> QED  BY <3>1, <3>2, <3>3, <3>4
  <2> QED  BY <1>1, <1>3, <2>2, <2>6, <2>7
<1> QED  BY <1>2, <1>3

\* A preview with more of its candidates done.
Marked(i, D) == [syncs EXCEPT ![i].done = @ \cup D]

\* It has the candidates it had.
LEMMA MarkedKeepsCandidates ==
    ASSUME syncs \in Seq(SyncRow), NEW i, NEW D \in SUBSET Candidate
    PROVE  /\ Marked(i, D) \in Seq(SyncRow)
           /\ DOMAIN Marked(i, D) = DOMAIN syncs
           /\ \A j \in DOMAIN syncs : Marked(i, D)[j].candidates = syncs[j].candidates
<1>1. PICK s \in Seq(SyncRow) : s = syncs
  OBVIOUS
<1>2. ASSUME NEW j \in DOMAIN s
      PROVE  /\ [s[j] EXCEPT !.done = @ \cup D] \in SyncRow
             /\ [s[j] EXCEPT !.done = @ \cup D].candidates = s[j].candidates
  <2>1. PICK x \in SyncRow : x = s[j]
    OBVIOUS
  <2>2. PICK y : y = [x EXCEPT !.done = x.done \cup D]
    OBVIOUS
  <2>3. y = [candidates |-> x.candidates, done |-> x.done \cup D]
    BY <2>2 DEF SyncRow
  <2>4. y \in SyncRow /\ y.candidates = x.candidates
    BY <2>3 DEF SyncRow
  <2> QED  BY <2>1, <2>2, <2>4
<1>3. Marked(i, D) = [j \in DOMAIN s |-> IF j = i THEN [s[j] EXCEPT !.done = @ \cup D] ELSE s[j]]
  BY <1>1 DEF Marked
<1>4. DOMAIN s = 1 .. Len(s) /\ Len(s) \in Nat /\ \A j \in DOMAIN s : s[j] \in SyncRow
  OBVIOUS
<1>5. PICK f : f = Marked(i, D)
  OBVIOUS
<1>6. f \in [1 .. Len(s) -> SyncRow]
  BY <1>2, <1>3, <1>4, <1>5
<1>7. f \in Seq(SyncRow)
  BY <1>4, <1>6
<1>8. \A j \in DOMAIN s : f[j].candidates = s[j].candidates
  BY <1>2, <1>3, <1>5
<1>9. DOMAIN f = DOMAIN s
  BY <1>3, <1>5
<1> QED  BY <1>1, <1>5, <1>7, <1>8, <1>9

\* A commit.
LEMMA CommitTypes ==
    ASSUME TypeInv, NEW r \in Requests, CommitSync(r)
    PROVE  TypeInv' /\ RowsGrow
<1>1. PICK chosen : chosen = In(r).chosen
  OBVIOUS
<1>2. /\ req[r].pc = "work" /\ req[r].kind = "commit" /\ Complete(r)
      /\ UNCHANGED <<config, messages>>
      /\ signatures' = [s \in Signatures |-> CommittedSignature(s, chosen)]
      /\ templates' = [t \in Templates |-> CommittedTemplate(t, chosen)]
      /\ syncs' = Marked(In(r).sync, chosen)
  BY <1>1 DEF CommitSync, AtWork, At, IsKind, Marked
<1>3. RowsOK /\ \A c \in chosen : CandidateOK(c) /\ ~IsNewTemplate(c)
  BY <1>1, <1>2 DEF TypeInv, RequestOK, InputOK, In
<1>4. \A s \in Signatures :
         /\ signatures'[s] \in SignatureRow
         /\ signatures[s].status # "absent" => signatures'[s].status # "absent"
  BY <1>2, <1>3, CommittedSignatureRow
<1>5. \A t \in Templates :
         /\ templates'[t] \in TemplateRow
         /\ templates'[t].key = templates[t].key
         /\ templates'[t].signature = templates[t].signature
         /\ t \in Known(templates) => templates'[t].status # "absent"
         /\ t \notin Known(templates) => templates'[t] = templates[t]
  BY <1>2, <1>3, CommittedTemplateRow
<1>6. DOMAIN signatures' = Signatures /\ DOMAIN templates' = Templates
  BY <1>2
<1>7. DOMAIN signatures = Signatures /\ DOMAIN templates = Templates
  BY <1>3 DEF RowsOK, TypeOK
<1>8. TypeOK'
  <2>1. signatures' \in [Signatures -> SignatureRow]
    BY <1>2, <1>4
  <2>2. templates' \in [Templates -> TemplateRow]
    BY <1>2, <1>5
  <2> QED  BY <2>1, <2>2 DEF TypeOK
<1>9. \A s \in Known(signatures) : s \in Known(signatures)'
  BY <1>4, <1>6, <1>7 DEF Known
<1>10. \A t \in Templates : t \in Known(templates)' <=> t \in Known(templates)
  BY <1>5, <1>6, <1>7 DEF Known
<1>11. Known(templates) \subseteq Templates /\ Known(templates)' \subseteq Templates
  BY <1>6, <1>7 DEF Known
<1>12. \A t \in Known(templates)' : templates'[t].key \in Keys /\ templates'[t].signature \in Known(signatures)'
  BY <1>3, <1>5, <1>9, <1>10, <1>11 DEF RowsOK
<1>13. \A t \in Templates \ Known(templates)' :
          templates'[t].key = None /\ templates'[t].signature = None /\ ~templates'[t].enabled
  BY <1>3, <1>5, <1>10, <1>11 DEF RowsOK
<1>14. chosen \in SUBSET Candidate
  BY <1>3 DEF CandidateOK
<1>15. /\ syncs' \in Seq(SyncRow)
       /\ \A i \in DOMAIN syncs' : \A c \in syncs'[i].candidates : CandidateOK(c)
  BY <1>2, <1>3, <1>14, MarkedKeepsCandidates DEF RowsOK
<1>16. \A t \in Known(templates) : t \in Known(templates)' /\ templates'[t].signature = templates[t].signature
  BY <1>5, <1>10, <1>11
<1>17. RowsOK' /\ RowsGrow
  BY <1>2, <1>8, <1>9, <1>12, <1>13, <1>15, <1>16, CatalogueGrows
<1> QED  BY <1>2, <1>17, CompleteTypes

\* An import.
LEMMA ImportTypes ==
    ASSUME TypeInv, NEW r \in Requests, ImportTemplate(r)
    PROVE  TypeInv' /\ RowsGrow
<1>1. PICK in : in = In(r)
  OBVIOUS
<1>2. PICK D : D = {c \in syncs[in.sync].candidates : c.id = in.id /\ IsNewTemplate(c)}
  OBVIOUS
<1>3. PICK row : row = [status |-> "approved", enabled |-> TRUE, version |-> 1,
                        key |-> in.key, signature |-> in.signature]
  OBVIOUS
<1>4. /\ req[r].pc = "work" /\ req[r].kind = "import" /\ Complete(r)
      /\ UNCHANGED <<config, signatures, messages>>
      /\ in.id \notin Known(templates)
      /\ templates' = [templates EXCEPT ![in.id] = row]
  BY <1>1, <1>3 DEF ImportTemplate, AtWork, At, IsKind
<1>5. /\ RowsOK /\ in.sync \in Nat /\ in.id \in Templates /\ in.key \in Keys
      /\ in.signature \in Known(signatures)
  BY <1>1, <1>4 DEF TypeInv, RequestOK, InputOK, In
<1>6. DOMAIN signatures = Signatures /\ templates \in [Templates -> TemplateRow]
  BY <1>5 DEF RowsOK, TypeOK
<1>7. row \in TemplateRow /\ row.status # "absent" /\ row.key = in.key /\ row.signature = in.signature
  <2>1. in.signature \in Signatures
    BY <1>5, <1>6 DEF Known
  <2> QED  BY <1>3, <1>5, <2>1 DEF TemplateRow
<1>8. /\ templates' \in [Templates -> TemplateRow]
      /\ templates'[in.id] = row
      /\ \A t \in Templates \ {in.id} : templates'[t] = templates[t]
  BY <1>4, <1>5, <1>6, <1>7
<1>9. TypeOK'
  BY <1>4, <1>5, <1>8 DEF RowsOK, TypeOK
<1>10. \A t \in Known(templates) : t \in Templates /\ t # in.id
  BY <1>4, <1>6 DEF Known
<1>11. \A t \in Known(templates) : t \in Known(templates)' /\ templates'[t].signature = templates[t].signature
  BY <1>8, <1>10 DEF Known
<1>12. \A t \in Known(templates)' : t = in.id \/ (t \in Known(templates) /\ templates'[t] = templates[t])
  <2>1. DOMAIN templates = Templates /\ DOMAIN templates' = Templates
    BY <1>6, <1>8
  <2>2. \A t : t \in Known(templates)' <=> t \in Templates /\ templates'[t].status # "absent"
    BY <2>1 DEF Known
  <2>3. \A t : t \in Known(templates) <=> t \in Templates /\ templates[t].status # "absent"
    BY <2>1 DEF Known
  <2>4. ASSUME NEW t, t \in Known(templates)', t # in.id
        PROVE  t \in Known(templates) /\ templates'[t] = templates[t]
    <3>1. t \in Templates /\ templates'[t].status # "absent"
      BY <2>2, <2>4
    <3>2. templates'[t] = templates[t]
      BY <1>8, <2>4, <3>1
    <3> QED  BY <2>3, <3>1, <3>2
  <2> QED  BY <2>4
<1>13. Known(signatures)' = Known(signatures)
  BY <1>4 DEF Known
<1>14. \A t \in Known(templates)' : templates'[t].key \in Keys /\ templates'[t].signature \in Known(signatures)'
  BY <1>5, <1>7, <1>8, <1>12, <1>13 DEF RowsOK
<1>15. \A t \in Templates \ Known(templates)' : t \notin Known(templates) /\ t # in.id
  BY <1>7, <1>8, <1>11 DEF Known
<1>16. \A t \in Templates \ Known(templates)' :
          templates'[t].key = None /\ templates'[t].signature = None /\ ~templates'[t].enabled
  BY <1>5, <1>8, <1>15 DEF RowsOK
<1>17. syncs \in Seq(SyncRow) /\ syncs' = Marked(in.sync, D)
  BY <1>1, <1>2, <1>5 DEF RowsOK, ImportTemplate, Marked
<1>18. syncs' \in Seq(SyncRow) /\ \A i \in DOMAIN syncs' : \A c \in syncs'[i].candidates : CandidateOK(c)
  <2>1. CASE in.sync \in DOMAIN syncs
    <3>1. syncs[in.sync] \in SyncRow
      BY <1>17, <2>1
    <3>2. syncs[in.sync].candidates \in SUBSET Candidate
      BY <3>1 DEF SyncRow
    <3>3. D \in SUBSET Candidate
      BY <1>2, <3>2
    <3> QED  BY <1>5, <1>17, <3>3, MarkedKeepsCandidates DEF RowsOK
  <2>2. CASE in.sync \notin DOMAIN syncs
    <3>1. syncs' = syncs
      BY <1>17, <2>2 DEF Marked
    <3> QED  BY <1>5, <1>17, <3>1 DEF RowsOK
  <2> QED  BY <2>1, <2>2
<1>19. RowsOK' /\ RowsGrow
  BY <1>4, <1>9, <1>11, <1>13, <1>14, <1>16, <1>18, CatalogueGrows
<1> QED  BY <1>4, <1>19, CompleteTypes

\* A signature is switched on or off.
LEMMA UpdateSignatureTypes ==
    ASSUME TypeInv, NEW r \in Requests, UpdateSignature(r)
    PROVE  TypeInv' /\ RowsGrow
<1>1. PICK s : s = In(r).id
  OBVIOUS
<1>2. PICK enabled \in BOOLEAN : enabled = (In(r).enabled = "on")
  OBVIOUS
<1>3. /\ req[r].pc = "work" /\ req[r].kind = "updateSignature" /\ Complete(r)
      /\ UNCHANGED <<config, templates, syncs, messages>>
  BY DEF UpdateSignature, AtWork, At, IsKind
<1>4. RowsOK /\ s \in Known(signatures)
  BY <1>1, <1>3 DEF TypeInv, RequestOK, InputOK, In
<1>5. signatures \in [Signatures -> SignatureRow] /\ s \in Signatures
  BY <1>4 DEF RowsOK, TypeOK, Known
<1>6. PICK row \in SignatureRow : row = signatures[s]
  BY <1>5
<1>7. signatures' = [signatures EXCEPT ![s] = Toggled(row, enabled)]
  BY <1>1, <1>2, <1>5, <1>6 DEF UpdateSignature, Toggled
<1>8. PICK new : new = Toggled(row, enabled)
  OBVIOUS
<1>9. new \in SignatureRow /\ new.status = row.status
  BY <1>8, ToggledIsRow DEF SignatureRow
<1>10. /\ signatures' \in [Signatures -> SignatureRow]
       /\ signatures'[s] = new
       /\ \A u \in Signatures \ {s} : signatures'[u] = signatures[u]
  BY <1>5, <1>7, <1>8, <1>9
<1>11. Known(signatures)' = Known(signatures)
  BY <1>5, <1>6, <1>9, <1>10 DEF Known
<1>12. Known(templates)' = Known(templates)
  BY <1>3 DEF Known
<1>13. TypeOK'
  BY <1>3, <1>4, <1>10 DEF RowsOK, TypeOK
<1>14. RowsOK' /\ RowsGrow
  BY <1>3, <1>4, <1>11, <1>12, <1>13, CatalogueGrows DEF RowsOK
<1> QED  BY <1>3, <1>14, CompleteTypes

\* The key that an update gives to its template.
LEMMA NextKeyIsKey ==
    ASSUME TypeInv, NEW r \in Requests, req[r].pc # "idle", req[r].kind = "updateTemplate"
    PROVE  In(r).id \in Known(templates) /\ NextKey(r) \in Keys
<1>1. RowsOK /\ In(r).id \in Known(templates) /\ In(r).rename \in Keys \cup {None}
  BY DEF TypeInv, RequestOK, InputOK, In
<1> QED  BY <1>1 DEF NextKey, RowsOK

\* What an update of a template writes.
LEMMA UpdatedTemplateRow ==
    ASSUME TypeInv, NEW r \in Requests, UpdateTemplate(r)
    PROVE  /\ In(r).id \in Known(templates) /\ In(r).id \in Templates
           /\ templates' \in [Templates -> TemplateRow]
           /\ templates'[In(r).id].status = templates[In(r).id].status
           /\ templates'[In(r).id].enabled = Flip(In(r).enabled, templates[In(r).id].enabled)
           /\ templates'[In(r).id].key = NextKey(r)
           /\ templates'[In(r).id].signature = templates[In(r).id].signature
           /\ \A u \in Templates \ {In(r).id} : templates'[u] = templates[u]
<1>1. PICK t : t = In(r).id
  OBVIOUS
<1>2. PICK switch : switch = In(r).enabled
  OBVIOUS
<1>3. RowsOK /\ t \in Known(templates) /\ NextKey(r) \in Keys
  <2>1. req[r].pc # "idle" /\ req[r].kind = "updateTemplate"
    BY DEF UpdateTemplate, AtWork, At, IsKind
  <2> QED  BY <1>1, <2>1, NextKeyIsKey DEF TypeInv
<1>4. templates \in [Templates -> TemplateRow] /\ t \in Templates
  BY <1>3 DEF RowsOK, TypeOK, Known
<1>5. PICK row \in TemplateRow : row = templates[t]
  BY <1>4
<1>6. PICK key \in Keys : key = NextKey(r)
  BY <1>3
<1>7. PICK new : new = Renamed(row, Flip(switch, row.enabled), key)
  OBVIOUS
<1>8. templates' = [templates EXCEPT ![t] = new]
  BY <1>1, <1>2, <1>4, <1>5, <1>6, <1>7 DEF UpdateTemplate, Renamed
<1>9. new = [status |-> row.status, enabled |-> Flip(switch, row.enabled), version |-> row.version + 1,
             key |-> key, signature |-> row.signature]
  <2>1. Flip(switch, row.enabled) \in BOOLEAN
    BY DEF Flip
  <2> QED  BY <1>7, <2>1, RenamedIsRow
<1>10. /\ new \in TemplateRow /\ new.status = row.status /\ new.key = key
       /\ new.signature = row.signature /\ new.enabled = Flip(switch, row.enabled)
  BY <1>9 DEF TemplateRow, Flip
<1>11. /\ templates' \in [Templates -> TemplateRow]
       /\ templates'[t] = new
       /\ \A u \in Templates \ {t} : templates'[u] = templates[u]
  BY <1>4, <1>8, <1>10
<1> QED  BY <1>1, <1>2, <1>3, <1>4, <1>5, <1>6, <1>10, <1>11

\* A template is switched on or off or renamed.
LEMMA UpdateTemplateTypes ==
    ASSUME TypeInv, NEW r \in Requests, UpdateTemplate(r)
    PROVE  TypeInv' /\ RowsGrow
<1>1. /\ req[r].pc = "work" /\ req[r].kind = "updateTemplate" /\ Complete(r)
      /\ UNCHANGED <<config, signatures, syncs, messages>>
  BY DEF UpdateTemplate, AtWork, At, IsKind
<1>2. PICK t : t = In(r).id
  OBVIOUS
<1>3. /\ t \in Known(templates) /\ t \in Templates
      /\ templates' \in [Templates -> TemplateRow]
      /\ templates'[t].status = templates[t].status
      /\ templates'[t].key = NextKey(r)
      /\ templates'[t].signature = templates[t].signature
      /\ \A u \in Templates \ {t} : templates'[u] = templates[u]
  BY <1>2, UpdatedTemplateRow
<1>4. RowsOK /\ NextKey(r) \in Keys
  BY <1>1, NextKeyIsKey DEF TypeInv
<1>5. DOMAIN templates = Templates /\ DOMAIN templates' = Templates
  BY <1>3, <1>4 DEF RowsOK, TypeOK
<1>6. \A u : u \in Known(templates)' <=> u \in Known(templates)
  BY <1>3, <1>5 DEF Known
<1>7. Known(signatures)' = Known(signatures)
  BY <1>1 DEF Known
<1>8. TypeOK'
  BY <1>1, <1>3, <1>4 DEF RowsOK, TypeOK
<1>9. \A u \in Known(templates) : u \in Known(templates)' /\ templates'[u].signature = templates[u].signature
  BY <1>3, <1>5, <1>6 DEF Known
<1>10. \A u \in Known(templates)' : templates'[u].key \in Keys /\ templates'[u].signature \in Known(signatures)'
  BY <1>3, <1>4, <1>5, <1>6, <1>7 DEF RowsOK, Known
<1>11. \A u \in Templates \ Known(templates)' :
          templates'[u].key = None /\ templates'[u].signature = None /\ ~templates'[u].enabled
  BY <1>3, <1>4, <1>6 DEF RowsOK
<1>12. syncs' \in Seq(SyncRow) /\ \A i \in DOMAIN syncs' : \A c \in syncs'[i].candidates : CandidateOK(c)
  BY <1>1, <1>4 DEF RowsOK
<1>13. RowsOK' /\ RowsGrow
  BY <1>1, <1>7, <1>8, <1>9, <1>10, <1>11, <1>12, CatalogueGrows
<1> QED  BY <1>1, <1>13, CompleteTypes

-----------------------------------------------------------------------------
(* The types hold *)

\* What is imported at first is as it should be.
LEMMA InitialRows ==
    ASSUME NEW imported \in SUBSET (Templates \cap Keys), imported # {} => Signatures # {}
    PROVE  /\ \A t \in imported : InitialTemplate(t, imported).key = t
           /\ \A t \in imported : InitialTemplate(t, imported).signature \in Signatures
           /\ \A t \in Templates : InitialTemplate(t, imported) \in TemplateRow
           /\ \A t \in imported : InitialTemplate(t, imported).status = "approved"
           /\ \A t \in Templates \ imported :
                 InitialTemplate(t, imported)
                    = [status |-> "absent", enabled |-> FALSE, version |-> 0, key |-> None, signature |-> None]
<1>1. ASSUME NEW t \in imported
      PROVE  /\ InitialTemplate(t, imported) \in TemplateRow
             /\ InitialTemplate(t, imported).key = t
             /\ InitialTemplate(t, imported).signature \in Signatures
             /\ InitialTemplate(t, imported).status = "approved"
  <2>1. PICK s \in Signatures : s = CHOOSE u \in Signatures : TRUE
    BY <1>1
  <2>2. InitialTemplate(t, imported)
           = [status |-> "approved", enabled |-> TRUE, version |-> 1, key |-> t, signature |-> s]
    BY <2>1 DEF InitialTemplate
  <2> QED  BY <2>2 DEF TemplateRow
<1>2. ASSUME NEW t \in Templates \ imported
      PROVE  /\ InitialTemplate(t, imported) \in TemplateRow
             /\ InitialTemplate(t, imported)
                   = [status |-> "absent", enabled |-> FALSE, version |-> 0, key |-> None, signature |-> None]
  BY DEF InitialTemplate, TemplateRow
<1> QED  BY <1>1, <1>2

\* The rows are as they should be initially.
LEMMA InitRows == Init => RowsOK
<1> SUFFICES ASSUME Init  PROVE RowsOK
  OBVIOUS
<1>1. messages = {}
  BY DEF Init
<1>2. Signatures \subseteq Nat \ {0} /\ Templates \subseteq Nat \ {0} /\ Keys \subseteq Nat \ {0}
  BY IdentifiersAssumption
<1>3. CASE NotInUse
  <2>1. config \in ConfigRow
    BY <1>3 DEF NotInUse, Unconfigured, ConfigRow
  <2>2. signatures \in [Signatures -> SignatureRow]
    BY <1>3 DEF NotInUse, SignatureRow
  <2>3. /\ templates \in [Templates -> TemplateRow]
        /\ \A t \in Templates :
              templates[t] = [status |-> "absent", enabled |-> FALSE, version |-> 0, key |-> None, signature |-> None]
    BY <1>3, InitialRows DEF NotInUse
  <2>4. Known(templates) = {}
    BY <2>3 DEF Known
  <2>5. syncs = <<>>
    BY <1>3 DEF NotInUse
  <2>6. syncs \in Seq(SyncRow) /\ \A i \in DOMAIN syncs : \A c \in syncs[i].candidates : CandidateOK(c)
    BY <2>5
  <2> QED  BY <1>1, <2>1, <2>2, <2>3, <2>4, <2>6 DEF RowsOK, TypeOK
<1>4. CASE ~NotInUse
  <2>1. PICK mix \in Mixes : InUse(mix.imported)
    BY <1>4 DEF Init
  <2>2. PICK imported : imported = mix.imported
    OBVIOUS
  <2>3. imported \in SUBSET (Templates \cap Keys) /\ (imported # {} => Signatures # {})
    BY <2>2, MixesAssumption
  <2>4. /\ \E inputs \in Inputs : config = Ready(inputs)
        /\ signatures = [s \in Signatures |-> [status |-> "approved", enabled |-> TRUE, version |-> 1]]
        /\ templates = [t \in Templates |-> InitialTemplate(t, imported)]
        /\ syncs = <<InitialSync(imported)>>
    BY <2>1, <2>2 DEF InUse
  <2>5. config \in ConfigRow
    BY <2>4 DEF Ready, ConfigRow
  <2>6. /\ signatures \in [Signatures -> SignatureRow]
        /\ \A s \in Signatures : signatures[s].status = "approved"
    BY <2>4 DEF SignatureRow
  <2>7. Known(signatures) = Signatures
    BY <2>6 DEF Known
  <2>8. /\ templates \in [Templates -> TemplateRow]
        /\ \A t \in imported : /\ templates[t].key = t /\ templates[t].signature \in Signatures
                               /\ templates[t].status = "approved"
        /\ \A t \in Templates \ imported :
              templates[t] = [status |-> "absent", enabled |-> FALSE, version |-> 0, key |-> None, signature |-> None]
    BY <2>3, <2>4, InitialRows
  <2>9. Known(templates) = imported
    BY <2>3, <2>8 DEF Known
  <2>10. ASSUME NEW s \in Signatures
         PROVE  CandidateOK(SignatureCandidate(s, "approved"))
    BY <1>2 DEF CandidateOK, SignatureCandidate, Candidate, None
  <2>11. ASSUME NEW t \in Templates
         PROVE  CandidateOK(TemplateCandidate(t, "approved"))
    <3>1. templates[t].key \in Nat /\ templates[t].signature \in Nat /\ templates[t].signature \in Signatures \cup {None}
      <4>1. CASE t \in imported
        BY <1>2, <2>8, <4>1
      <4>2. CASE t \notin imported
        BY <2>8, <4>2 DEF None
      <4> QED  BY <4>1, <4>2
    <3>2. templates[t].key # None => t \in Known(templates)
      BY <2>8, <2>9
    <3> QED  BY <1>2, <3>1, <3>2 DEF CandidateOK, TemplateCandidate, Candidate
  <2>12. PICK C : C = {SignatureCandidate(s, "approved") : s \in Signatures}
                         \cup {TemplateCandidate(t, "approved") : t \in Templates}
    OBVIOUS
  <2>13. \A c \in C : CandidateOK(c)
    BY <2>10, <2>11, <2>12
  <2>14. PICK row : row = [candidates |-> C, done |-> {}]
    OBVIOUS
  <2>15. row \in SyncRow /\ row.candidates = C
    BY <2>13, <2>14 DEF CandidateOK, SyncRow
  <2>16. syncs = <<row>>
    BY <2>4, <2>12, <2>14 DEF InitialSync
  <2>17. syncs \in Seq(SyncRow) /\ \A i \in DOMAIN syncs : syncs[i] = row
    BY <2>15, <2>16
  <2>18. \A i \in DOMAIN syncs : \A c \in syncs[i].candidates : CandidateOK(c)
    BY <2>13, <2>15, <2>17
  <2>19. TypeOK
    BY <2>6, <2>8 DEF TypeOK
  <2>20. \A t \in Known(templates) : templates[t].key \in Keys /\ templates[t].signature \in Known(signatures)
    BY <2>3, <2>7, <2>8, <2>9
  <2>21. \A t \in Templates \ Known(templates) :
            templates[t].key = None /\ templates[t].signature = None /\ ~templates[t].enabled
    BY <2>8, <2>9
  <2> QED  BY <1>1, <2>5, <2>17, <2>18, <2>19, <2>20, <2>21 DEF RowsOK
<1> QED  BY <1>3, <1>4

\* The types hold initially.
LEMMA InitTypes == Init => TypeInv
<1> SUFFICES ASSUME Init  PROVE TypeInv
  OBVIOUS
<1>1. RowsOK
  BY InitRows
<1>2. PICK mix \in Mixes : req = [r \in Requests |-> [pc |-> "idle", kinds |-> mix.kinds[r]]]
  BY DEF Init
<1>3. \A r \in Requests : mix.kinds[r] \subseteq Kinds
  BY MixesAssumption DEF Kinds
<1>4. DOMAIN req = Requests /\ \A r \in Requests : req[r].pc = "idle" /\ req[r].kinds \subseteq Kinds
  BY <1>2, <1>3
<1> QED  BY <1>1, <1>4 DEF TypeInv, RequestOK

\* Every step keeps the types.
LEMMA TypesHold == TypeInv /\ [Next]_vars => TypeInv' /\ RowsGrow
<1> SUFFICES ASSUME TypeInv, [Next]_vars  PROVE TypeInv' /\ RowsGrow
  OBVIOUS
<1>1. CASE UNCHANGED vars
  BY <1>1, LockTypes DEF vars, data
<1>2. CASE Next
  <2>1. PICK r \in Requests :
           \/ Begin(r) \/ (\E q \in Requests : Repeat(r, q)) \/ GiveUp(r)
           \/ ReadBefore(r) \/ Discover(r) \/ Claim(r) \/ Replay(r)
           \/ TakeLock(r)
           \/ LockAffected(r) \/ LockParent(r) \/ CheckUpdate(r)
           \/ FindTemplate(r) \/ CheckTemplate(r)
           \/ Work(r)
    BY <1>2 DEF Next
  <2>2. CASE Begin(r) \/ (\E q \in Requests : Repeat(r, q))
    BY <2>2, BeginTypes
  <2>3. CASE GiveUp(r) \/ Replay(r)
    BY <2>3, EndTypes
  <2>4. CASE ReadBefore(r)
    BY <2>4, ReadBeforeTypes
  <2>5. CASE Discover(r)
    BY <2>5, DiscoverTypes
  <2>6. CASE Claim(r) \/ LockAffected(r) \/ LockParent(r) \/ CheckUpdate(r) \/ CheckTemplate(r)
    BY <2>6, GoOnTypes
  <2>7. CASE FindTemplate(r)
    BY <2>7, FindTypes
  <2>8. CASE TakeLock(r)
    BY <2>8, LockTypes DEF TakeLock
  <2>9. CASE Work(r)
    BY <2>9, UpdateTypes, ProbeTypes, PreviewTypes, StoreTypes, CommitTypes, ImportTypes,
       UpdateSignatureTypes, UpdateTemplateTypes DEF Work
  <2> QED  BY <2>1, <2>2, <2>3, <2>4, <2>5, <2>6, <2>7, <2>8, <2>9
<1> QED  BY <1>1, <1>2

\* Every reachable state is well typed.
LEMMA TypesAreInvariant == Spec => []TypeInv
  BY InitTypes, TypesHold, PTL DEF Spec


-----------------------------------------------------------------------------
(* The lists of locks that requests ask for *)

\* The first ranks, in the order of the names.
LEMMA Floors ==
    /\ Span \in Nat \ {0}
    /\ Floor("signature-key") = 4 * Span
    /\ Floor("template-code") = 5 * Span
    /\ Floor("template-key") = 6 * Span
    /\ Floor("template") = 7 * Span
    /\ Floor("signature") = 8 * Span
<1>1. Span \in Nat \ {0}
  BY SpanHasRoom
<1> QED  BY <1>1 DEF Floor

\* The locks that have no number, and their ranks.
LEMMA RankOfOthers ==
    /\ ConfigLock \in Lock /\ Rank(ConfigLock.row) = Span
    /\ Exclusive(<<"commits">>) \in Lock /\ Rank(Exclusive(<<"commits">>).row) = 3 * Span
    /\ \A i \in Nat : Exclusive(<<"sync", i>>) \in Lock /\ Rank(Exclusive(<<"sync", i>>).row) = 2 * Span
    /\ \A kind \in Kinds, key \in OperationKeys :
          /\ <<"operation", kind, key>> \in Rows
          /\ Rank(<<"operation", kind, key>>) = 0
<1>1. <<"config">> \in Rows /\ <<"commits">> \in Rows /\ \A i \in Nat : <<"sync", i>> \in Rows
  BY DEF Rows
<1>2. \A kind \in Kinds, key \in OperationKeys : <<"operation", kind, key>> \in Rows
  BY DEF Rows
<1>3. /\ Rank(<<"config">>) = Span /\ Rank(<<"commits">>) = 3 * Span
      /\ \A i \in Nat : Rank(<<"sync", i>>) = 2 * Span
      /\ \A kind \in Kinds, key \in OperationKeys : Rank(<<"operation", kind, key>>) = 0
  BY DEF Rank, Floor
<1>4. \A row \in Rows : Exclusive(row) \in Lock /\ Exclusive(row).row = row
  BY DEF Exclusive, Lock
<1> QED  BY <1>1, <1>2, <1>3, <1>4 DEF ConfigLock

\* The locks on the rows of one resource, and their ranks.
LEMMA RankOfLocks ==
    ASSUME NEW name \in Numbered, NEW x \in Identifiers
    PROVE  /\ Exclusive(<<name, x>>) \in Lock /\ Shared(<<name, x>>) \in Lock
           /\ Floor(name) <= Rank(Exclusive(<<name, x>>).row)
           /\ Rank(Exclusive(<<name, x>>).row) < Floor(name) + Span
           /\ Floor(name) <= Rank(Shared(<<name, x>>).row)
           /\ Rank(Shared(<<name, x>>).row) < Floor(name) + Span
<1>1. <<name, x>> \in Rows /\ Floor(name) <= Rank(<<name, x>>) /\ Rank(<<name, x>>) < Floor(name) + Span
  BY RankOfNumbered
<1>2. \A row \in Rows : /\ Exclusive(row) \in Lock /\ Exclusive(row).row = row
                        /\ Shared(row) \in Lock /\ Shared(row).row = row
  BY DEF Exclusive, Shared, Lock
<1> QED  BY <1>1, <1>2

\* The identities ascend: signature keys, template codes, template keys.
LEMMA IdentitiesAscend ==
    ASSUME NEW S, S \ {None} \subseteq Identifiers,
           NEW T \in SUBSET Identifiers, NEW K \in SUBSET Identifiers
    PROVE  /\ Ascending(Identities(S, T, K), 4 * Span, 7 * Span)
           /\ \A s \in S \ {None} : Listed(Exclusive(<<"signature-key", s>>), Identities(S, T, K))
<1> DEFINE s == AllOf("signature-key", S \ {None})
           t == AllOf("template-code", T)
           k == AllOf("template-key", K)
<1>1. /\ Ascending(s, 4 * Span, 5 * Span)
      /\ \A x \in S \ {None} : Listed(Exclusive(<<"signature-key", x>>), s)
  BY AllOfAscends, Floors DEF Numbered
<1>2. Ascending(t, 5 * Span, 6 * Span)
  BY AllOfAscends, Floors DEF Numbered
<1>3. Ascending(k, 6 * Span, 7 * Span)
  BY AllOfAscends, Floors DEF Numbered
<1>4. PICK f, g, h : f = s /\ g = t /\ h = k
  OBVIOUS
<1>5. Identities(S, T, K) = (f \o g) \o h
  BY <1>4 DEF Identities
<1> HIDE DEF s, t, k
<1>6. /\ 4 * Span \in Nat /\ 5 * Span \in Nat /\ 6 * Span \in Nat /\ 7 * Span \in Nat
      /\ 4 * Span <= 5 * Span /\ 5 * Span <= 6 * Span /\ 4 * Span <= 6 * Span /\ 6 * Span <= 7 * Span
  BY Floors
<1>7. Ascending(f, 4 * Span, 5 * Span) /\ Ascending(g, 5 * Span, 6 * Span) /\ Ascending(h, 6 * Span, 7 * Span)
  BY <1>1, <1>2, <1>3, <1>4
<1>8. /\ Ascending(f \o g, 4 * Span, 6 * Span)
      /\ \A lock : Listed(lock, f) => Listed(lock, f \o g)
  BY <1>6, <1>7, ConcatAscends
<1>9. /\ Ascending((f \o g) \o h, 4 * Span, 7 * Span)
      /\ \A lock : Listed(lock, f \o g) => Listed(lock, (f \o g) \o h)
  BY <1>6, <1>7, <1>8, ConcatAscends
<1> QED  BY <1>1, <1>4, <1>5, <1>8, <1>9

\* What a commit touches.
LEMMA ScopeOfCommit ==
    ASSUME TypeInv, NEW r \in Requests, req[r].pc # "idle", req[r].kind = "commit"
    PROVE  /\ ScopeOf(r) \subseteq Signatures \cup {None}
           /\ ChosenOf(r, "template") \subseteq Known(templates)
           /\ \A c \in In(r).chosen : CandidateOK(c) /\ ~IsNewTemplate(c)
<1>1. RowsOK /\ \A c \in In(r).chosen : CandidateOK(c) /\ ~IsNewTemplate(c)
  BY DEF TypeInv, RequestOK, InputOK, In
<1>2. ChosenOf(r, "signature") \subseteq Signatures
  BY <1>1 DEF ChosenOf, CandidateOK
<1>3. ChosenOf(r, "template") \subseteq Known(templates)
  BY <1>1 DEF ChosenOf, CandidateOK, IsNewTemplate
<1>4. {c.signature : c \in {c \in In(r).chosen : c.type = "template"}} \subseteq Signatures \cup {None}
  BY <1>1 DEF CandidateOK
<1>5. Known(templates) \subseteq Templates /\ Known(signatures) \subseteq Signatures
  BY <1>1 DEF RowsOK, TypeOK, Known
<1>6. {templates[t].signature : t \in ChosenOf(r, "template")} \subseteq Signatures
  BY <1>1, <1>3, <1>5 DEF RowsOK
<1> QED  BY <1>1, <1>2, <1>3, <1>4, <1>6 DEF ScopeOf

\* The first locks of each operation ascend, and name what it is about.
LEMMA FirstLocksOfCommit ==
    ASSUME TypeInv, NEW r \in Requests, req[r].pc # "idle", req[r].kind = "commit"
    PROVE  /\ Ascending(FirstLocks(r), Span, 7 * Span)
           /\ \A s \in ScopeOf(r) \ {None} : Listed(ParentLock(s), FirstLocks(r))
<1>1. /\ ScopeOf(r) \ {None} \subseteq Identifiers
      /\ ChosenOf(r, "template") \in SUBSET Identifiers
  <2>1. Known(templates) \subseteq Templates
    BY DEF TypeInv, RowsOK, TypeOK, Known
  <2> QED  BY <2>1, ScopeOfCommit DEF Identifiers
<1>2. PICK g : g = Identities(ScopeOf(r), ChosenOf(r, "template"), {})
  OBVIOUS
<1>3. /\ Ascending(g, 4 * Span, 7 * Span)
      /\ \A s \in ScopeOf(r) \ {None} : Listed(ParentLock(s), g)
  BY <1>1, <1>2, IdentitiesAscend DEF ParentLock
<1>4. In(r).sync \in Nat
  BY DEF TypeInv, RequestOK, InputOK, In
<1>5. PICK c, y, o \in Lock : c = ConfigLock /\ y = Exclusive(<<"sync", In(r).sync>>) /\ o = Exclusive(<<"commits">>)
  BY <1>4, RankOfOthers
<1>6. Rank(c.row) = Span /\ Rank(y.row) = 2 * Span /\ Rank(o.row) = 3 * Span
  BY <1>4, <1>5, RankOfOthers
<1>7. Span \in Nat \ {0}
  BY Floors
<1>8. PICK f : f = <<c, y, o>>
  OBVIOUS
<1>9. f \in Seq(Lock) /\ Len(f) = 3 /\ f[1] = c /\ f[2] = y /\ f[3] = o
  BY <1>8
<1>10. Ascending(f, Span, 4 * Span)
  <2>1. \A i \in 1 .. 3 : i = 1 \/ i = 2 \/ i = 3
    OBVIOUS
  <2>2. \A i \in 1 .. 3 : Rank(f[i].row) = i * Span
    BY <1>6, <1>7, <1>9, <2>1
  <2>3. \A i \in 1 .. 3 : Span <= Rank(f[i].row) /\ Rank(f[i].row) < 4 * Span
    BY <1>7, <2>1, <2>2
  <2>4. \A i, j \in 1 .. 3 : i < j => Rank(f[i].row) < Rank(f[j].row)
    BY <1>7, <2>1, <2>2
  <2> QED  BY <1>9, <2>3, <2>4 DEF Ascending
<1>11. FirstLocks(r) = f \o g
  BY <1>2, <1>5, <1>8 DEF FirstLocks, IsKind
<1>12. /\ Span \in Nat /\ 4 * Span \in Nat /\ 7 * Span \in Nat
       /\ Span <= 4 * Span /\ 4 * Span <= 7 * Span
  BY <1>7
<1>13. Ascending(f \o g, Span, 7 * Span) /\ \A lock : Listed(lock, g) => Listed(lock, f \o g)
  BY <1>3, <1>10, <1>12, ConcatAscends
<1> QED  BY <1>3, <1>11, <1>13

\* Those of an import.
LEMMA FirstLocksOfImport ==
    ASSUME TypeInv, NEW r \in Requests, req[r].pc # "idle", req[r].kind = "import"
    PROVE  /\ Ascending(FirstLocks(r), Span, 7 * Span)
           /\ Listed(ParentLock(In(r).signature), FirstLocks(r))
<1>1. /\ In(r).sync \in Nat /\ In(r).id \in Templates /\ In(r).key \in Keys /\ In(r).signature \in Known(signatures)
  BY DEF TypeInv, RequestOK, InputOK, In
<1>2. In(r).signature \in Signatures /\ In(r).signature # None
  BY <1>1, IdentifiersAssumption DEF TypeInv, RowsOK, TypeOK, Known, None
<1>3. PICK g : g = Identities({In(r).signature}, {In(r).id}, {In(r).key})
  OBVIOUS
<1>4. /\ {In(r).signature} \ {None} \subseteq Identifiers
      /\ {In(r).id} \in SUBSET Identifiers /\ {In(r).key} \in SUBSET Identifiers
      /\ In(r).signature \in {In(r).signature} \ {None}
  BY <1>1, <1>2 DEF Identifiers
<1>5. /\ Ascending(g, 4 * Span, 7 * Span)
      /\ Listed(ParentLock(In(r).signature), g)
  BY <1>3, <1>4, IdentitiesAscend DEF ParentLock
<1>6. PICK y \in Lock : y = Exclusive(<<"sync", In(r).sync>>) /\ Rank(y.row) = 2 * Span
  BY <1>1, RankOfOthers
<1>7. /\ Span \in Nat /\ 2 * Span \in Nat /\ 4 * Span \in Nat /\ 7 * Span \in Nat
      /\ Span <= 2 * Span /\ 2 * Span < 4 * Span /\ Span <= 4 * Span /\ 4 * Span <= 7 * Span
  BY Floors
<1>8. PICK f : f = <<y>>
  OBVIOUS
<1>9. Ascending(f, Span, 4 * Span)
  BY <1>6, <1>7, <1>8, OneAscends
<1>10. FirstLocks(r) = f \o g
  BY <1>3, <1>6, <1>8 DEF FirstLocks, IsKind
<1>11. Ascending(f \o g, Span, 7 * Span) /\ \A lock : Listed(lock, g) => Listed(lock, f \o g)
  BY <1>5, <1>7, <1>9, ConcatAscends
<1> QED  BY <1>5, <1>10, <1>11

\* Those of an update of a template, with the keys of a rename before the row.
LEMMA FirstLocksOfUpdate ==
    ASSUME TypeInv, NEW r \in Requests, req[r].pc # "idle", req[r].kind = "updateTemplate"
    PROVE  /\ Ascending(FirstLocks(r), Span, 8 * Span)
           /\ Listed(TemplateLock(In(r).id), FirstLocks(r))
<1>1. RowsOK /\ In(r).id \in Known(templates) /\ In(r).rename \in Keys \cup {None}
  BY DEF TypeInv, RequestOK, InputOK, In
<1>2. In(r).id \in Identifiers /\ templates[In(r).id].key \in Keys
  BY <1>1 DEF RowsOK, TypeOK, Known, Identifiers
<1>3. /\ Span \in Nat /\ 4 * Span \in Nat /\ 7 * Span \in Nat /\ 8 * Span \in Nat
      /\ Span <= 4 * Span /\ 7 * Span <= 7 * Span /\ Span <= 7 * Span /\ 7 * Span <= 8 * Span
      /\ 7 * Span + Span = 8 * Span
  BY Floors
<1>4. Ascending(RenameLocks(r), Span, 7 * Span)
  <2>1. CASE In(r).rename = None
    BY <2>1, NothingAscends DEF RenameLocks
  <2>2. CASE In(r).rename # None
    <3>1. PICK K : K = {templates[In(r).id].key, In(r).rename} \ {None}
      OBVIOUS
    <3>2. K \in SUBSET Identifiers
      BY <1>1, <1>2, <3>1 DEF Identifiers
    <3>3. RenameLocks(r) = Identities({}, {}, K)
      BY <2>2, <3>1 DEF RenameLocks
    <3>4. Ascending(Identities({}, {}, K), 4 * Span, 7 * Span)
      BY <3>2, IdentitiesAscend
    <3> QED  BY <1>3, <3>3, <3>4, WiderAscends
  <2> QED  BY <2>1, <2>2
<1>5. PICK x \in Lock : x = TemplateLock(In(r).id) /\ 7 * Span <= Rank(x.row) /\ Rank(x.row) < 8 * Span
  BY <1>2, <1>3, RankOfLocks, Floors DEF TemplateLock, Numbered
<1>6. Ascending(<<x>>, 7 * Span, 8 * Span) /\ Listed(x, <<x>>)
  BY <1>3, <1>5, OneAscends
<1>7. PICK f : f = RenameLocks(r)
  OBVIOUS
<1>8. FirstLocks(r) = Append(f, x)
  BY <1>5, <1>7 DEF FirstLocks, IsKind, TemplateLock
<1>9. Append(f, x) = f \o <<x>>
  BY <1>4, <1>7, AppendIsConcat DEF Ascending
<1>10. Ascending(f \o <<x>>, Span, 8 * Span) /\ Listed(x, f \o <<x>>)
  BY <1>3, <1>4, <1>6, <1>7, ConcatAscends
<1> QED  BY <1>5, <1>8, <1>9, <1>10

\* Those of the operations that lock a single row.
LEMMA FirstLocksOfOthers ==
    ASSUME TypeInv, NEW r \in Requests, req[r].pc # "idle"
    PROVE  /\ req[r].kind \in {"save", "legacyProbe", "patch", "probe", "preview", "testSend"} =>
                 Ascending(FirstLocks(r), Span, 2 * Span) /\ Listed(ConfigLock, FirstLocks(r))
           /\ req[r].kind = "updateSignature" => Ascending(FirstLocks(r), Span, 9 * Span)
<1>1. /\ Span \in Nat /\ 2 * Span \in Nat /\ 8 * Span \in Nat /\ 9 * Span \in Nat
      /\ Span <= Span /\ Span < 2 * Span /\ Span <= 8 * Span /\ 8 * Span + Span = 9 * Span
  BY Floors
<1>2. ASSUME req[r].kind \in {"save", "legacyProbe", "patch", "probe", "preview", "testSend"}
      PROVE  Ascending(FirstLocks(r), Span, 2 * Span) /\ Listed(ConfigLock, FirstLocks(r))
  <2>1. FirstLocks(r) = <<ConfigLock>>
    BY <1>2 DEF FirstLocks, IsKind
  <2>2. ConfigLock \in Lock /\ Rank(ConfigLock.row) = Span
    BY RankOfOthers
  <2> QED  BY <1>1, <2>1, <2>2, OneAscends
<1>3. ASSUME req[r].kind = "updateSignature"
      PROVE  Ascending(FirstLocks(r), Span, 9 * Span)
  <2>1. In(r).id \in Known(signatures)
    BY <1>3 DEF TypeInv, RequestOK, InputOK, In
  <2>2. In(r).id \in Identifiers
    BY <2>1 DEF TypeInv, RowsOK, TypeOK, Known, Identifiers
  <2>3. PICK x \in Lock : /\ x = Exclusive(<<"signature", In(r).id>>)
                          /\ 8 * Span <= Rank(x.row) /\ Rank(x.row) < 9 * Span
    BY <1>1, <2>2, RankOfLocks, Floors DEF Numbered
  <2>4. FirstLocks(r) = <<x>>
    BY <1>3, <2>3 DEF FirstLocks, IsKind
  <2>5. Rank(x.row) \in Nat
    BY <2>3, RankIsNatural DEF Lock
  <2> QED  BY <1>1, <2>3, <2>4, <2>5, OneAscends
<1> QED  BY <1>2, <1>3

\* The rows a commit changes, the templates before the signatures.
LEMMA AffectedRowsAscend ==
    ASSUME TypeInv, NEW r \in Requests
    PROVE  /\ Ascending(AffectedRows(r), 7 * Span, 9 * Span)
           /\ \A t \in AffectedTemplates(r) : Listed(TemplateLock(t), AffectedRows(r))
<1>1. AffectedTemplates(r) \in SUBSET Identifiers /\ AffectedSignatures(r) \in SUBSET Identifiers
  BY DEF AffectedTemplates, AffectedSignatures, TypeInv, RowsOK, TypeOK, Known, Identifiers
<1>2. PICK f, g : f = AllOf("template", AffectedTemplates(r)) /\ g = AllOf("signature", AffectedSignatures(r))
  OBVIOUS
<1>3. /\ 7 * Span \in Nat /\ 8 * Span \in Nat /\ 9 * Span \in Nat
      /\ 7 * Span <= 8 * Span /\ 8 * Span <= 9 * Span /\ 7 * Span + Span = 8 * Span /\ 8 * Span + Span = 9 * Span
  BY Floors
<1>4. /\ Ascending(f, 7 * Span, 8 * Span)
      /\ \A t \in AffectedTemplates(r) : Listed(TemplateLock(t), f)
  BY <1>1, <1>2, <1>3, AllOfAscends, Floors DEF Numbered, TemplateLock
<1>5. Ascending(g, 8 * Span, 9 * Span)
  BY <1>1, <1>2, <1>3, AllOfAscends, Floors DEF Numbered
<1>6. AffectedRows(r) = f \o g
  BY <1>2 DEF AffectedRows
<1>7. Ascending(f \o g, 7 * Span, 9 * Span) /\ \A lock : Listed(lock, f) => Listed(lock, f \o g)
  BY <1>3, <1>4, <1>5, ConcatAscends
<1> QED  BY <1>4, <1>6, <1>7

-----------------------------------------------------------------------------
(* The order of the locks holds *)

\* The ceilings, and the locks of a request at one.
LEMMA CeilingIsNatural ==
    ASSUME NEW r
    PROVE  Ceiling(r) \in Nat /\ Ceiling(r) <= 9 * Span
<1>1. Span \in Nat
  BY Floors
<1> QED  BY <1>1 DEF Ceiling

\* What is held has a rank.
LEMMA HeldHasRank ==
    ASSUME LockInv, NEW l \in locks
    PROVE  Rank(l.row) \in Nat
<1>1. l.row \in Rows
  BY DEF LockInv, HeldLock
<1> QED  BY <1>1, RankIsNatural

\* A request asks for locks above those it has.
LEMMA AskKeepsOrder ==
    ASSUME LockInv, NEW r \in Requests, NEW list, NEW floor \in Nat, NEW ceiling \in Nat,
           Ask(r, list), Ascending(list, floor, ceiling),
           Ceiling(r) <= floor, Ceiling(r) <= Ceiling(r)', ceiling <= Ceiling(r)',
           \A q \in Requests \ {r} : req'[q] = req[q]
    PROVE  LockInv'
<1>1. DOMAIN todo = Requests
  BY DEF LockInv
<1>2. /\ locks' = locks /\ DOMAIN todo' = Requests /\ todo'[r] = list
      /\ \A q \in Requests \ {r} : todo'[q] = todo[q]
  BY <1>1 DEF Ask
<1>3. \A q \in Requests \ {r} : Ceiling(q)' = Ceiling(q)
  BY DEF Ceiling, IsKind
<1>4. Ceiling(r) \in Nat /\ Ceiling(r)' \in Nat
  <2>1. Span \in Nat
    BY Floors
  <2> QED  BY <2>1 DEF Ceiling
<1>5. ASSUME NEW q \in Requests \ {r}
      PROVE  /\ Ascending(todo'[q], 0, Ceiling(q)')
             /\ \A l \in locks' : l.owner = q =>
                   /\ Rank(l.row) < Ceiling(q)'
                   /\ \A i \in 1 .. Len(todo'[q]) : Rank(l.row) < Rank(todo'[q][i].row)
  BY <1>2, <1>3 DEF LockInv
<1>6. Ascending(list, 0, Ceiling(r)')
  BY <1>4, WiderAscends
<1>7. \A i \in 1 .. Len(list) : Rank(list[i].row) \in Nat /\ floor <= Rank(list[i].row)
  <2>1. \A i \in 1 .. Len(list) : list[i] \in Lock
    BY DEF Ascending
  <2>2. \A lock \in Lock : Rank(lock.row) \in Nat
    BY RankIsNatural DEF Lock
  <2> QED  BY <2>1, <2>2 DEF Ascending
<1>8. ASSUME NEW l \in locks, l.owner = r
      PROVE  /\ Rank(l.row) < Ceiling(r)'
             /\ \A i \in 1 .. Len(list) : Rank(l.row) < Rank(list[i].row)
  <2>1. Rank(l.row) < Ceiling(r) /\ Rank(l.row) \in Nat
    BY <1>8, HeldHasRank DEF LockInv
  <2> QED  BY <1>4, <1>7, <2>1
<1>9. /\ locks' \subseteq HeldLock
      /\ \A k, l \in locks' : k.owner # l.owner => ~Conflicting(k, l)
  BY <1>2 DEF LockInv
<1>10. \A q \in Requests :
          /\ Ascending(todo'[q], 0, Ceiling(q)')
          /\ \A l \in locks' : l.owner = q =>
                /\ Rank(l.row) < Ceiling(q)'
                /\ \A i \in 1 .. Len(todo'[q]) : Rank(l.row) < Rank(todo'[q][i].row)
  <2> SUFFICES ASSUME NEW q \in Requests
               PROVE  /\ Ascending(todo'[q], 0, Ceiling(q)')
                      /\ \A l \in locks' : l.owner = q =>
                            /\ Rank(l.row) < Ceiling(q)'
                            /\ \A i \in 1 .. Len(todo'[q]) : Rank(l.row) < Rank(todo'[q][i].row)
    OBVIOUS
  <2>1. CASE q = r
    BY <1>2, <1>6, <1>8, <2>1
  <2>2. CASE q # r
    BY <1>5, <2>2
  <2> QED  BY <2>1, <2>2
<1> QED  BY <1>2, <1>9, <1>10 DEF LockInv

\* A request goes on without asking for a lock.
LEMMA MoveKeepsOrder ==
    ASSUME LockInv, NEW r \in Requests, UNCHANGED <<locks, todo>>,
           Ceiling(r) <= Ceiling(r)', \A q \in Requests \ {r} : req'[q] = req[q]
    PROVE  LockInv'
<1>1. \A q \in Requests \ {r} : Ceiling(q)' = Ceiling(q)
  BY DEF Ceiling, IsKind
<1>2. \A q \in Requests : Ceiling(q) \in Nat /\ Ceiling(q)' \in Nat
  <2>1. Span \in Nat
    BY Floors
  <2> QED  BY <2>1 DEF Ceiling
<1>3. \A q \in Requests : Ceiling(q) <= Ceiling(q)'
  BY <1>1, <1>2
<1>4. ASSUME NEW q \in Requests
      PROVE  Ascending(todo[q], 0, Ceiling(q)')
  <2>1. Ascending(todo[q], 0, Ceiling(q))
    BY DEF LockInv
  <2> QED  BY <1>2, <1>3, <2>1, WiderAscends
<1>5. ASSUME NEW q \in Requests, NEW l \in locks, l.owner = q
      PROVE  /\ Rank(l.row) < Ceiling(q)'
             /\ \A i \in 1 .. Len(todo[q]) : Rank(l.row) < Rank(todo[q][i].row)
  <2>1. /\ Rank(l.row) < Ceiling(q)
        /\ \A i \in 1 .. Len(todo[q]) : Rank(l.row) < Rank(todo[q][i].row)
    BY <1>5 DEF LockInv
  <2> QED  BY <1>2, <1>3, <2>1, HeldHasRank
<1>6. /\ DOMAIN todo = Requests /\ locks \subseteq HeldLock
      /\ \A k, l \in locks : k.owner # l.owner => ~Conflicting(k, l)
  BY DEF LockInv
<1> QED  BY <1>4, <1>5, <1>6 DEF LockInv

\* A request that is done has no locks.
LEMMA ReleaseKeepsOrder ==
    ASSUME LockInv, NEW r \in Requests, Release(r),
           \A q \in Requests \ {r} : req'[q] = req[q]
    PROVE  LockInv'
<1>1. DOMAIN todo = Requests
  BY DEF LockInv
<1>2. /\ locks' = {l \in locks : l.owner # r} /\ DOMAIN todo' = Requests /\ todo'[r] = <<>>
      /\ \A q \in Requests \ {r} : todo'[q] = todo[q]
  BY <1>1 DEF Release
<1>3. \A q \in Requests \ {r} : Ceiling(q)' = Ceiling(q)
  BY DEF Ceiling, IsKind
<1>4. ASSUME NEW q \in Requests
      PROVE  /\ Ascending(todo'[q], 0, Ceiling(q)')
             /\ \A l \in locks' : l.owner = q =>
                   /\ Rank(l.row) < Ceiling(q)'
                   /\ \A i \in 1 .. Len(todo'[q]) : Rank(l.row) < Rank(todo'[q][i].row)
  <2>1. CASE q = r
    BY <1>2, <2>1, NothingAscends
  <2>2. CASE q # r
    BY <1>2, <1>3, <2>2 DEF LockInv
  <2> QED  BY <2>1, <2>2
<1>5. /\ locks' \subseteq HeldLock
      /\ \A k, l \in locks' : k.owner # l.owner => ~Conflicting(k, l)
  BY <1>2 DEF LockInv
<1> QED  BY <1>2, <1>4, <1>5 DEF LockInv

\* A request takes the next of its locks.
LEMMA AcquireKeepsOrder ==
    ASSUME LockInv, NEW r \in Requests, Acquire(r), UNCHANGED req
    PROVE  LockInv'
<1>1. PICK list : list = todo[r]
  OBVIOUS
<1>2. Ascending(list, 0, Ceiling(r)) /\ list # <<>>
  BY <1>1 DEF LockInv, Acquire, HasLocks
<1>3. list \in Seq(Lock) /\ Len(list) \in Nat \ {0}
  BY <1>2 DEF Ascending
<1>4. PICK head \in Lock : head = Head(list) /\ head = list[1]
  BY <1>2, <1>3
<1>5. PICK new : new = [owner |-> r, row |-> head.row, mode |-> head.mode]
  OBVIOUS
<1>6. new \in HeldLock /\ new.owner = r /\ new.row = head.row /\ new.mode = head.mode
  BY <1>4, <1>5 DEF Lock, HeldLock
<1>7. DOMAIN todo = Requests
  BY DEF LockInv
<1>8. /\ locks' = locks \cup {new} /\ DOMAIN todo' = Requests /\ todo'[r] = Tail(list)
      /\ \A q \in Requests \ {r} : todo'[q] = todo[q]
  BY <1>1, <1>4, <1>5, <1>7 DEF Acquire
<1>9. \A q \in Requests : Ceiling(q)' = Ceiling(q)
  BY DEF Ceiling, IsKind
<1>10. \A l \in locks : l.owner # r => ~Conflicting(l, new) /\ ~Conflicting(new, l)
  <2>1. \A l \in locks : l.owner \in Requests
    BY DEF LockInv, HeldLock
  <2>2. \A q \in Requests : q # r => \A l \in locks : l.owner = q => ~Conflicting(l, head)
    BY <1>1, <1>4 DEF Acquire, Blocks, HasLocks
  <2>3. \A l \in locks : l.owner # r => ~Conflicting(l, head)
    BY <2>1, <2>2
  <2> QED  BY <1>6, <2>3 DEF Conflicting
<1>11. \A k, l \in locks' : k.owner # l.owner => ~Conflicting(k, l)
  BY <1>6, <1>8, <1>10 DEF LockInv
<1>12. /\ Tail(list) \in Seq(Lock) /\ Len(Tail(list)) = Len(list) - 1
       /\ \A i \in 1 .. Len(Tail(list)) : i + 1 \in 1 .. Len(list) /\ Tail(list)[i] = list[i + 1]
  BY <1>2, <1>3
<1>13. Ascending(Tail(list), 0, Ceiling(r))
  <2>1. \A i, j \in 1 .. Len(Tail(list)) : i < j => i + 1 < j + 1
    BY <1>3, <1>12
  <2>2. \A i, j \in 1 .. Len(list) : i < j => Rank(list[i].row) < Rank(list[j].row)
    BY <1>2 DEF Ascending
  <2>3. \A i \in 1 .. Len(list) : 0 <= Rank(list[i].row) /\ Rank(list[i].row) < Ceiling(r)
    BY <1>2 DEF Ascending
  <2>4. \A i, j \in 1 .. Len(Tail(list)) : i < j => Rank(Tail(list)[i].row) < Rank(Tail(list)[j].row)
    BY <1>12, <2>1, <2>2
  <2>5. \A i \in 1 .. Len(Tail(list)) : 0 <= Rank(Tail(list)[i].row) /\ Rank(Tail(list)[i].row) < Ceiling(r)
    BY <1>12, <2>3
  <2> QED  BY <1>12, <2>4, <2>5 DEF Ascending
<1>14. ASSUME NEW l \in locks', l.owner = r
       PROVE  /\ Rank(l.row) < Ceiling(r)
              /\ \A i \in 1 .. Len(Tail(list)) : Rank(l.row) < Rank(Tail(list)[i].row)
  <2>1. CASE l = new
    <3>1. 1 \in 1 .. Len(list) /\ \A i \in 1 .. Len(Tail(list)) : 1 < i + 1
      BY <1>3, <1>12
    <3>2. Rank(head.row) < Ceiling(r)
      BY <1>2, <1>4, <3>1 DEF Ascending
    <3>3. \A i \in 1 .. Len(Tail(list)) : Rank(head.row) < Rank(list[i + 1].row)
      BY <1>2, <1>4, <1>12, <3>1 DEF Ascending
    <3> QED  BY <1>6, <1>12, <2>1, <3>2, <3>3
  <2>2. CASE l \in locks
    <3>1. Rank(l.row) < Ceiling(r) /\ \A i \in 1 .. Len(list) : Rank(l.row) < Rank(list[i].row)
      BY <1>1, <1>14, <2>2 DEF LockInv
    <3> QED  BY <1>12, <3>1
  <2> QED  BY <1>8, <2>1, <2>2
<1>15. ASSUME NEW q \in Requests
       PROVE  /\ Ascending(todo'[q], 0, Ceiling(q)')
              /\ \A l \in locks' : l.owner = q =>
                    /\ Rank(l.row) < Ceiling(q)'
                    /\ \A i \in 1 .. Len(todo'[q]) : Rank(l.row) < Rank(todo'[q][i].row)
  <2>1. CASE q = r
    BY <1>8, <1>9, <1>13, <1>14, <2>1
  <2>2. CASE q # r
    <3>1. \A l \in locks' : l.owner = q => l \in locks
      BY <1>6, <1>8, <2>2
    <3> QED  BY <1>8, <1>9, <2>2, <3>1 DEF LockInv
  <2> QED  BY <2>1, <2>2
<1>16. locks' \subseteq HeldLock
  BY <1>6, <1>8 DEF LockInv
<1> QED  BY <1>8, <1>11, <1>15, <1>16 DEF LockInv

\* The fields of a request that moves with something it has seen.
LEMMA FieldsAfterSees ==
    ASSUME TypeInv, NEW r \in Requests, req[r].pc # "idle", NEW pc, NEW view, Sees(r, view, pc)
    PROVE  /\ DOMAIN req' = Requests
           /\ \A q \in Requests \ {r} : req'[q] = req[q]
           /\ req'[r].pc = pc /\ req'[r].kind = req[r].kind /\ req'[r].key = req[r].key
           /\ req'[r].in = req[r].in /\ req'[r].view = view
<1>1. PICK x : x = req[r]
  OBVIOUS
<1>2. /\ DOMAIN req' = Requests
      /\ \A q \in Requests \ {r} : req'[q] = req[q]
      /\ req'[r] = [pc |-> pc, kind |-> x.kind, key |-> x.key, in |-> x.in, view |-> view]
  BY <1>1, FieldsStay
<1>3. PICK y : y = req'[r]
  OBVIOUS
<1>4. y = [pc |-> pc, kind |-> x.kind, key |-> x.key, in |-> x.in, view |-> view]
  BY <1>2, <1>3
<1>5. y.pc = pc /\ y.kind = x.kind /\ y.key = x.key /\ y.in = x.in /\ y.view = view
  BY ONLY <1>4
<1> QED  BY <1>1, <1>2, <1>3, <1>5

\* The fields of a request that writes its program counter only.
LEMMA FieldsAfterGoto ==
    ASSUME TypeInv, NEW r \in Requests, req[r].pc # "idle", NEW pc, Goto(r, pc)
    PROVE  /\ DOMAIN req' = Requests
           /\ \A q \in Requests \ {r} : req'[q] = req[q]
           /\ req'[r].pc = pc /\ req'[r].kind = req[r].kind /\ req'[r].key = req[r].key
           /\ req'[r].in = req[r].in /\ req'[r].view = req[r].view
<1>1. PICK x : x = req[r]
  OBVIOUS
<1>2. /\ DOMAIN req' = Requests
      /\ \A q \in Requests \ {r} : req'[q] = req[q]
      /\ req'[r] = [pc |-> pc, kind |-> x.kind, key |-> x.key, in |-> x.in, view |-> x.view]
  <2>1. req' = [req EXCEPT ![r].pc = pc]
    BY DEF Goto
  <2> QED  BY <1>1, <2>1, OthersStay
<1>3. PICK y : y = req'[r]
  OBVIOUS
<1>4. y = [pc |-> pc, kind |-> x.kind, key |-> x.key, in |-> x.in, view |-> x.view]
  BY <1>2, <1>3
<1>5. y.pc = pc /\ y.kind = x.kind /\ y.key = x.key /\ y.in = x.in /\ y.view = x.view
  BY ONLY <1>4
<1> QED  BY <1>1, <1>2, <1>3, <1>5

\* The lock of an idempotency key comes before all others.
LEMMA OperationLockAscends ==
    ASSUME NEW x, x.kind \in Kinds, x.key \in OperationKeys
    PROVE  Ascending(<<OperationLock(x)>>, 0, Span) /\ Listed(OperationLock(x), <<OperationLock(x)>>)
<1>1. \A row \in Rows : Exclusive(row) \in Lock /\ Exclusive(row).row = row
  BY DEF Exclusive, Lock
<1>2. OperationLock(x) \in Lock /\ Rank(OperationLock(x).row) = 0
  BY <1>1, RankOfOthers DEF OperationLock
<1>3. Span \in Nat \ {0}
  BY Floors
<1> QED  BY <1>2, <1>3, OneAscends

\* What a request asks for when it starts.
LEMMA StartKeepsOrder ==
    ASSUME TypeInv, LockInv, NEW r \in Requests, NEW kind \in Kinds, NEW key, NEW in,
           req[r].pc = "idle", kind \in Claimed => key \in OperationKeys, Start(r, kind, key, in)
    PROVE  LockInv'
<1>1. PICK claims \in {"claim", "begun"} :
         claims = IF kind \in Claimed \ {"preview"} THEN "claim" ELSE "begun"
  OBVIOUS
<1>2. PICK x : x = [pc |-> claims, kind |-> kind, key |-> key, in |-> in, view |-> {}]
  OBVIOUS
<1>3. x.pc = claims /\ x.kind = kind /\ x.key = key
  BY <1>2
<1>4. PICK list : list = IF claims = "claim" THEN <<OperationLock(x)>> ELSE <<>>
  OBVIOUS
<1>5. req' = [req EXCEPT ![r] = x] /\ Ask(r, list)
  BY <1>1, <1>2, <1>4 DEF Start
<1>6. DOMAIN req = Requests
  BY DEF TypeInv
<1>7. req'[r] = x /\ \A q \in Requests \ {r} : req'[q] = req[q]
  BY <1>5, <1>6
<1>8. Span \in Nat
  BY Floors
<1>9. Ceiling(r) = 0
  BY DEF Ceiling
<1>10. CASE claims = "claim"
  <2>1. Ascending(list, 0, Span)
    BY <1>1, <1>3, <1>4, <1>10, OperationLockAscends
  <2>2. Ceiling(r)' = Span
    BY <1>3, <1>7, <1>10 DEF Ceiling
  <2> QED  BY <1>5, <1>7, <1>8, <1>9, <2>1, <2>2, AskKeepsOrder
<1>11. CASE claims = "begun"
  <2>1. Ascending(list, 0, 0)
    BY <1>4, <1>11, NothingAscends
  <2>2. Ceiling(r)' = 0
    BY <1>3, <1>7, <1>11 DEF Ceiling
  <2> QED  BY <1>5, <1>7, <1>9, <2>1, <2>2, AskKeepsOrder
<1> QED  BY <1>10, <1>11

\* A request begins or is repeated.
LEMMA BeginKeepsOrder ==
    ASSUME TypeInv, LockInv, NEW r \in Requests, Begin(r) \/ \E q \in Requests : Repeat(r, q)
    PROVE  LockInv'
<1>1. CASE Begin(r)
  <2>1. PICK kind \in req[r].kinds :
           \E in \in InputsOf(kind), key \in IF kind \in Claimed THEN OperationKeys ELSE {None} :
              Start(r, kind, key, in)
    BY <1>1 DEF Begin
  <2>2. PICK in \in InputsOf(kind), key \in IF kind \in Claimed THEN OperationKeys ELSE {None} :
           Start(r, kind, key, in)
    BY <2>1
  <2>3. kind \in Kinds /\ req[r].pc = "idle"
    BY <1>1 DEF Begin, TypeInv, RequestOK
  <2>4. kind \in Claimed => key \in OperationKeys
    BY <2>2
  <2> QED  BY <2>2, <2>3, <2>4, StartKeepsOrder
<1>2. ASSUME NEW q \in Requests, Repeat(r, q)
      PROVE  LockInv'
  <2>1. /\ req[q].pc # "idle" /\ req[q].kind \in Claimed /\ Start(r, req[q].kind, req[q].key, req[q].in)
        /\ req[r].pc = "idle"
    BY <1>2 DEF Repeat, IsKind, In
  <2>2. PICK x : x = req[q]
    OBVIOUS
  <2>3. x.key \in OperationKeys
    BY <2>1, <2>2 DEF TypeInv, RequestOK
  <2>4. x.kind \in Kinds
    BY <2>1, <2>2 DEF Kinds
  <2> QED  BY <2>1, <2>2, <2>3, <2>4, StartKeepsOrder
<1> QED  BY <1>1, <1>2

\* A request that is done has let go of its locks.
LEMMA FinishKeepsOrder ==
    ASSUME TypeInv, LockInv, NEW r \in Requests, Finish(r)
    PROVE  LockInv'
<1>1. \A q \in Requests \ {r} : req'[q] = req[q]
  BY DEF TypeInv, Finish, Goto
<1> QED  BY <1>1, ReleaseKeepsOrder DEF Finish

\* What is asked for after the read before a transaction, and after a discovery.
LEMMA BegunKeepsOrder ==
    ASSUME TypeInv, LockInv, NEW r \in Requests, ReadBefore(r) \/ Discover(r)
    PROVE  LockInv'
<1>1. Span \in Nat
  BY Floors
<1>2. req[r].pc = "begun" /\ req[r].pc # "idle"
  BY DEF ReadBefore, Discover, At
<1>3. Ceiling(r) = 0
  BY <1>2 DEF Ceiling
<1>4. CASE ReadBefore(r)
  <2>1. Sees(r, config, "work") /\ req[r].kind \in {"save", "legacyProbe"} /\ Ask(r, FirstLocks(r))
    BY <1>4 DEF ReadBefore, Sees, IsKind
  <2>2. req'[r].pc = "work" /\ \A q \in Requests \ {r} : req'[q] = req[q]
    BY <1>2, <2>1, FieldsAfterSees
  <2>3. Ceiling(r)' = 9 * Span
    BY <2>2 DEF Ceiling
  <2>4. Ascending(FirstLocks(r), Span, 2 * Span)
    BY <1>2, <2>1, FirstLocksOfOthers
  <2>5. PICK list : list = FirstLocks(r)
    OBVIOUS
  <2>6. 2 * Span \in Nat /\ 0 <= Span /\ 0 <= 9 * Span /\ 2 * Span <= 9 * Span
    BY <1>1
  <2> QED  BY <1>1, <1>3, <2>1, <2>2, <2>3, <2>4, <2>5, <2>6, AskKeepsOrder
<1>5. CASE Discover(r)
  <2>1. PICK view : Sees(r, view, "claim")
    BY <1>5 DEF Discover, Sees
  <2>2. /\ req'[r].pc = "claim" /\ \A q \in Requests \ {r} : req'[q] = req[q]
    BY <1>2, <2>1, FieldsAfterSees
  <2>3. Ceiling(r)' = Span
    BY <2>2 DEF Ceiling
  <2>4. PICK x : x = req[r]
    OBVIOUS
  <2>5. x.kind = "preview" /\ x.kind \in Kinds /\ x.key \in OperationKeys
    BY <1>2, <1>5, <2>4 DEF Discover, IsKind, TypeInv, RequestOK, Kinds, Claimed
  <2>6. PICK list : list = <<OperationLock(x)>>
    OBVIOUS
  <2>7. Ask(r, list) /\ Ascending(list, 0, Span)
    BY <1>5, <2>4, <2>5, <2>6, OperationLockAscends DEF Discover
  <2> QED  BY <1>1, <1>3, <2>2, <2>3, <2>7, AskKeepsOrder
<1> QED  BY <1>4, <1>5

\* The first locks of a transaction.
LEMMA ClaimKeepsOrder ==
    ASSUME TypeInv, LockInv, NEW r \in Requests, Claim(r)
    PROVE  LockInv'
<1>1. /\ Span \in Nat /\ 2 * Span \in Nat /\ 7 * Span \in Nat /\ 8 * Span \in Nat /\ 9 * Span \in Nat
      /\ Span <= 2 * Span /\ Span <= 7 * Span /\ Span <= 8 * Span /\ Span <= 9 * Span /\ 2 * Span <= 9 * Span
  BY Floors
<1>2. PICK x : x = req[r]
  OBVIOUS
<1>3. PICK pc : pc = IF IsKind(r, {"commit", "import", "updateTemplate", "testSend"}) THEN "fenced" ELSE "work"
  OBVIOUS
<1>4. x.pc = "claim" /\ Goto(r, pc) /\ Ask(r, FirstLocks(r))
  BY <1>2, <1>3 DEF Claim, At
<1>5. x.kind \in Claimed
  BY <1>2, <1>4 DEF TypeInv, RequestOK, KindsAt
<1>6. req[r].pc # "idle"
  BY <1>2, <1>4
<1>7. req'[r].pc = pc /\ req'[r].kind = x.kind /\ \A q \in Requests \ {r} : req'[q] = req[q]
  BY <1>2, <1>4, <1>6, FieldsAfterGoto
<1>8. Ceiling(r) = Span
  BY <1>2, <1>4 DEF Ceiling
<1>9. PICK list : list = FirstLocks(r)
  OBVIOUS
<1>10. CASE x.kind \in {"commit", "import"}
  <2>1. Ascending(list, Span, 7 * Span)
    BY <1>2, <1>6, <1>9, <1>10, FirstLocksOfCommit, FirstLocksOfImport
  <2>2. Ceiling(r)' = 7 * Span
    BY <1>2, <1>3, <1>7, <1>10 DEF Ceiling, IsKind
  <2> QED  BY <1>1, <1>4, <1>7, <1>8, <1>9, <2>1, <2>2, AskKeepsOrder
<1>11. CASE x.kind = "updateTemplate"
  <2>1. Ascending(list, Span, 8 * Span)
    BY <1>2, <1>6, <1>9, <1>11, FirstLocksOfUpdate
  <2>2. Ceiling(r)' = 8 * Span
    BY <1>2, <1>3, <1>7, <1>11 DEF Ceiling, IsKind
  <2> QED  BY <1>1, <1>4, <1>7, <1>8, <1>9, <2>1, <2>2, AskKeepsOrder
<1>12. CASE x.kind = "testSend"
  <2>1. Ascending(list, Span, 2 * Span)
    BY <1>2, <1>6, <1>9, <1>12, FirstLocksOfOthers
  <2>2. Ceiling(r)' = 2 * Span
    BY <1>2, <1>3, <1>7, <1>12 DEF Ceiling, IsKind
  <2> QED  BY <1>1, <1>4, <1>7, <1>8, <1>9, <2>1, <2>2, AskKeepsOrder
<1>13. CASE x.kind \in {"patch", "probe", "preview", "updateSignature"}
  <2>1. Ascending(list, Span, 2 * Span) \/ Ascending(list, Span, 9 * Span)
    BY <1>2, <1>6, <1>9, <1>13, FirstLocksOfOthers
  <2>2. pc = "work"
    BY <1>2, <1>3, <1>13 DEF IsKind
  <2>3. Ceiling(r)' = 9 * Span
    BY <1>7, <2>2 DEF Ceiling
  <2> QED  BY <1>1, <1>4, <1>7, <1>8, <1>9, <2>1, <2>3, AskKeepsOrder
<1> QED  BY <1>5, <1>10, <1>11, <1>12, <1>13 DEF Claimed

\* The shared lock of a signature comes after all others.
LEMMA ParentAscends ==
    ASSUME NEW s \in Signatures
    PROVE  Ascending(<<Shared(<<"signature", s>>)>>, 8 * Span, 9 * Span)
<1>1. 8 * Span \in Nat /\ 9 * Span \in Nat /\ 8 * Span + Span = 9 * Span
  BY Floors
<1>2. PICK x \in Lock : /\ x = Shared(<<"signature", s>>)
                        /\ 8 * Span <= Rank(x.row) /\ Rank(x.row) < 9 * Span
  BY <1>1, RankOfLocks, Floors DEF Numbered, Identifiers
<1> QED  BY <1>1, <1>2, OneAscends

\* The last locks of a transaction.
LEMMA LastLocksKeepOrder ==
    ASSUME TypeInv, LockInv, NEW r \in Requests,
           LockAffected(r) \/ LockParent(r) \/ CheckUpdate(r) \/ CheckTemplate(r)
    PROVE  LockInv'
<1>1. /\ 7 * Span \in Nat /\ 8 * Span \in Nat /\ 9 * Span \in Nat
      /\ 7 * Span <= 7 * Span /\ 7 * Span <= 8 * Span /\ 7 * Span <= 9 * Span /\ 8 * Span <= 9 * Span
  BY Floors
<1>2. PICK x : x = req[r]
  OBVIOUS
<1>3. x.pc \in {"fenced", "target"} /\ Goto(r, "work") /\ req[r].pc # "idle"
  BY <1>2 DEF LockAffected, LockParent, CheckUpdate, CheckTemplate, At
<1>4. req'[r].pc = "work" /\ \A q \in Requests \ {r} : req'[q] = req[q]
  BY <1>3, FieldsAfterGoto
<1>5. Ceiling(r)' = 9 * Span
  BY <1>4 DEF Ceiling
<1>6. RowsOK /\ Known(templates) \subseteq Templates /\ Known(signatures) \subseteq Signatures
  BY DEF TypeInv, RowsOK, TypeOK, Known
<1>7. CASE LockAffected(r)
  <2>1. Ceiling(r) = 7 * Span
    BY <1>2, <1>7 DEF LockAffected, At, IsKind, Ceiling
  <2>2. PICK list : list = AffectedRows(r)
    OBVIOUS
  <2>3. Ask(r, list) /\ Ascending(list, 7 * Span, 9 * Span)
    BY <1>7, <2>2, AffectedRowsAscend DEF LockAffected
  <2> QED  BY <1>1, <1>4, <1>5, <2>1, <2>3, AskKeepsOrder
<1>8. CASE LockParent(r)
  <2>1. Ceiling(r) = 7 * Span
    BY <1>2, <1>8 DEF LockParent, At, IsKind, Ceiling
  <2>2. PICK s \in Signatures : s = In(r).signature
    <3>1. req[r].kind = "import"
      BY <1>8 DEF LockParent, IsKind
    <3> QED  BY <1>3, <1>6, <3>1 DEF TypeInv, RequestOK, InputOK, In
  <2>3. PICK list : list = <<Shared(<<"signature", s>>)>>
    OBVIOUS
  <2>4. Ask(r, list) /\ Ascending(list, 8 * Span, 9 * Span)
    BY <1>8, <2>2, <2>3, ParentAscends DEF LockParent
  <2> QED  BY <1>1, <1>4, <1>5, <2>1, <2>4, AskKeepsOrder
<1>9. CASE CheckUpdate(r)
  <2>1. Ceiling(r) = 8 * Span
    BY <1>2, <1>9 DEF CheckUpdate, At, IsKind, Ceiling
  <2>2. In(r).id \in Known(templates)
    <3>1. req[r].kind = "updateTemplate"
      BY <1>9 DEF CheckUpdate, IsKind
    <3> QED  BY <1>3, <3>1 DEF TypeInv, RequestOK, InputOK, In
  <2>3. PICK s \in Signatures : s = templates[In(r).id].signature
    BY <1>6, <2>2 DEF RowsOK
  <2>4. PICK list : list = <<Shared(<<"signature", s>>)>>
    OBVIOUS
  <2>5. Ascending(list, 8 * Span, 9 * Span)
    BY <2>4, ParentAscends
  <2>6. Ask(r, list) \/ UNCHANGED <<locks, todo>>
    BY <1>9, <2>3, <2>4 DEF CheckUpdate
  <2>7. CASE Ask(r, list)
    BY <1>1, <1>4, <1>5, <2>1, <2>5, <2>7, AskKeepsOrder
  <2>8. CASE UNCHANGED <<locks, todo>>
    BY <1>1, <1>4, <1>5, <2>1, <2>8, MoveKeepsOrder
  <2> QED  BY <2>6, <2>7, <2>8
<1>10. CASE CheckTemplate(r)
  <2>1. req[r].pc = "target" /\ Ceiling(r) = 8 * Span
    BY <1>10 DEF CheckTemplate, At, Ceiling
  <2>2. req[r].view \in Known(templates)
    <3>1. req[r].kind \in {"send", "testSend"}
      BY <1>3, <2>1 DEF TypeInv, RequestOK, KindsAt
    <3> QED  BY <1>3, <2>1, <3>1 DEF TypeInv, RequestOK, ViewOK
  <2>3. PICK s \in Signatures : s = templates[req[r].view].signature
    BY <1>6, <2>2 DEF RowsOK
  <2>4. PICK list : list = <<Shared(<<"signature", s>>)>>
    OBVIOUS
  <2>5. Ask(r, list) /\ Ascending(list, 8 * Span, 9 * Span)
    BY <1>10, <2>3, <2>4, ParentAscends DEF CheckTemplate
  <2> QED  BY <1>1, <1>4, <1>5, <2>1, <2>5, AskKeepsOrder
<1> QED  BY <1>7, <1>8, <1>9, <1>10

\* The shared lock of a template comes after the configuration.
LEMMA FindKeepsOrder ==
    ASSUME TypeInv, LockInv, NEW r \in Requests, FindTemplate(r)
    PROVE  LockInv'
<1>1. /\ 7 * Span \in Nat /\ 8 * Span \in Nat /\ 0 <= 7 * Span /\ 2 * Span <= 7 * Span
      /\ 0 <= 8 * Span /\ 2 * Span <= 8 * Span /\ 8 * Span <= 8 * Span /\ 7 * Span + Span = 8 * Span
  BY Floors
<1>2. req[r].pc # "idle" /\ (Ceiling(r) = 0 \/ Ceiling(r) = 2 * Span)
  BY DEF FindTemplate, At, IsKind, Ceiling
<1>3. PICK t \in Known(templates) : Sees(r, t, "target") /\ Ask(r, <<Shared(<<"template", t>>)>>)
  BY DEF FindTemplate, Sees
<1>4. req'[r].pc = "target" /\ \A q \in Requests \ {r} : req'[q] = req[q]
  BY <1>2, <1>3, FieldsAfterSees
<1>5. Ceiling(r)' = 8 * Span
  BY <1>4 DEF Ceiling
<1>6. t \in Identifiers
  BY DEF TypeInv, RowsOK, TypeOK, Known, Identifiers
<1>7. PICK x \in Lock : /\ x = Shared(<<"template", t>>)
                        /\ 7 * Span <= Rank(x.row) /\ Rank(x.row) < 8 * Span
  BY <1>1, <1>6, RankOfLocks, Floors DEF Numbered
<1>8. PICK list : list = <<x>>
  OBVIOUS
<1>9. Ask(r, list) /\ Ascending(list, 7 * Span, 8 * Span)
  BY <1>1, <1>3, <1>7, <1>8, OneAscends
<1> QED  BY <1>1, <1>2, <1>4, <1>5, <1>9, AskKeepsOrder

\* Every step keeps the order of the locks.
LEMMA LocksHold == TypeInv /\ LockInv /\ [Next]_vars => LockInv'
<1> SUFFICES ASSUME TypeInv, LockInv, [Next]_vars  PROVE LockInv'
  OBVIOUS
<1>1. CASE UNCHANGED vars
  <2>1. locks' = locks /\ todo' = todo /\ req' = req
    BY <1>1 DEF vars
  <2>2. \A r \in Requests : Ceiling(r)' = Ceiling(r)
    BY <2>1 DEF Ceiling, IsKind
  <2> QED  BY <2>1, <2>2 DEF LockInv
<1>2. CASE Next
  <2>1. PICK r \in Requests :
           \/ Begin(r) \/ (\E q \in Requests : Repeat(r, q)) \/ GiveUp(r)
           \/ ReadBefore(r) \/ Discover(r) \/ Claim(r) \/ Replay(r)
           \/ TakeLock(r)
           \/ LockAffected(r) \/ LockParent(r) \/ CheckUpdate(r)
           \/ FindTemplate(r) \/ CheckTemplate(r)
           \/ Work(r)
    BY <1>2 DEF Next
  <2>2. CASE Begin(r) \/ (\E q \in Requests : Repeat(r, q))
    BY <2>2, BeginKeepsOrder
  <2>3. CASE GiveUp(r) \/ Replay(r)
    BY <2>3, FinishKeepsOrder DEF GiveUp, Replay
  <2>4. CASE ReadBefore(r) \/ Discover(r)
    BY <2>4, BegunKeepsOrder
  <2>5. CASE Claim(r)
    BY <2>5, ClaimKeepsOrder
  <2>6. CASE LockAffected(r) \/ LockParent(r) \/ CheckUpdate(r) \/ CheckTemplate(r)
    BY <2>6, LastLocksKeepOrder
  <2>7. CASE FindTemplate(r)
    BY <2>7, FindKeepsOrder
  <2>8. CASE TakeLock(r)
    BY <2>8, AcquireKeepsOrder DEF TakeLock
  <2>9. CASE Work(r)
    <3>1. Finish(r)
      BY <2>9 DEF Work, SaveConfig, PatchConfig, RecordConnectionTest, CreateSyncPreview, CommitSync,
         ImportTemplate, UpdateSignature, UpdateTemplate, StoreMessage, Complete
    <3> QED  BY <3>1, FinishKeepsOrder
  <2> QED  BY <2>1, <2>2, <2>3, <2>4, <2>5, <2>6, <2>7, <2>8, <2>9
<1> QED  BY <1>1, <1>2

\* The order of the locks holds initially.
LEMMA InitLocks == Init => LockInv
<1> SUFFICES ASSUME Init  PROVE LockInv
  OBVIOUS
<1>1. locks = {} /\ todo = [r \in Requests |-> <<>>]
  BY DEF Init
<1>2. DOMAIN todo = Requests /\ \A r \in Requests : todo[r] = <<>>
  BY <1>1
<1>3. \A r \in Requests : Ascending(todo[r], 0, Ceiling(r))
  BY <1>2, NothingAscends
<1> QED  BY <1>1, <1>2, <1>3 DEF LockInv

\* Where the locks are taken in their order, no requests wait for each other in a
\* circle: the one that waits for the highest row waits for a request that waits for
\* a higher one.
LEMMA OrderMeansAcyclic == LockInv => LocksAreAcyclic
<1> SUFFICES ASSUME LockInv, NEW S \in (SUBSET Requests) \ {{}}, Deadlocked(S)
             PROVE  FALSE
  BY DEF LocksAreAcyclic
<1>1. ASSUME NEW r \in S
      PROVE  /\ 1 \in 1 .. Len(todo[r])
             /\ Rank(todo[r][1].row) \in Nat /\ Rank(todo[r][1].row) <= 9 * Span
             /\ Head(todo[r]) = todo[r][1]
  <2>1. PICK list : list = todo[r]
    OBVIOUS
  <2>2. Ascending(list, 0, Ceiling(r)) /\ list # <<>>
    BY <2>1 DEF LockInv, Deadlocked, Blocks, HasLocks
  <2>3. list \in Seq(Lock) /\ 1 \in 1 .. Len(list) /\ Head(list) = list[1] /\ list[1] \in Lock
    BY <2>2 DEF Ascending
  <2>4. Rank(list[1].row) < Ceiling(r)
    BY <2>2, <2>3 DEF Ascending
  <2>5. Rank(list[1].row) \in Nat
    BY <2>3, RankIsNatural DEF Lock
  <2>6. Ceiling(r) \in Nat /\ Ceiling(r) <= 9 * Span
    BY CeilingIsNatural
  <2>7. 9 * Span \in Nat
    BY Floors
  <2> QED  BY <2>1, <2>3, <2>4, <2>5, <2>6, <2>7
<1>2. 9 * Span \in Nat
  BY Floors
<1>3. PICK height : height = [r \in S |-> 9 * Span - Rank(todo[r][1].row)]
  OBVIOUS
<1>4. \A r \in S : height[r] \in Nat /\ height[r] = 9 * Span - Rank(todo[r][1].row)
  BY <1>1, <1>2, <1>3
<1> DEFINE R == {ss \in Nat \X Nat : ss[1] < ss[2]}
<1>5. IsWellFoundedOn(R, Nat)
  BY NatLessThanWellFounded DEF OpToRel
<1>6. \A i, j \in Nat : i < j => <<i, j>> \in R
  OBVIOUS
<1> HIDE DEF R
<1>7. PICK T : T = {height[r] : r \in S}
  OBVIOUS
<1>8. T \subseteq Nat
  BY <1>4, <1>7
<1>9. T # {}
  BY <1>7
<1>10. PICK x \in T : \A y \in T : ~(<<y, x>> \in R)
  BY <1>5, <1>8, <1>9, WFMin
<1>11. PICK r \in S : x = height[r]
  BY <1>7
<1>12. PICK q \in S : Blocks(q, r)
  BY DEF Deadlocked
<1>13. PICK l \in locks : l.owner = q /\ l.row = todo[r][1].row
  BY <1>1, <1>12 DEF Blocks, Conflicting
<1>14. Rank(l.row) < Rank(todo[q][1].row)
  BY <1>1, <1>13 DEF LockInv
<1>15. height[q] \in T /\ height[q] < height[r]
  BY <1>1, <1>2, <1>4, <1>7, <1>13, <1>14
<1> QED  BY <1>4, <1>6, <1>10, <1>11, <1>15

-----------------------------------------------------------------------------
(* The locks a request has stay with it *)

\* With no lock to wait for, what is secured is held.
LEMMA SecuredIsHeld ==
    ASSUME NEW r, HasLocks(r), NEW lock, Secured(r, lock)
    PROVE  Holds(r, lock)
<1>1. ~Listed(lock, todo[r])
  BY DEF HasLocks, Listed
<1> QED  BY <1>1 DEF Secured

\* The locks of a request that does nothing.
LEMMA LocksStay ==
    ASSUME NEW q, todo'[q] = todo[q], \A l \in locks : l.owner = q => l \in locks'
    PROVE  /\ \A lock : Holds(q, lock) => Holds(q, lock)'
           /\ \A lock : Secured(q, lock) => Secured(q, lock)'
<1>1. \A lock : Holds(q, lock) => Holds(q, lock)'
  BY DEF Holds
<1> QED  BY <1>1 DEF Secured, Listed

\* Those of a request that takes one.
LEMMA AcquireSecures ==
    ASSUME LockInv, NEW r \in Requests, Acquire(r)
    PROVE  /\ \A lock : Holds(r, lock) => Holds(r, lock)'
           /\ \A lock : Secured(r, lock) => Secured(r, lock)'
<1>1. PICK list : list = todo[r]
  OBVIOUS
<1>2. list \in Seq(Lock) /\ list # <<>>
  BY <1>1 DEF LockInv, Ascending, Acquire, HasLocks
<1>3. DOMAIN todo = Requests
  BY DEF LockInv
<1>4. /\ locks' = locks \cup {[owner |-> r, row |-> Head(list).row, mode |-> Head(list).mode]}
      /\ todo'[r] = Tail(list)
  BY <1>1, <1>3 DEF Acquire
<1>5. \A lock : Holds(r, lock) => Holds(r, lock)'
  BY <1>4 DEF Holds
<1>6. ASSUME NEW lock, Listed(lock, list)
      PROVE  Secured(r, lock)'
  <2>1. PICK i \in 1 .. Len(list) : list[i] = lock
    BY <1>6 DEF Listed
  <2>2. CASE i = 1
    <3>1. Head(list) = lock
      BY <1>2, <2>1, <2>2
    <3>2. Holds(r, lock)'
      BY <1>4, <3>1 DEF Holds
    <3> QED  BY <3>2 DEF Secured
  <2>3. CASE i # 1
    <3>1. i - 1 \in 1 .. Len(Tail(list)) /\ Tail(list)[i - 1] = lock
      BY <1>2, <2>1, <2>3
    <3>2. Listed(lock, Tail(list))
      BY <3>1 DEF Listed
    <3> QED  BY <1>4, <3>2 DEF Secured
  <2> QED  BY <2>2, <2>3
<1>7. \A lock : Secured(r, lock) => Secured(r, lock)'
  BY <1>1, <1>5, <1>6 DEF Secured
<1> QED  BY <1>5, <1>7

\* What a commit touches does not change while it runs.
LEMMA ScopeStays ==
    ASSUME TypeInv, RowsGrow, NEW q \in Requests, req[q].pc # "idle", req[q].kind = "commit",
           req'[q].in = req[q].in
    PROVE  ScopeOf(q)' = ScopeOf(q) /\ \A type : ChosenOf(q, type)' = ChosenOf(q, type)
<1>1. In(q)' = In(q)
  BY DEF In
<1>2. \A type : ChosenOf(q, type)' = ChosenOf(q, type)
  BY <1>1 DEF ChosenOf
<1>3. \A t \in ChosenOf(q, "template") : templates'[t].signature = templates[t].signature
  BY ScopeOfCommit DEF RowsGrow
<1> QED  BY <1>1, <1>2, <1>3 DEF ScopeOf

\* A request that stands still, or only takes a lock, keeps the locks it has.
LEMMA StandingHolds ==
    ASSUME TypeInv, RowsGrow, NEW q \in Requests, Kept(q), Wanted(q), req'[q] = req[q],
           \A lock : Holds(q, lock) => Holds(q, lock)',
           \A lock : Secured(q, lock) => Secured(q, lock)',
           req[q].pc = "work" /\ req[q].kind = "commit" =>
              \A t \in Known(templates)' \ Known(templates) : templates'[t].signature \notin ScopeOf(q)
    PROVE  Kept(q)' /\ Wanted(q)'
<1>1. req'[q].pc = req[q].pc /\ req'[q].kind = req[q].kind /\ In(q)' = In(q) /\ req'[q].view = req[q].view
  BY DEF In
<1>2. \A kinds : IsKind(q, kinds)' <=> IsKind(q, kinds)
  BY <1>1 DEF IsKind
<1>3. ASSUME req[q].pc # "idle", req[q].kind = "commit"
      PROVE  ScopeOf(q)' = ScopeOf(q) /\ ChosenOf(q, "template")' = ChosenOf(q, "template")
  BY <1>1, <1>3, ScopeStays DEF In
<1>4. Kept(q)'
  <2>1. req[q].pc \in {"fenced", "target", "work"} /\ IsKind(q, Claimed) => Holds(q, OperationLock(req[q]))'
    BY DEF Kept
  <2>2. req[q].pc \in {"target", "work"} /\ IsKind(q, {"testSend"}) => Holds(q, ConfigLock)'
    BY DEF Kept
  <2>3. ASSUME req[q].pc = "work", IsKind(q, {"send", "testSend"})
        PROVE  Holds(q, ReadLock(req[q].view))'
    BY <2>3 DEF Kept
  <2>5. ASSUME req[q].pc = "work", IsKind(q, {"updateTemplate"})
        PROVE  Holds(q, TemplateLock(In(q).id))'
    <3>1. PICK lock : lock = TemplateLock(In(q).id)
      OBVIOUS
    <3>2. Holds(q, lock)'
      BY <2>5, <3>1 DEF Kept
    <3>3. lock = TemplateLock(In(q).id)'
      BY <1>1, <3>1 DEF TemplateLock
    <3> QED  BY <3>2, <3>3 DEF Holds
  <2>6. ASSUME req[q].pc = "work", IsKind(q, {"import"})
        PROVE  Holds(q, ParentLock(In(q).signature))'
    <3>1. PICK lock : lock = ParentLock(In(q).signature)
      OBVIOUS
    <3>2. Holds(q, lock)'
      BY <2>6, <3>1 DEF Kept
    <3>3. lock = ParentLock(In(q).signature)'
      BY <1>1, <3>1 DEF ParentLock
    <3> QED  BY <3>2, <3>3 DEF Holds
  <2>4. ASSUME req[q].pc = "work", IsKind(q, {"commit"})
        PROVE  \A s \in ScopeOf(q)' \ {None} : Holds(q, ParentLock(s))'
    BY <1>3, <2>4 DEF Kept, IsKind
  <2> QED  BY <1>1, <1>2, <2>1, <2>2, <2>3, <2>4, <2>5, <2>6 DEF Kept
<1>5. Wanted(q)'
  <2>1. req[q].pc = "claim" => Secured(q, OperationLock(req[q]))'
    BY DEF Wanted
  <2>2. ASSUME req[q].pc = "fenced", IsKind(q, {"testSend"})
        PROVE  Secured(q, ConfigLock)'
    BY <2>2 DEF Wanted
  <2>8. ASSUME req[q].pc = "fenced", IsKind(q, {"updateTemplate"})
        PROVE  Secured(q, TemplateLock(In(q).id))'
    <3>1. PICK lock : lock = TemplateLock(In(q).id)
      OBVIOUS
    <3>2. Secured(q, lock)'
      BY <2>8, <3>1 DEF Wanted
    <3>3. lock = TemplateLock(In(q).id)'
      BY <1>1, <3>1 DEF TemplateLock
    <3> QED  BY <3>2, <3>3 DEF Secured, Holds
  <2>9. ASSUME req[q].pc = "fenced", IsKind(q, {"import"})
        PROVE  Secured(q, ParentLock(In(q).signature))'
    <3>1. PICK lock : lock = ParentLock(In(q).signature)
      OBVIOUS
    <3>2. Secured(q, lock)'
      BY <2>9, <3>1 DEF Wanted
    <3>3. lock = ParentLock(In(q).signature)'
      BY <1>1, <3>1 DEF ParentLock
    <3> QED  BY <3>2, <3>3 DEF Secured, Holds
  <2>3. ASSUME req[q].pc = "fenced", IsKind(q, {"commit"})
        PROVE  \A s \in ScopeOf(q)' \ {None} : Secured(q, ParentLock(s))'
    BY <1>3, <2>3 DEF Wanted, IsKind
  <2>4. req[q].pc = "target" => Secured(q, ReadLock(req[q].view))'
    BY DEF Wanted
  <2>5. req[q].pc = "work" /\ IsKind(q, {"save", "legacyProbe", "patch", "probe"}) => Secured(q, ConfigLock)'
    BY DEF Wanted
  <2>6. ASSUME req[q].pc = "work", IsKind(q, {"commit"}), NEW t \in Known(templates)',
               t \in ChosenOf(q, "template")' \/ templates'[t].signature \in ScopeOf(q)'
        PROVE  Secured(q, TemplateLock(t))'
    <3>1. req[q].kind = "commit" /\ req[q].pc # "idle"
      BY <2>6 DEF IsKind
    <3>2. t \in ChosenOf(q, "template") \/ templates'[t].signature \in ScopeOf(q)
      BY <1>3, <2>6, <3>1
    <3>3. ChosenOf(q, "template") \subseteq Known(templates)
      BY <3>1, ScopeOfCommit
    <3>4. t \in Known(templates)
      BY <2>6, <3>1, <3>2, <3>3
    <3>5. templates'[t].signature = templates[t].signature
      BY <3>4 DEF RowsGrow
    <3>6. Secured(q, TemplateLock(t))
      BY <2>6, <3>2, <3>4, <3>5 DEF Wanted
    <3> QED  BY <3>6
  <2>7. ASSUME req[q].pc = "work", IsKind(q, {"commit"})
        PROVE  \A t \in Known(templates)' :
                  t \in ChosenOf(q, "template")' \/ templates'[t].signature \in ScopeOf(q)' =>
                     Secured(q, TemplateLock(t))'
    BY <2>6, <2>7
  <2> QED  BY <1>1, <1>2, <2>1, <2>2, <2>3, <2>4, <2>5, <2>7, <2>8, <2>9 DEF Wanted
<1> QED  BY <1>4, <1>5

\* One request moves, and no template is imported that a commit touches.
LEMMA OneHolds ==
    ASSUME TypeInv, HoldInv, RowsGrow, NEW r \in Requests, Kept(r)', Wanted(r)',
           \A q \in Requests \ {r} : req'[q] = req[q] /\ todo'[q] = todo[q],
           \A l \in locks : l.owner # r => l \in locks',
           \A q \in Requests \ {r} : req[q].pc = "work" /\ req[q].kind = "commit" =>
              \A t \in Known(templates)' \ Known(templates) : templates'[t].signature \notin ScopeOf(q)
    PROVE  HoldInv'
<1>1. ASSUME NEW q \in Requests, q # r
      PROVE  Kept(q)' /\ Wanted(q)'
  <2>1. /\ \A lock : Holds(q, lock) => Holds(q, lock)'
        /\ \A lock : Secured(q, lock) => Secured(q, lock)'
    BY <1>1, LocksStay
  <2>2. Kept(q) /\ Wanted(q)
    BY DEF HoldInv
  <2>3. req'[q] = req[q]
    BY <1>1
  <2>4. req[q].pc = "work" /\ req[q].kind = "commit" =>
           \A t \in Known(templates)' \ Known(templates) : templates'[t].signature \notin ScopeOf(q)
    BY <1>1
  <2> QED  BY <2>1, <2>2, <2>3, <2>4, StandingHolds
<1> QED  BY <1>1 DEF HoldInv

\* One request asks for locks.
LEMMA AskingHolds ==
    ASSUME TypeInv, LockInv, HoldInv, UNCHANGED data, NEW r \in Requests, NEW list, Ask(r, list),
           Kept(r)', Wanted(r)', \A q \in Requests \ {r} : req'[q] = req[q]
    PROVE  HoldInv'
<1>1. RowsGrow
  BY SameRows
<1>2. Known(templates)' = Known(templates)
  BY DEF data, Known
<1>3. locks' = locks /\ \A q \in Requests \ {r} : todo'[q] = todo[q]
  BY DEF Ask, LockInv
<1> QED  BY <1>1, <1>2, <1>3, OneHolds

\* A request that is done needs no lock.
LEMMA DoneHolds ==
    ASSUME TypeInv, LockInv, HoldInv, RowsGrow, NEW r \in Requests, req[r].pc # "idle", Finish(r),
           \A q \in Requests \ {r} : req[q].pc = "work" /\ req[q].kind = "commit" =>
              \A t \in Known(templates)' \ Known(templates) : templates'[t].signature \notin ScopeOf(q)
    PROVE  HoldInv'
<1>1. req'[r].pc = "done" /\ \A q \in Requests \ {r} : req'[q] = req[q]
  BY FieldsAfterGoto DEF Finish
<1>2. /\ \A q \in Requests \ {r} : todo'[q] = todo[q]
      /\ \A l \in locks : l.owner # r => l \in locks'
  BY DEF Finish, Release, LockInv
<1>3. Kept(r)' /\ Wanted(r)'
  BY <1>1 DEF Kept, Wanted
<1> QED  BY <1>1, <1>2, <1>3, OneHolds

-----------------------------------------------------------------------------
(* Every step has the locks it needs *)

\* A request starts with the lock of its key before it.
LEMMA StartHolds ==
    ASSUME TypeInv, LockInv, HoldInv, NEW r \in Requests, NEW kind \in Kinds, NEW key, NEW in,
           kind \in Claimed => key \in OperationKeys, Start(r, kind, key, in)
    PROVE  HoldInv'
<1>1. PICK pc \in {"claim", "begun"} :
         pc = IF kind \in Claimed \ {"preview"} THEN "claim" ELSE "begun"
  OBVIOUS
<1>2. PICK x : x = [pc |-> pc, kind |-> kind, key |-> key, in |-> in, view |-> {}]
  OBVIOUS
<1>3. x.pc = pc /\ x.kind = kind /\ x.key = key
  BY <1>2
<1>4. PICK list : list = IF pc = "claim" THEN <<OperationLock(x)>> ELSE <<>>
  OBVIOUS
<1>5. req' = [req EXCEPT ![r] = x] /\ Ask(r, list) /\ UNCHANGED data
  BY <1>1, <1>2, <1>4 DEF Start
<1>6. req'[r] = x /\ \A q \in Requests \ {r} : req'[q] = req[q]
  BY <1>5 DEF TypeInv
<1>7. todo'[r] = list
  BY <1>5 DEF Ask, LockInv
<1>8. Kept(r)'
  BY <1>3, <1>6 DEF Kept
<1>9. pc = "claim" => Secured(r, OperationLock(x))'
  <2>1. pc = "claim" => Listed(OperationLock(x), list)
    BY <1>1, <1>3, <1>4, OperationLockAscends
  <2> QED  BY <1>7, <2>1 DEF Secured
<1>10. Wanted(r)'
  BY <1>3, <1>6, <1>9 DEF Wanted
<1> QED  BY <1>5, <1>6, <1>8, <1>10, AskingHolds

\* A request begins or is repeated.
LEMMA BeginHolds ==
    ASSUME TypeInv, LockInv, HoldInv, NEW r \in Requests, Begin(r) \/ \E q \in Requests : Repeat(r, q)
    PROVE  HoldInv'
<1>1. CASE Begin(r)
  <2>1. PICK kind \in req[r].kinds :
           \E in \in InputsOf(kind), key \in IF kind \in Claimed THEN OperationKeys ELSE {None} :
              Start(r, kind, key, in)
    BY <1>1 DEF Begin
  <2>2. PICK in \in InputsOf(kind), key \in IF kind \in Claimed THEN OperationKeys ELSE {None} :
           Start(r, kind, key, in)
    BY <2>1
  <2>3. kind \in Kinds
    BY <1>1 DEF Begin, TypeInv, RequestOK
  <2>4. kind \in Claimed => key \in OperationKeys
    BY <2>2
  <2> QED  BY <2>2, <2>3, <2>4, StartHolds
<1>2. ASSUME NEW q \in Requests, Repeat(r, q)
      PROVE  HoldInv'
  <2>1. /\ req[q].pc # "idle" /\ req[q].kind \in Claimed /\ Start(r, req[q].kind, req[q].key, req[q].in)
    BY <1>2 DEF Repeat, IsKind, In
  <2>2. PICK x : x = req[q]
    OBVIOUS
  <2>3. x.key \in OperationKeys
    BY <2>1, <2>2 DEF TypeInv, RequestOK
  <2>4. x.kind \in Kinds
    BY <2>1, <2>2 DEF Kinds
  <2> QED  BY <2>1, <2>2, <2>3, <2>4, StartHolds
<1> QED  BY <1>1, <1>2

\* What was read before a transaction is updated under the lock of its row.
LEMMA ReadBeforeHolds ==
    ASSUME TypeInv, LockInv, HoldInv, NEW r \in Requests, ReadBefore(r)
    PROVE  HoldInv'
<1>1. /\ req[r].pc # "idle" /\ req[r].kind \in {"save", "legacyProbe"} /\ Sees(r, config, "work")
      /\ Ask(r, FirstLocks(r)) /\ UNCHANGED data
  BY DEF ReadBefore, At, Sees, IsKind
<1>2. /\ req'[r].pc = "work" /\ req'[r].kind = req[r].kind
      /\ \A q \in Requests \ {r} : req'[q] = req[q]
  BY <1>1, FieldsAfterSees
<1>3. PICK list : list = FirstLocks(r)
  OBVIOUS
<1>4. todo'[r] = list /\ Listed(ConfigLock, list)
  BY <1>1, <1>3, FirstLocksOfOthers DEF Ask, LockInv
<1>5. Secured(r, ConfigLock)'
  BY <1>4 DEF Secured, ConfigLock, Exclusive
<1>6. Kept(r)'
  BY <1>1, <1>2 DEF Kept, IsKind, Claimed
<1>7. Wanted(r)'
  BY <1>1, <1>2, <1>5 DEF Wanted, IsKind
<1> QED  BY <1>1, <1>2, <1>3, <1>6, <1>7, AskingHolds

\* A preview inserts its key after the discovery.
LEMMA DiscoverHolds ==
    ASSUME TypeInv, LockInv, HoldInv, NEW r \in Requests, Discover(r)
    PROVE  HoldInv'
<1>1. PICK view : Sees(r, view, "claim")
  BY DEF Discover, Sees
<1>2. PICK x : x = req[r]
  OBVIOUS
<1>3. PICK list : list = <<OperationLock(x)>>
  OBVIOUS
<1>4. req[r].pc # "idle" /\ x.kind = "preview" /\ Ask(r, list) /\ UNCHANGED data
  BY <1>2, <1>3 DEF Discover, At, IsKind
<1>5. x.kind \in Kinds /\ x.key \in OperationKeys
  BY <1>2, <1>4 DEF TypeInv, RequestOK, Kinds, Claimed
<1>6. /\ req'[r].pc = "claim" /\ req'[r].kind = x.kind /\ req'[r].key = x.key
      /\ \A q \in Requests \ {r} : req'[q] = req[q]
  BY <1>1, <1>2, <1>4, FieldsAfterSees
<1>7. todo'[r] = list /\ Listed(OperationLock(x), list)
  BY <1>3, <1>4, <1>5, OperationLockAscends DEF Ask, LockInv
<1>8. Secured(r, OperationLock(x))'
  BY <1>7 DEF Secured
<1>9. OperationLock(req[r])' = OperationLock(x)
  BY <1>6 DEF OperationLock
<1>10. Secured(r, OperationLock(req[r]))'
  BY <1>8, <1>9 DEF Secured, Holds
<1>11. Kept(r)' /\ Wanted(r)'
  BY <1>6, <1>10 DEF Kept, Wanted
<1> QED  BY <1>4, <1>6, <1>11, AskingHolds

\* A request that asks for locks keeps those it has.
LEMMA AskKeepsHeld ==
    ASSUME LockInv, NEW r \in Requests, NEW list, Ask(r, list)
    PROVE  /\ \A lock : Holds(r, lock) => Holds(r, lock)'
           /\ \A lock : Listed(lock, list) => Secured(r, lock)'
<1>1. todo'[r] = list /\ locks' = locks
  BY DEF Ask, LockInv
<1> QED  BY <1>1 DEF Holds, Secured

\* A transaction begins with the lock of its key, and goes on to its first locks.
LEMMA ClaimHolds ==
    ASSUME TypeInv, LockInv, HoldInv, NEW r \in Requests, Claim(r)
    PROVE  HoldInv'
<1>1. PICK x : x = req[r]
  OBVIOUS
<1>2. PICK pc \in {"fenced", "work"} :
         pc = IF x.kind \in {"commit", "import", "updateTemplate", "testSend"} THEN "fenced" ELSE "work"
  OBVIOUS
<1>3. PICK list : list = FirstLocks(r)
  OBVIOUS
<1>4. /\ req[r].pc = "claim" /\ req[r].pc # "idle" /\ Goto(r, pc) /\ Ask(r, list) /\ HasLocks(r)
      /\ UNCHANGED data
  BY <1>1, <1>2, <1>3 DEF Claim, At, IsKind
<1>5. x.kind \in Claimed
  BY <1>1, <1>4 DEF TypeInv, RequestOK, KindsAt
<1>6. /\ req'[r].pc = pc /\ req'[r].kind = x.kind /\ req'[r].key = x.key /\ req'[r].in = x.in
      /\ \A q \in Requests \ {r} : req'[q] = req[q]
  BY <1>1, <1>4, FieldsAfterGoto
<1>7. RowsGrow
  BY <1>4, SameRows
<1>8. Holds(r, OperationLock(req[r]))'
  <2>1. Secured(r, OperationLock(x))
    BY <1>1, <1>4 DEF HoldInv, Wanted
  <2>2. Holds(r, OperationLock(x))
    BY <1>4, <2>1, SecuredIsHeld
  <2>3. Holds(r, OperationLock(x))'
    BY <1>4, <2>2, AskKeepsHeld
  <2>4. OperationLock(req[r])' = OperationLock(x)
    BY <1>6 DEF OperationLock
  <2> QED  BY <2>3, <2>4 DEF Holds
<1>9. Kept(r)'
  <2>1. pc = "work" => x.kind \notin {"send", "testSend", "updateTemplate", "commit", "import"}
    BY <1>2, <1>5 DEF Claimed
  <2>2. pc = "work" => /\ ~IsKind(r, {"send", "testSend"})' /\ ~IsKind(r, {"testSend"})'
                       /\ ~IsKind(r, {"updateTemplate"})' /\ ~IsKind(r, {"commit"})'
                       /\ ~IsKind(r, {"import"})'
    BY <1>6, <2>1 DEF IsKind
  <2> QED  BY <1>2, <1>6, <1>8, <2>2 DEF Kept
<1>10. In(r)' = In(r) /\ In(r) = x.in
  BY <1>1, <1>6 DEF In
<1>11. ASSUME x.kind \in {"testSend", "patch", "probe"}
       PROVE  Secured(r, ConfigLock)'
  <2>1. Listed(ConfigLock, list)
    BY <1>1, <1>3, <1>4, <1>11, FirstLocksOfOthers
  <2> QED  BY <1>4, <2>1, AskKeepsHeld
<1>12. ASSUME x.kind = "updateTemplate"
       PROVE  Secured(r, TemplateLock(In(r).id))'
  <2>1. PICK lock : lock = TemplateLock(In(r).id)
    OBVIOUS
  <2>2. Listed(lock, list)
    BY <1>1, <1>3, <1>4, <1>12, <2>1, FirstLocksOfUpdate
  <2>3. Secured(r, lock)'
    BY <1>4, <2>2, AskKeepsHeld
  <2>4. lock = TemplateLock(In(r).id)'
    BY <1>10, <2>1 DEF TemplateLock
  <2> QED  BY <2>3, <2>4 DEF Secured, Holds
<1>13. ASSUME x.kind = "import"
       PROVE  Secured(r, ParentLock(In(r).signature))'
  <2>1. PICK lock : lock = ParentLock(In(r).signature)
    OBVIOUS
  <2>2. Listed(lock, list)
    BY <1>1, <1>3, <1>4, <1>13, <2>1, FirstLocksOfImport
  <2>3. Secured(r, lock)'
    BY <1>4, <2>2, AskKeepsHeld
  <2>4. lock = ParentLock(In(r).signature)'
    BY <1>10, <2>1 DEF ParentLock
  <2> QED  BY <2>3, <2>4 DEF Secured, Holds
<1>14. ASSUME x.kind = "commit"
       PROVE  \A s \in ScopeOf(r)' \ {None} : Secured(r, ParentLock(s))'
  <2>1. ScopeOf(r)' = ScopeOf(r)
    BY <1>1, <1>4, <1>6, <1>7, <1>14, ScopeStays
  <2>2. \A s \in ScopeOf(r) \ {None} : Listed(ParentLock(s), list)
    BY <1>1, <1>3, <1>4, <1>14, FirstLocksOfCommit
  <2> QED  BY <1>4, <2>1, <2>2, AskKeepsHeld
<1>15. Wanted(r)'
  <2>1. CASE pc = "fenced"
    <3>1. IsKind(r, {"testSend"})' => Secured(r, ConfigLock)'
      BY <1>6, <1>11 DEF IsKind
    <3>2. IsKind(r, {"updateTemplate"})' => Secured(r, TemplateLock(In(r).id))'
      BY <1>6, <1>12 DEF IsKind
    <3>3. IsKind(r, {"import"})' => Secured(r, ParentLock(In(r).signature))'
      BY <1>6, <1>13 DEF IsKind
    <3>4. IsKind(r, {"commit"})' => \A s \in ScopeOf(r)' \ {None} : Secured(r, ParentLock(s))'
      BY <1>6, <1>14 DEF IsKind
    <3> QED  BY <1>6, <2>1, <3>1, <3>2, <3>3, <3>4 DEF Wanted
  <2>2. CASE pc = "work"
    <3>1. x.kind \notin {"commit", "save", "legacyProbe"}
      BY <1>2, <1>5, <2>2 DEF Claimed
    <3>2. IsKind(r, {"save", "legacyProbe", "patch", "probe"})' => Secured(r, ConfigLock)'
      BY <1>6, <1>11, <3>1 DEF IsKind
    <3>3. ~IsKind(r, {"commit"})'
      BY <1>6, <3>1 DEF IsKind
    <3> QED  BY <1>6, <2>2, <3>2, <3>3 DEF Wanted
  <2> QED  BY <2>1, <2>2
<1> QED  BY <1>4, <1>6, <1>9, <1>15, AskingHolds

\* A request past its claim keeps the lock of its key.
LEMMA OperationLockStays ==
    ASSUME NEW r, Kept(r), req[r].pc \in {"fenced", "target", "work"},
           req'[r].kind = req[r].kind, req'[r].key = req[r].key,
           \A lock : Holds(r, lock) => Holds(r, lock)'
    PROVE  IsKind(r, Claimed)' => Holds(r, OperationLock(req[r]))'
<1> SUFFICES ASSUME IsKind(r, Claimed)'  PROVE Holds(r, OperationLock(req[r]))'
  OBVIOUS
<1>1. IsKind(r, Claimed)
  BY DEF IsKind
<1>2. PICK lock : lock = OperationLock(req[r])
  OBVIOUS
<1>3. Holds(r, lock)'
  BY <1>1, <1>2 DEF Kept
<1>4. OperationLock(req[r])' = lock
  BY <1>2 DEF OperationLock
<1> QED  BY <1>3, <1>4 DEF Holds

\* A commit goes on with the locks of all templates it can change.
LEMMA LockAffectedHolds ==
    ASSUME TypeInv, LockInv, HoldInv, NEW r \in Requests, LockAffected(r)
    PROVE  HoldInv'
<1>1. PICK list : list = AffectedRows(r)
  OBVIOUS
<1>2. /\ req[r].pc = "fenced" /\ req[r].pc # "idle" /\ req[r].kind = "commit" /\ HasLocks(r)
      /\ Goto(r, "work") /\ Ask(r, list) /\ UNCHANGED data
  BY <1>1 DEF LockAffected, At, IsKind
<1>3. /\ req'[r].pc = "work" /\ req'[r].kind = "commit" /\ req'[r].key = req[r].key
      /\ req'[r].kind = req[r].kind /\ req'[r].in = req[r].in
      /\ \A q \in Requests \ {r} : req'[q] = req[q]
  BY <1>2, FieldsAfterGoto
<1>4. RowsGrow /\ templates' = templates /\ Known(templates)' = Known(templates)
  BY <1>2, SameRows DEF data, Known
<1>5. Kept(r) /\ Wanted(r)
  BY DEF HoldInv
<1>6. ScopeOf(r)' = ScopeOf(r) /\ ChosenOf(r, "template")' = ChosenOf(r, "template")
  BY <1>2, <1>3, <1>4, ScopeStays
<1>7. IsKind(r, Claimed)' => Holds(r, OperationLock(req[r]))'
  BY <1>2, <1>3, <1>5, OperationLockStays, AskKeepsHeld
<1>8. \A s \in ScopeOf(r)' \ {None} : Holds(r, ParentLock(s))'
  <2>1. \A s \in ScopeOf(r) \ {None} : Secured(r, ParentLock(s))
    BY <1>2, <1>5 DEF Wanted, IsKind
  <2>2. \A s \in ScopeOf(r) \ {None} : Holds(r, ParentLock(s))
    BY <1>2, <2>1, SecuredIsHeld
  <2> QED  BY <1>2, <1>6, <2>2, AskKeepsHeld
<1>9. Kept(r)'
  <2>1. /\ ~IsKind(r, {"send", "testSend"})' /\ ~IsKind(r, {"testSend"})'
        /\ ~IsKind(r, {"updateTemplate"})' /\ ~IsKind(r, {"import"})'
    BY <1>3 DEF IsKind
  <2> QED  BY <1>3, <1>7, <1>8, <2>1 DEF Kept
<1>10. ASSUME NEW t \in Known(templates)',
              t \in ChosenOf(r, "template")' \/ templates'[t].signature \in ScopeOf(r)'
       PROVE  Secured(r, TemplateLock(t))'
  <2>1. t \in Known(templates) /\ (t \in ChosenOf(r, "template") \/ templates[t].signature \in ScopeOf(r))
    BY <1>4, <1>6, <1>10
  <2>2. t \in AffectedTemplates(r)
    BY <2>1 DEF AffectedTemplates, Children
  <2>3. Listed(TemplateLock(t), list)
    BY <1>1, <2>2, AffectedRowsAscend
  <2> QED  BY <1>2, <2>3, AskKeepsHeld
<1>11. Wanted(r)'
  <2>1. ~IsKind(r, {"save", "legacyProbe", "patch", "probe"})'
    BY <1>3 DEF IsKind
  <2> QED  BY <1>3, <1>10, <2>1 DEF Wanted
<1> QED  BY <1>2, <1>3, <1>9, <1>11, AskingHolds

\* An import goes on with the lock of its signature's key.
LEMMA LockParentHolds ==
    ASSUME TypeInv, LockInv, HoldInv, NEW r \in Requests, LockParent(r)
    PROVE  HoldInv'
<1>1. PICK list : list = <<Shared(<<"signature", In(r).signature>>)>>
  OBVIOUS
<1>2. /\ req[r].pc = "fenced" /\ req[r].pc # "idle" /\ req[r].kind = "import" /\ HasLocks(r)
      /\ Goto(r, "work") /\ Ask(r, list) /\ UNCHANGED data
  BY <1>1 DEF LockParent, At, IsKind
<1>3. /\ req'[r].pc = "work" /\ req'[r].kind = "import" /\ req'[r].key = req[r].key
      /\ req'[r].kind = req[r].kind /\ req'[r].in = req[r].in
      /\ \A q \in Requests \ {r} : req'[q] = req[q]
  BY <1>2, FieldsAfterGoto
<1>4. Kept(r) /\ Wanted(r)
  BY DEF HoldInv
<1>5. IsKind(r, Claimed)' => Holds(r, OperationLock(req[r]))'
  BY <1>2, <1>3, <1>4, OperationLockStays, AskKeepsHeld
<1>6. Holds(r, ParentLock(In(r).signature))'
  <2>1. PICK lock : lock = ParentLock(In(r).signature)
    OBVIOUS
  <2>2. Secured(r, lock)
    BY <1>2, <1>4, <2>1 DEF Wanted, IsKind
  <2>3. Holds(r, lock)'
    BY <1>2, <2>2, SecuredIsHeld, AskKeepsHeld
  <2>4. lock = ParentLock(In(r).signature)'
    BY <1>3, <2>1 DEF ParentLock, In
  <2> QED  BY <2>3, <2>4 DEF Holds
<1>7. /\ ~IsKind(r, {"send", "testSend"})' /\ ~IsKind(r, {"testSend"})'
      /\ ~IsKind(r, {"updateTemplate"})' /\ ~IsKind(r, {"commit"})'
      /\ ~IsKind(r, {"save", "legacyProbe", "patch", "probe"})'
  BY <1>3 DEF IsKind
<1>8. Kept(r)'
  BY <1>3, <1>5, <1>6, <1>7 DEF Kept
<1>9. Wanted(r)'
  BY <1>3, <1>7 DEF Wanted
<1> QED  BY <1>2, <1>3, <1>8, <1>9, AskingHolds

\* An update of a template goes on with the lock of its row.
LEMMA CheckUpdateHolds ==
    ASSUME TypeInv, LockInv, HoldInv, NEW r \in Requests, CheckUpdate(r)
    PROVE  HoldInv'
<1>1. PICK list : list = <<Shared(<<"signature", templates[In(r).id].signature>>)>>
  OBVIOUS
<1>2. /\ req[r].pc = "fenced" /\ req[r].pc # "idle" /\ req[r].kind = "updateTemplate" /\ HasLocks(r)
      /\ Goto(r, "work") /\ UNCHANGED data /\ (Ask(r, list) \/ UNCHANGED <<locks, todo>>)
  BY <1>1 DEF CheckUpdate, At, IsKind
<1>3. /\ req'[r].pc = "work" /\ req'[r].kind = "updateTemplate" /\ req'[r].key = req[r].key
      /\ req'[r].kind = req[r].kind /\ req'[r].in = req[r].in
      /\ \A q \in Requests \ {r} : req'[q] = req[q]
  BY <1>2, FieldsAfterGoto
<1>4. Kept(r) /\ Wanted(r)
  BY DEF HoldInv
<1>5. \A lock : Holds(r, lock) => Holds(r, lock)'
  BY <1>2 DEF Ask, Holds
<1>6. IsKind(r, Claimed)' => Holds(r, OperationLock(req[r]))'
  BY <1>2, <1>3, <1>4, <1>5, OperationLockStays
<1>7. Holds(r, TemplateLock(In(r).id))'
  <2>1. PICK lock : lock = TemplateLock(In(r).id)
    OBVIOUS
  <2>2. Secured(r, lock)
    BY <1>2, <1>4, <2>1 DEF Wanted, IsKind
  <2>3. Holds(r, lock)'
    BY <1>2, <1>5, <2>2, SecuredIsHeld
  <2>4. lock = TemplateLock(In(r).id)'
    BY <1>3, <2>1 DEF TemplateLock, In
  <2> QED  BY <2>3, <2>4 DEF Holds
<1>8. /\ ~IsKind(r, {"send", "testSend"})' /\ ~IsKind(r, {"testSend"})'
      /\ ~IsKind(r, {"import"})' /\ ~IsKind(r, {"commit"})'
      /\ ~IsKind(r, {"save", "legacyProbe", "patch", "probe"})'
  BY <1>3 DEF IsKind
<1>9. Kept(r)'
  BY <1>3, <1>6, <1>7, <1>8 DEF Kept
<1>10. Wanted(r)'
  BY <1>3, <1>8 DEF Wanted
<1>11. \A q \in Requests \ {r} : todo'[q] = todo[q]
  BY <1>2 DEF Ask, LockInv
<1>12. \A l \in locks : l \in locks'
  BY <1>2 DEF Ask
<1>13. RowsGrow /\ Known(templates)' = Known(templates)
  BY <1>2, SameRows DEF data, Known
<1> QED  BY <1>3, <1>9, <1>10, <1>11, <1>12, <1>13, OneHolds

\* A send asks for the row of the template it found.
LEMMA FindHolds ==
    ASSUME TypeInv, LockInv, HoldInv, NEW r \in Requests, FindTemplate(r)
    PROVE  HoldInv'
<1>1. PICK t \in Known(templates) : Sees(r, t, "target") /\ Ask(r, <<Shared(<<"template", t>>)>>)
  BY DEF FindTemplate, Sees
<1>2. PICK list : list = <<ReadLock(t)>>
  OBVIOUS
<1>3. Ask(r, list) /\ UNCHANGED data /\ req[r].pc # "idle" /\ HasLocks(r)
  BY <1>1, <1>2 DEF FindTemplate, At, ReadLock
<1>4. \/ req[r].pc = "begun" /\ req[r].kind = "send"
      \/ req[r].pc = "fenced" /\ req[r].kind = "testSend"
  BY DEF FindTemplate, At, IsKind
<1>5. /\ req'[r].pc = "target" /\ req'[r].kind = req[r].kind /\ req'[r].key = req[r].key
      /\ req'[r].view = t /\ \A q \in Requests \ {r} : req'[q] = req[q]
  BY <1>1, <1>3, FieldsAfterSees
<1>6. Kept(r) /\ Wanted(r)
  BY DEF HoldInv
<1>7. IsKind(r, Claimed)' => Holds(r, OperationLock(req[r]))'
  <2>1. CASE req[r].kind = "send"
    BY <1>5, <2>1 DEF IsKind, Claimed
  <2>2. CASE req[r].pc = "fenced"
    BY <1>3, <1>5, <1>6, <2>2, OperationLockStays, AskKeepsHeld
  <2> QED  BY <1>4, <2>1, <2>2
<1>8. IsKind(r, {"testSend"})' => Holds(r, ConfigLock)'
  <2>1. CASE req[r].kind = "send"
    BY <1>5, <2>1 DEF IsKind
  <2>2. CASE req[r].pc = "fenced" /\ req[r].kind = "testSend"
    <3>1. Secured(r, ConfigLock)
      BY <1>6, <2>2 DEF Wanted, IsKind
    <3> QED  BY <1>3, <3>1, SecuredIsHeld, AskKeepsHeld
  <2> QED  BY <1>4, <2>1, <2>2
<1>9. Kept(r)'
  BY <1>5, <1>7, <1>8 DEF Kept
<1>10. Secured(r, ReadLock(req[r].view))'
  <2>1. Listed(ReadLock(t), list)
    <3>1. Len(list) = 1 /\ list[1] = ReadLock(t) /\ 1 \in 1 .. 1
      BY <1>2
    <3> QED  BY <3>1 DEF Listed
  <2>2. Secured(r, ReadLock(t))'
    BY <1>3, <2>1, AskKeepsHeld
  <2>3. ReadLock(req[r].view)' = ReadLock(t)
    BY <1>5 DEF ReadLock
  <2> QED  BY <2>2, <2>3 DEF Secured, Holds
<1>11. Wanted(r)'
  BY <1>5, <1>10 DEF Wanted
<1> QED  BY <1>3, <1>5, <1>9, <1>11, AskingHolds

\* A send goes on with the row of its template locked.
LEMMA CheckTemplateHolds ==
    ASSUME TypeInv, LockInv, HoldInv, NEW r \in Requests, CheckTemplate(r)
    PROVE  HoldInv'
<1>1. PICK list : list = <<Shared(<<"signature", templates[req[r].view].signature>>)>>
  OBVIOUS
<1>2. /\ req[r].pc = "target" /\ req[r].pc # "idle" /\ HasLocks(r)
      /\ Goto(r, "work") /\ Ask(r, list) /\ UNCHANGED data
  BY <1>1 DEF CheckTemplate, At
<1>3. /\ req'[r].pc = "work" /\ req'[r].kind = req[r].kind /\ req'[r].key = req[r].key
      /\ req'[r].view = req[r].view /\ \A q \in Requests \ {r} : req'[q] = req[q]
  BY <1>2, FieldsAfterGoto
<1>4. req[r].kind \in {"send", "testSend"}
  BY <1>2 DEF TypeInv, RequestOK, KindsAt
<1>5. Kept(r) /\ Wanted(r)
  BY DEF HoldInv
<1>6. IsKind(r, Claimed)' => Holds(r, OperationLock(req[r]))'
  BY <1>2, <1>3, <1>5, OperationLockStays, AskKeepsHeld
<1>7. IsKind(r, {"testSend"})' => Holds(r, ConfigLock)'
  <2> SUFFICES ASSUME IsKind(r, {"testSend"})'  PROVE Holds(r, ConfigLock)'
    OBVIOUS
  <2>1. IsKind(r, {"testSend"})
    BY <1>3 DEF IsKind
  <2>2. Holds(r, ConfigLock)
    BY <1>2, <1>5, <2>1 DEF Kept
  <2> QED  BY <1>2, <2>2, AskKeepsHeld
<1>8. Holds(r, ReadLock(req[r].view))'
  <2>1. PICK lock : lock = ReadLock(req[r].view)
    OBVIOUS
  <2>2. Secured(r, lock)
    BY <1>2, <1>5, <2>1 DEF Wanted
  <2>3. Holds(r, lock)'
    BY <1>2, <2>2, SecuredIsHeld, AskKeepsHeld
  <2>4. lock = ReadLock(req[r].view)'
    BY <1>3, <2>1 DEF ReadLock
  <2> QED  BY <2>3, <2>4 DEF Holds
<1>9. /\ ~IsKind(r, {"updateTemplate"})' /\ ~IsKind(r, {"import"})' /\ ~IsKind(r, {"commit"})'
      /\ ~IsKind(r, {"save", "legacyProbe", "patch", "probe"})'
  BY <1>3, <1>4 DEF IsKind
<1>10. Kept(r)'
  BY <1>3, <1>6, <1>7, <1>8, <1>9 DEF Kept
<1>11. Wanted(r)'
  BY <1>3, <1>9 DEF Wanted
<1> QED  BY <1>2, <1>3, <1>10, <1>11, AskingHolds

\* A request that takes a lock has one more.
LEMMA TakeHolds ==
    ASSUME TypeInv, LockInv, HoldInv, NEW r \in Requests, Acquire(r), UNCHANGED <<data, req>>
    PROVE  HoldInv'
<1>1. RowsGrow /\ Known(templates)' = Known(templates)
  BY SameRows DEF data, Known
<1>2. Kept(r) /\ Wanted(r)
  BY DEF HoldInv
<1>3. /\ \A lock : Holds(r, lock) => Holds(r, lock)'
      /\ \A lock : Secured(r, lock) => Secured(r, lock)'
  BY AcquireSecures
<1>4. Kept(r)' /\ Wanted(r)'
  BY <1>1, <1>2, <1>3, StandingHolds
<1>5. /\ \A q \in Requests \ {r} : req'[q] = req[q] /\ todo'[q] = todo[q]
      /\ \A l \in locks : l \in locks'
  BY DEF Acquire, LockInv
<1> QED  BY <1>1, <1>4, <1>5, OneHolds

\* What a commit leaves behind.
LEMMA CommitEffect ==
    ASSUME TypeInv, NEW r \in Requests, CommitSync(r)
    PROVE  /\ req[r].pc = "work" /\ req[r].kind = "commit" /\ HasLocks(r) /\ Complete(r)
           /\ UNCHANGED <<config, lastProbe, messages>>
           /\ \A c \in In(r).chosen : CandidateOK(c) /\ ~IsNewTemplate(c)
           /\ \A s \in Signatures : signatures'[s] = CommittedSignature(s, In(r).chosen)
           /\ \A t \in Templates : templates'[t] = CommittedTemplate(t, In(r).chosen)
           /\ Known(templates)' = Known(templates)
<1>1. PICK chosen : chosen = In(r).chosen
  OBVIOUS
<1>2. /\ req[r].pc = "work" /\ req[r].kind = "commit" /\ HasLocks(r) /\ Complete(r)
      /\ UNCHANGED <<config, lastProbe, messages>>
      /\ signatures' = [s \in Signatures |-> CommittedSignature(s, chosen)]
      /\ templates' = [t \in Templates |-> CommittedTemplate(t, chosen)]
  BY <1>1 DEF CommitSync, AtWork, At, IsKind
<1>3. RowsOK /\ \A c \in chosen : CandidateOK(c) /\ ~IsNewTemplate(c)
  BY <1>1, <1>2 DEF TypeInv, RequestOK, InputOK, In
<1>4. \A t \in Templates :
         /\ templates'[t] = CommittedTemplate(t, chosen)
         /\ t \in Known(templates) => templates'[t].status # "absent"
         /\ t \notin Known(templates) => templates'[t] = templates[t]
  BY <1>2, <1>3, CommittedTemplateRow
<1>5. DOMAIN templates = Templates /\ DOMAIN templates' = Templates
  BY <1>2, <1>3 DEF RowsOK, TypeOK
<1>6. \A t : t \in Known(templates)' <=> t \in Known(templates)
  <2>1. \A t : t \in Known(templates)' <=> t \in Templates /\ templates'[t].status # "absent"
    BY <1>5 DEF Known
  <2>2. \A t : t \in Known(templates) <=> t \in Templates /\ templates[t].status # "absent"
    BY <1>5 DEF Known
  <2> QED  BY <1>4, <2>1, <2>2
<1>7. Known(templates)' = Known(templates)
  BY <1>6
<1> QED  BY <1>1, <1>2, <1>3, <1>4, <1>7

\* What an import leaves behind.
LEMMA ImportEffect ==
    ASSUME TypeInv, NEW r \in Requests, ImportTemplate(r)
    PROVE  /\ req[r].pc = "work" /\ req[r].kind = "import" /\ HasLocks(r) /\ Complete(r)
           /\ UNCHANGED <<config, lastProbe, signatures, messages>>
           /\ In(r).id \in Templates \ Known(templates) /\ In(r).signature \in Known(signatures)
           /\ templates'[In(r).id].status = "approved" /\ templates'[In(r).id].key = In(r).key
           /\ templates'[In(r).id].signature = In(r).signature
           /\ \A t \in Templates \ {In(r).id} : templates'[t] = templates[t]
           /\ \A t \in Known(templates)' \ Known(templates) : t = In(r).id
           /\ UsableSignature(In(r).signature) /\ KeyIsFree(In(r).key, In(r).id)
<1>1. PICK in : in = In(r)
  OBVIOUS
<1>2. PICK row : row = [status |-> "approved", enabled |-> TRUE, version |-> 1,
                        key |-> in.key, signature |-> in.signature]
  OBVIOUS
<1>3. /\ req[r].pc = "work" /\ req[r].kind = "import" /\ HasLocks(r) /\ Complete(r)
      /\ UNCHANGED <<config, lastProbe, signatures, messages>>
      /\ in.id \notin Known(templates)
      /\ templates' = [templates EXCEPT ![in.id] = row]
      /\ UsableSignature(in.signature) /\ KeyIsFree(in.key, in.id)
  BY <1>1, <1>2 DEF ImportTemplate, AtWork, At, IsKind
<1>4. RowsOK /\ in.id \in Templates /\ in.signature \in Known(signatures)
  BY <1>1, <1>3 DEF TypeInv, RequestOK, InputOK, In
<1>5. DOMAIN templates = Templates
  BY <1>4 DEF RowsOK, TypeOK
<1>6. /\ templates'[in.id] = row
      /\ \A t \in Templates \ {in.id} : templates'[t] = templates[t]
      /\ DOMAIN templates' = Templates
  BY <1>3, <1>4, <1>5
<1>7. \A t \in Known(templates)' \ Known(templates) : t = in.id
  <2>1. \A t : t \in Known(templates)' <=> t \in Templates /\ templates'[t].status # "absent"
    BY <1>6 DEF Known
  <2>2. \A t : t \in Known(templates) <=> t \in Templates /\ templates[t].status # "absent"
    BY <1>5 DEF Known
  <2> QED  BY <1>6, <2>1, <2>2
<1>8. row.status = "approved" /\ row.key = in.key /\ row.signature = in.signature
  BY <1>2
<1> QED  BY <1>1, <1>3, <1>4, <1>6, <1>7, <1>8

\* Only an import adds a template.
LEMMA KnownStays ==
    ASSUME TypeInv, NEW r \in Requests, Work(r), ~ImportTemplate(r)
    PROVE  Known(templates)' = Known(templates)
<1>1. CASE UNCHANGED templates
  BY <1>1 DEF Known
<1>2. CASE CommitSync(r)
  BY <1>2, CommitEffect
<1>3. CASE UpdateTemplate(r)
  <2>1. PICK t : t = In(r).id
    OBVIOUS
  <2>2. /\ t \in Templates /\ DOMAIN templates' = Templates
        /\ templates'[t].status = templates[t].status
        /\ \A u \in Templates \ {t} : templates'[u] = templates[u]
    BY <1>3, <2>1, UpdatedTemplateRow
  <2>3. DOMAIN templates = Templates
    BY DEF TypeInv, RowsOK, TypeOK
  <2> QED  BY <2>2, <2>3 DEF Known
<1>4. CASE SaveConfig(r) \/ PatchConfig(r) \/ RecordConnectionTest(r) \/ CreateSyncPreview(r)
           \/ UpdateSignature(r) \/ StoreMessage(r)
  BY <1>1, <1>4 DEF SaveConfig, PatchConfig, RecordConnectionTest, CreateSyncPreview, UpdateSignature, StoreMessage
<1> QED  BY <1>2, <1>3, <1>4 DEF Work

\* Two requests do not hold one row exclusively.
LEMMA LocksExclude ==
    ASSUME LockInv, NEW r, NEW q, r # q, NEW lock, NEW other,
           Holds(r, lock), Holds(q, other), lock.row = other.row
    PROVE  lock.mode # "exclusive" /\ other.mode # "exclusive"
<1>1. PICK k \in locks : k = [owner |-> r, row |-> lock.row, mode |-> lock.mode]
  BY DEF Holds
<1>2. PICK l \in locks : l = [owner |-> q, row |-> other.row, mode |-> other.mode]
  BY DEF Holds
<1>3. /\ k.owner = r /\ k.row = lock.row /\ k.mode = lock.mode
      /\ l.owner = q /\ l.row = other.row /\ l.mode = other.mode
  BY <1>1, <1>2
<1>4. ~Conflicting(k, l)
  BY <1>3 DEF LockInv
<1> QED  BY <1>3, <1>4 DEF Conflicting

\* Its last step ends a request, and a commit that runs does not touch the signature
\* under which a template is imported.
LEMMA WorkHolds ==
    ASSUME TypeInv, LockInv, HoldInv, RowsGrow, NEW r \in Requests, Work(r)
    PROVE  HoldInv'
<1>1. Finish(r) /\ req[r].pc # "idle" /\ req[r].pc = "work"
  BY DEF Work, SaveConfig, PatchConfig, RecordConnectionTest, CreateSyncPreview, CommitSync,
     ImportTemplate, UpdateSignature, UpdateTemplate, StoreMessage, Complete, AtWork, At
<1>2. CASE ~ImportTemplate(r)
  <2>1. Known(templates)' = Known(templates)
    BY <1>2, KnownStays
  <2> QED  BY <1>1, <2>1, DoneHolds
<1>3. CASE ImportTemplate(r)
  <2>1. ASSUME NEW q \in Requests \ {r}, req[q].pc = "work", req[q].kind = "commit",
               NEW t \in Known(templates)' \ Known(templates), templates'[t].signature \in ScopeOf(q)
        PROVE  FALSE
    <3>1. PICK s : s = In(r).signature
      OBVIOUS
    <3>2. /\ t \in Templates /\ t = In(r).id /\ templates'[t].signature = s
          /\ s \in Known(signatures) /\ req[r].kind = "import"
      BY <1>3, <2>1, <3>1, ImportEffect
    <3>3. s # None
      BY <3>2, IdentifiersAssumption DEF TypeInv, RowsOK, TypeOK, Known, None
    <3>4. Holds(r, ParentLock(s))
      BY <1>1, <3>1, <3>2 DEF HoldInv, Kept, IsKind
    <3>5. Holds(q, ParentLock(s))
      BY <2>1, <3>2, <3>3 DEF HoldInv, Kept, IsKind
    <3>6. ParentLock(s).mode = "exclusive"
      BY DEF ParentLock, Exclusive
    <3> QED  BY <2>1, <3>4, <3>5, <3>6, LocksExclude
  <2> QED  BY <1>1, <2>1, DoneHolds
<1> QED  BY <1>2, <1>3

\* Every step keeps the locks that requests need.
LEMMA HoldsHold == TypeInv /\ LockInv /\ HoldInv /\ [Next]_vars => HoldInv'
<1> SUFFICES ASSUME TypeInv, LockInv, HoldInv, [Next]_vars  PROVE HoldInv'
  OBVIOUS
<1>0. RowsGrow
  BY TypesHold
<1>1. CASE UNCHANGED vars
  <2>1. locks' = locks /\ todo' = todo /\ req' = req /\ Known(templates)' = Known(templates)
    BY <1>1 DEF vars, data, Known
  <2>2. ASSUME NEW q \in Requests
        PROVE  Kept(q)' /\ Wanted(q)'
    <3>1. /\ \A lock : Holds(q, lock) => Holds(q, lock)'
          /\ \A lock : Secured(q, lock) => Secured(q, lock)'
      BY <2>1, LocksStay
    <3>2. Kept(q) /\ Wanted(q)
      BY DEF HoldInv
    <3> QED  BY <1>0, <2>1, <3>1, <3>2, StandingHolds
  <2> QED  BY <2>2 DEF HoldInv
<1>2. CASE Next
  <2>1. PICK r \in Requests :
           \/ Begin(r) \/ (\E q \in Requests : Repeat(r, q)) \/ GiveUp(r)
           \/ ReadBefore(r) \/ Discover(r) \/ Claim(r) \/ Replay(r)
           \/ TakeLock(r)
           \/ LockAffected(r) \/ LockParent(r) \/ CheckUpdate(r)
           \/ FindTemplate(r) \/ CheckTemplate(r)
           \/ Work(r)
    BY <1>2 DEF Next
  <2>2. CASE Begin(r) \/ (\E q \in Requests : Repeat(r, q))
    BY <2>2, BeginHolds
  <2>3. CASE GiveUp(r) \/ Replay(r)
    <3>1. req[r].pc # "idle" /\ Finish(r) /\ UNCHANGED data
      BY <2>3 DEF GiveUp, Replay, Begun, At
    <3>2. Known(templates)' = Known(templates)
      BY <3>1 DEF data, Known
    <3> QED  BY <1>0, <3>1, <3>2, DoneHolds
  <2>4. CASE ReadBefore(r)
    BY <2>4, ReadBeforeHolds
  <2>5. CASE Discover(r)
    BY <2>5, DiscoverHolds
  <2>6. CASE Claim(r)
    BY <2>6, ClaimHolds
  <2>7. CASE LockAffected(r)
    BY <2>7, LockAffectedHolds
  <2>8. CASE LockParent(r)
    BY <2>8, LockParentHolds
  <2>9. CASE CheckUpdate(r)
    BY <2>9, CheckUpdateHolds
  <2>10. CASE FindTemplate(r)
    BY <2>10, FindHolds
  <2>11. CASE CheckTemplate(r)
    BY <2>11, CheckTemplateHolds
  <2>12. CASE TakeLock(r)
    BY <2>12, TakeHolds DEF TakeLock
  <2>13. CASE Work(r)
    BY <1>0, <2>13, WorkHolds
  <2> QED  BY <2>1, <2>2, <2>3, <2>4, <2>5, <2>6, <2>7, <2>8, <2>9, <2>10, <2>11, <2>12, <2>13
<1> QED  BY <1>1, <1>2

\* Initially no request has begun.
LEMMA InitHolds == Init => HoldInv
<1> SUFFICES ASSUME Init  PROVE HoldInv
  OBVIOUS
<1>1. \A r \in Requests : req[r].pc = "idle"
  BY DEF Init
<1> QED  BY <1>1 DEF HoldInv, Kept, Wanted

-----------------------------------------------------------------------------
(* What a request decided stays true while it has its locks *)

\* The last step of an operation, and what it writes to the ledger.
LEMMA WorkCompletes ==
    ASSUME NEW r \in Requests, Work(r)
    PROVE  req[r].pc = "work" /\ req[r].pc # "idle" /\ HasLocks(r) /\ Complete(r)
  BY DEF Work, SaveConfig, PatchConfig, RecordConnectionTest, CreateSyncPreview, CommitSync,
     ImportTemplate, UpdateSignature, UpdateTemplate, StoreMessage, AtWork, At

\* The configuration does not change under the lock of its row.
LEMMA ConfigStays ==
    ASSUME LockInv, HoldInv, NEW r \in Requests, Work(r), NEW q \in Requests, q # r, Holds(q, ConfigLock)
    PROVE  config' = config
<1>1. CASE SaveConfig(r) \/ PatchConfig(r) \/ RecordConnectionTest(r)
  <2>1. IsKind(r, {"save", "legacyProbe", "patch", "probe"})
    BY <1>1 DEF SaveConfig, PatchConfig, RecordConnectionTest, AtWork, IsKind
  <2>2. req[r].pc = "work" /\ HasLocks(r)
    BY WorkCompletes
  <2>3. Secured(r, ConfigLock)
    BY <2>1, <2>2 DEF HoldInv, Wanted
  <2>4. Holds(r, ConfigLock)
    BY <2>2, <2>3, SecuredIsHeld
  <2>5. ConfigLock.mode = "exclusive"
    BY DEF ConfigLock, Exclusive
  <2> QED  BY <2>4, <2>5, LocksExclude
<1>2. CASE ~(SaveConfig(r) \/ PatchConfig(r) \/ RecordConnectionTest(r))
  BY <1>2 DEF Work, CreateSyncPreview, CommitSync, ImportTemplate, UpdateSignature, UpdateTemplate, StoreMessage
<1> QED  BY <1>1, <1>2

\* No operation writes the row of a template that another request has locked.
LEMMA TemplateStays ==
    ASSUME TypeInv, LockInv, HoldInv, NEW r \in Requests, Work(r), NEW q \in Requests, q # r,
           NEW t \in Known(templates), Holds(q, ReadLock(t)) \/ Holds(q, TemplateLock(t))
    PROVE  templates'[t] = templates[t]
<1>1. req[r].pc = "work" /\ HasLocks(r)
  BY WorkCompletes
<1>2. RowsOK /\ t \in Templates
  BY DEF TypeInv, RowsOK, TypeOK, Known
<1>3. ~Holds(r, TemplateLock(t))
  <2>1. ReadLock(t).row = TemplateLock(t).row /\ TemplateLock(t).mode = "exclusive"
    BY DEF ReadLock, TemplateLock, Exclusive, Shared
  <2> QED  BY <2>1, LocksExclude
<1>4. CASE CommitSync(r)
  <2>1. PICK chosen : chosen = In(r).chosen
    OBVIOUS
  <2>2. /\ req[r].kind = "commit" /\ \A c \in chosen : CandidateOK(c) /\ ~IsNewTemplate(c)
        /\ templates'[t] = CommittedTemplate(t, chosen)
    BY <1>2, <1>4, <2>1, CommitEffect
  <2>3. t \notin ChosenOf(r, "template") /\ templates[t].signature \notin ScopeOf(r)
    <3>1. t \in ChosenOf(r, "template") \/ templates[t].signature \in ScopeOf(r) => Secured(r, TemplateLock(t))
      BY <1>1, <2>2 DEF HoldInv, Wanted, IsKind
    <3> QED  BY <1>1, <1>3, <3>1, SecuredIsHeld
  <2>4. Of("template", t, chosen) = {}
    BY <2>1, <2>3 DEF Of, ChosenOf
  <2>5. Withdrawing(templates[t].signature, chosen) = {}
    <3>1. \A c \in chosen : c.type = "signature" => c.id \in ChosenOf(r, "signature")
      BY <2>1 DEF ChosenOf
    <3>2. \A c \in chosen : c.type = "signature" => c.id # templates[t].signature
      BY <2>3, <3>1 DEF ScopeOf
    <3> QED  BY <3>2 DEF Withdrawing
  <2>6. CommittedTemplate(t, chosen) = AfterSignatures(t, chosen)
    BY <1>2, <2>2, <2>4, CommittedTemplateRow
  <2>7. AfterSignatures(t, chosen) = templates[t]
    BY <1>2, <2>2, <2>5, AfterSignaturesRow
  <2> QED  BY <2>2, <2>6, <2>7
<1>5. CASE ImportTemplate(r)
  BY <1>2, <1>5, ImportEffect
<1>6. CASE UpdateTemplate(r)
  <2>1. PICK u : u = In(r).id
    OBVIOUS
  <2>2. IsKind(r, {"updateTemplate"})
    BY <1>6 DEF UpdateTemplate, AtWork
  <2>3. Holds(r, TemplateLock(u))
    BY <1>1, <2>1, <2>2 DEF HoldInv, Kept
  <2>4. t # u
    BY <1>3, <2>3
  <2> QED  BY <1>2, <1>6, <2>1, <2>4, UpdatedTemplateRow
<1>7. CASE SaveConfig(r) \/ PatchConfig(r) \/ RecordConnectionTest(r) \/ CreateSyncPreview(r)
           \/ UpdateSignature(r) \/ StoreMessage(r)
  BY <1>7 DEF SaveConfig, PatchConfig, RecordConnectionTest, CreateSyncPreview, UpdateSignature, StoreMessage
<1> QED  BY <1>4, <1>5, <1>6, <1>7 DEF Work

\* No message is stored for a template whose row another request has locked to write it.
LEMMA UseStays ==
    ASSUME LockInv, HoldInv, NEW r \in Requests, Work(r), NEW q \in Requests, q # r,
           NEW t, Holds(q, TemplateLock(t)), ~IsUsed(t)
    PROVE  ~IsUsed(t)'
<1>1. CASE StoreMessage(r)
  <2>1. PICK u : u = req[r].view
    OBVIOUS
  <2>2. req[r].pc = "work" /\ IsKind(r, {"send", "testSend"})
    BY <1>1 DEF StoreMessage, AtWork, At
  <2>3. messages' = messages \cup {[template |-> u, key |-> In(r).key, by |-> r]}
    BY <1>1, <2>1 DEF StoreMessage
  <2>4. Holds(r, ReadLock(u))
    BY <2>1, <2>2 DEF HoldInv, Kept
  <2>5. \A x : ReadLock(x).row = TemplateLock(x).row /\ TemplateLock(x).mode = "exclusive"
    BY DEF ReadLock, TemplateLock, Exclusive, Shared
  <2>6. u # t
    BY <2>4, <2>5, LocksExclude
  <2>7. \A m \in messages' : m \in messages \/ m.template = u
    BY <2>3
  <2> QED  BY <2>6, <2>7 DEF IsUsed
<1>2. CASE ~StoreMessage(r)
  BY <1>2 DEF Work, SaveConfig, PatchConfig, RecordConnectionTest, CreateSyncPreview, CommitSync,
     ImportTemplate, UpdateSignature, UpdateTemplate, IsUsed
<1> QED  BY <1>1, <1>2

\* Nobody else records the key that a request has claimed.
LEMMA EntriesStay ==
    ASSUME LockInv, HoldInv, NEW r \in Requests, Work(r), NEW q \in Requests, q # r,
           req[q].pc \in {"fenced", "target", "work"}, IsKind(q, Claimed), Entries(q) = {}, req'[q] = req[q]
    PROVE  Entries(q)' = {}
<1>1. PICK x, y : x = req[r] /\ y = req[q]
  OBVIOUS
<1>2. x.pc = "work" /\ Complete(r)
  BY <1>1, WorkCompletes
<1>3. CASE IsKind(r, Claimed)
  <2>1. PICK e : e = EntryOf(r)
    OBVIOUS
  <2>2. e.kind = x.kind /\ e.key = x.key /\ ledger' = ledger \cup {e}
    BY <1>1, <1>2, <1>3, <2>1 DEF EntryOf, Complete
  <2>3. Holds(r, OperationLock(x)) /\ Holds(q, OperationLock(y))
    BY <1>1, <1>2, <1>3 DEF HoldInv, Kept
  <2>4. \A z : OperationLock(z).row = <<"operation", z.kind, z.key>> /\ OperationLock(z).mode = "exclusive"
    BY DEF OperationLock, Exclusive
  <2>5. ~(x.kind = y.kind /\ x.key = y.key)
    BY <2>3, <2>4, LocksExclude
  <2>6. \A d \in ledger : ~(d.kind = y.kind /\ d.key = y.key)
    BY <1>1 DEF Entries
  <2>7. \A d \in ledger' : ~(d.kind = y.kind /\ d.key = y.key)
    BY <2>2, <2>5, <2>6
  <2> QED  BY <1>1, <2>7 DEF Entries
<1>4. CASE ~IsKind(r, Claimed)
  BY <1>2, <1>4 DEF Complete, Entries
<1> QED  BY <1>3, <1>4

\* What another request decided stays true over the last step of an operation.
LEMMA OthersDecided ==
    ASSUME TypeInv, LockInv, HoldInv, NEW r \in Requests, Work(r), NEW q \in Requests, q # r,
           req'[q] = req[q], Decided(q)
    PROVE  Decided(q)'
<1>1. /\ req'[q].pc = req[q].pc /\ In(q)' = In(q) /\ req'[q].view = req[q].view
      /\ \A kinds : IsKind(q, kinds)' <=> IsKind(q, kinds)
  BY DEF In, IsKind
<1>2. Kept(q) /\ RequestOK(q) /\ RowsOK
  BY DEF HoldInv, TypeInv
<1>3. ASSUME req[q].pc \in {"fenced", "target", "work"}, IsKind(q, Claimed)
      PROVE  Entries(q)' = {}
  BY <1>3, EntriesStay DEF Decided
<1>4. ASSUME req[q].pc \in {"target", "work"}, IsKind(q, {"testSend"})
      PROVE  config'.status = "ready" /\ config'.enabled /\ config'.version = In(q).version
  <2>1. Holds(q, ConfigLock)
    BY <1>2, <1>4 DEF Kept
  <2>2. config' = config
    BY <2>1, ConfigStays
  <2> QED  BY <1>4, <2>2 DEF Decided
<1>5. ASSUME req[q].pc = "work", IsKind(q, {"send", "testSend"})
      PROVE  UsableTemplate(req[q].view)' /\ templates'[req'[q].view].key = In(q).key
  <2>1. PICK t : t = req[q].view
    OBVIOUS
  <2>2. Holds(q, ReadLock(t))
    BY <1>2, <1>5, <2>1 DEF Kept
  <2>3. t \in Known(templates)
    BY <1>2, <1>5, <2>1 DEF RequestOK, ViewOK, IsKind
  <2>4. templates'[t] = templates[t]
    BY <2>2, <2>3, TemplateStays
  <2>5. UsableTemplate(t) /\ templates[t].key = In(q).key
    BY <1>5, <2>1 DEF Decided
  <2>6. templates'[t].enabled /\ Approved(templates'[t]) /\ templates'[t].key = In(q).key
    BY <2>4, <2>5 DEF UsableTemplate
  <2> QED  BY <1>1, <2>1, <2>6 DEF UsableTemplate, Approved
<1>6. ASSUME req[q].pc = "work", IsKind(q, {"updateTemplate"})
      PROVE  /\ templates'[In(q).id] = templates[In(q).id]
             /\ ~IsUsed(In(q).id) => ~IsUsed(In(q).id)'
  <2>1. PICK t : t = In(q).id
    OBVIOUS
  <2>2. Holds(q, TemplateLock(t))
    BY <1>2, <1>6, <2>1 DEF Kept
  <2>3. t \in Known(templates)
    BY <1>2, <1>6, <2>1 DEF RequestOK, InputOK, IsKind, In
  <2>4. templates'[t] = templates[t]
    BY <2>2, <2>3, TemplateStays
  <2>5. ~IsUsed(t) => ~IsUsed(t)'
    BY <2>2, UseStays
  <2>6. t = In(q).id'
    BY <1>1, <2>1
  <2> QED  BY <2>1, <2>4, <2>5, <2>6 DEF IsUsed
<1>7. ASSUME req[q].pc = "work", IsKind(q, {"updateTemplate"})
      PROVE  /\ Flip(In(q).enabled, templates[In(q).id].enabled)' => Approved(templates[In(q).id])'
             /\ (NextKey(q) # templates[In(q).id].key)' => ~IsUsed(In(q).id)'
  <2>1. NextKey(q)' = NextKey(q)
    BY <1>1, <1>6, <1>7 DEF NextKey
  <2>2. /\ Flip(In(q).enabled, templates[In(q).id].enabled) => Approved(templates[In(q).id])
        /\ NextKey(q) # templates[In(q).id].key => ~IsUsed(In(q).id)
    BY <1>7 DEF Decided
  <2>3. Flip(In(q).enabled, templates[In(q).id].enabled)' => Approved(templates[In(q).id])'
    BY <1>1, <1>6, <1>7, <2>2 DEF Flip, Approved
  <2> QED  BY <1>1, <1>6, <1>7, <2>1, <2>2, <2>3
<1> QED  BY <1>1, <1>3, <1>4, <1>5, <1>7 DEF Decided

\* And over a step that writes nothing.
LEMMA QuietlyDecided ==
    ASSUME NEW q, req'[q] = req[q], UNCHANGED <<data, ledger>>, Decided(q)
    PROVE  Decided(q)'
<1>1. config' = config /\ templates' = templates /\ messages' = messages /\ ledger' = ledger
  BY DEF data
<1>2. /\ req'[q].pc = req[q].pc /\ In(q)' = In(q) /\ req'[q].view = req[q].view
      /\ \A kinds : IsKind(q, kinds)' <=> IsKind(q, kinds)
  BY DEF In, IsKind
<1>3. Entries(q)' = Entries(q)
  BY <1>1 DEF Entries
<1>4. UsableTemplate(req[q].view)' <=> UsableTemplate(req[q].view)
  BY <1>1, <1>2 DEF UsableTemplate, Approved
<1>5. NextKey(q)' = NextKey(q) /\ (IsUsed(In(q).id)' <=> IsUsed(In(q).id))
  BY <1>1, <1>2 DEF NextKey, IsUsed
<1>6. Flip(In(q).enabled, templates[In(q).id].enabled)' <=> Flip(In(q).enabled, templates[In(q).id].enabled)
  BY <1>1, <1>2 DEF Flip
<1>7. Approved(templates[In(q).id])' <=> Approved(templates[In(q).id])
  BY <1>1, <1>2 DEF Approved
<1> QED  BY <1>1, <1>2, <1>3, <1>4, <1>5, <1>6, <1>7 DEF Decided

\* One request moves, and nothing is written.
LEMMA OneDecides ==
    ASSUME DecidedInv, NEW r \in Requests, UNCHANGED <<data, ledger>>,
           \A q \in Requests \ {r} : req'[q] = req[q], Decided(r)'
    PROVE  DecidedInv'
<1>1. ASSUME NEW q \in Requests, q # r
      PROVE  Decided(q)'
  <2>1. Decided(q) /\ req'[q] = req[q]
    BY <1>1 DEF DecidedInv
  <2> QED  BY <2>1, QuietlyDecided
<1> QED  BY <1>1 DEF DecidedInv

\* A request that begins, reads before its transaction, or is done, has decided nothing.
LEMMA StartDecides ==
    ASSUME TypeInv, DecidedInv, NEW r \in Requests, NEW kind, NEW key, NEW in, Start(r, kind, key, in)
    PROVE  DecidedInv'
<1>1. PICK pc \in {"claim", "begun"} : pc = IF kind \in Claimed \ {"preview"} THEN "claim" ELSE "begun"
  OBVIOUS
<1>2. PICK x : x = [pc |-> pc, kind |-> kind, key |-> key, in |-> in, view |-> {}]
  OBVIOUS
<1>3. req' = [req EXCEPT ![r] = x] /\ UNCHANGED <<data, ledger>> /\ x.pc = pc
  BY <1>1, <1>2 DEF Start
<1>4. req'[r] = x /\ \A q \in Requests \ {r} : req'[q] = req[q]
  BY <1>3 DEF TypeInv
<1>5. Decided(r)'
  BY <1>3, <1>4 DEF Decided
<1> QED  BY <1>3, <1>4, <1>5, OneDecides

\* So with a request that reads before its transaction.
LEMMA BegunDecides ==
    ASSUME TypeInv, DecidedInv, NEW r \in Requests, ReadBefore(r) \/ Discover(r)
    PROVE  DecidedInv'
<1>1. req[r].pc # "idle" /\ UNCHANGED <<data, ledger>>
  BY DEF ReadBefore, Discover, At
<1>2. CASE ReadBefore(r)
  <2>1. Sees(r, config, "work") /\ req[r].kind \in {"save", "legacyProbe"}
    BY <1>2 DEF ReadBefore, Sees, IsKind
  <2>2. /\ req'[r].pc = "work" /\ req'[r].kind = req[r].kind
        /\ \A q \in Requests \ {r} : req'[q] = req[q]
    BY <1>1, <2>1, FieldsAfterSees
  <2>3. /\ ~IsKind(r, Claimed)' /\ ~IsKind(r, {"testSend"})' /\ ~IsKind(r, {"send", "testSend"})'
        /\ ~IsKind(r, {"updateTemplate"})'
    BY <2>1, <2>2 DEF IsKind, Claimed
  <2>4. Decided(r)'
    BY <2>3 DEF Decided
  <2> QED  BY <1>1, <2>2, <2>4, OneDecides
<1>3. CASE Discover(r)
  <2>1. PICK view : Sees(r, view, "claim")
    BY <1>3 DEF Discover, Sees
  <2>2. req'[r].pc = "claim" /\ \A q \in Requests \ {r} : req'[q] = req[q]
    BY <1>1, <2>1, FieldsAfterSees
  <2>3. Decided(r)'
    BY <2>2 DEF Decided
  <2> QED  BY <1>1, <2>2, <2>3, OneDecides
<1> QED  BY <1>2, <1>3

\* A claimed key has no entry.
LEMMA ClaimDecides ==
    ASSUME TypeInv, DecidedInv, NEW r \in Requests, Claim(r)
    PROVE  DecidedInv'
<1>1. PICK x : x = req[r]
  OBVIOUS
<1>2. PICK pc \in {"fenced", "work"} :
         pc = IF x.kind \in {"commit", "import", "updateTemplate", "testSend"} THEN "fenced" ELSE "work"
  OBVIOUS
<1>3. /\ req[r].pc = "claim" /\ req[r].pc # "idle" /\ Goto(r, pc) /\ UNCHANGED <<data, ledger>>
      /\ Entries(r) = {}
  BY <1>1, <1>2 DEF Claim, At, IsKind
<1>4. x.kind \in Claimed
  BY <1>1, <1>3 DEF TypeInv, RequestOK, KindsAt
<1>5. /\ req'[r].pc = pc /\ req'[r].kind = x.kind /\ req'[r].key = x.key
      /\ \A q \in Requests \ {r} : req'[q] = req[q]
  BY <1>1, <1>3, FieldsAfterGoto
<1>6. Entries(r)' = {}
  BY <1>1, <1>3, <1>5 DEF Entries
<1>7. pc = "work" => x.kind \notin {"send", "testSend", "updateTemplate"}
  BY <1>2, <1>4 DEF Claimed
<1>8. pc = "work" => /\ ~IsKind(r, {"testSend"})' /\ ~IsKind(r, {"send", "testSend"})'
                     /\ ~IsKind(r, {"updateTemplate"})'
  BY <1>5, <1>7 DEF IsKind
<1>9. Decided(r)'
  BY <1>2, <1>5, <1>6, <1>8 DEF Decided
<1> QED  BY <1>3, <1>5, <1>9, OneDecides

\* A request past its claim goes on with no entry.
LEMMA NoEntryStays ==
    ASSUME NEW r, Decided(r), req[r].pc \in {"fenced", "target", "work"}, UNCHANGED ledger,
           req'[r].kind = req[r].kind, req'[r].key = req[r].key
    PROVE  IsKind(r, Claimed)' => Entries(r)' = {}
<1>1. IsKind(r, Claimed)' <=> IsKind(r, Claimed)
  BY DEF IsKind
<1>2. Entries(r)' = Entries(r)
  BY DEF Entries
<1> QED  BY <1>1, <1>2 DEF Decided

\* An update of a template is checked, a commit and an import go on.
LEMMA FencedDecides ==
    ASSUME TypeInv, DecidedInv, NEW r \in Requests, LockAffected(r) \/ LockParent(r) \/ CheckUpdate(r)
    PROVE  DecidedInv'
<1>1. /\ req[r].pc = "fenced" /\ req[r].pc # "idle" /\ Goto(r, "work") /\ UNCHANGED <<data, ledger>>
      /\ req[r].kind \in {"commit", "import", "updateTemplate"}
  BY DEF LockAffected, LockParent, CheckUpdate, At, IsKind
<1>2. /\ req'[r].pc = "work" /\ req'[r].kind = req[r].kind /\ req'[r].key = req[r].key
      /\ req'[r].in = req[r].in /\ \A q \in Requests \ {r} : req'[q] = req[q]
  BY <1>1, FieldsAfterGoto
<1>3. IsKind(r, Claimed)' => Entries(r)' = {}
  BY <1>1, <1>2, NoEntryStays DEF DecidedInv
<1>4. ~IsKind(r, {"testSend"})' /\ ~IsKind(r, {"send", "testSend"})'
  BY <1>1, <1>2 DEF IsKind
<1>5. In(r)' = In(r) /\ templates' = templates /\ messages' = messages
  BY <1>1, <1>2 DEF In, data
<1>6. ASSUME IsKind(r, {"updateTemplate"})'
      PROVE  /\ Flip(In(r).enabled, templates[In(r).id].enabled)' => Approved(templates[In(r).id])'
             /\ (NextKey(r) # templates[In(r).id].key)' => ~IsUsed(In(r).id)'
  <2>1. CheckUpdate(r)
    BY <1>2, <1>6 DEF IsKind, LockAffected, LockParent
  <2>2. /\ Flip(In(r).enabled, templates[In(r).id].enabled) => Approved(templates[In(r).id])
        /\ NextKey(r) # templates[In(r).id].key => ~IsUsed(In(r).id)
    BY <2>1 DEF CheckUpdate
  <2>3. NextKey(r)' = NextKey(r) /\ (IsUsed(In(r).id)' <=> IsUsed(In(r).id))
    BY <1>5 DEF NextKey, IsUsed
  <2>4. Flip(In(r).enabled, templates[In(r).id].enabled)' <=> Flip(In(r).enabled, templates[In(r).id].enabled)
    BY <1>5 DEF Flip
  <2>5. Approved(templates[In(r).id])' <=> Approved(templates[In(r).id])
    BY <1>5 DEF Approved
  <2> QED  BY <1>5, <2>2, <2>3, <2>4, <2>5
<1>7. Decided(r)'
  BY <1>2, <1>3, <1>4, <1>6 DEF Decided
<1> QED  BY <1>1, <1>2, <1>7, OneDecides

\* A test send has found the configuration as its caller knows it.
LEMMA FindDecides ==
    ASSUME TypeInv, DecidedInv, NEW r \in Requests, FindTemplate(r)
    PROVE  DecidedInv'
<1>1. PICK t : Sees(r, t, "target")
  BY DEF FindTemplate, Sees
<1>2. /\ UNCHANGED <<data, ledger>> /\ req[r].pc # "idle"
      /\ \/ req[r].pc = "begun" /\ req[r].kind = "send"
         \/ /\ req[r].pc = "fenced" /\ req[r].kind = "testSend"
            /\ config.status = "ready" /\ config.enabled /\ config.version = In(r).version
  BY DEF FindTemplate, At, IsKind
<1>3. /\ req'[r].pc = "target" /\ req'[r].kind = req[r].kind /\ req'[r].key = req[r].key
      /\ req'[r].in = req[r].in /\ \A q \in Requests \ {r} : req'[q] = req[q]
  BY <1>1, <1>2, FieldsAfterSees
<1>4. In(r)' = In(r) /\ config' = config /\ ledger' = ledger
  BY <1>2, <1>3 DEF In, data
<1>5. CASE req[r].kind = "send"
  <2>1. ~IsKind(r, Claimed)' /\ ~IsKind(r, {"testSend"})'
    BY <1>3, <1>5 DEF IsKind, Claimed
  <2> QED  BY <1>2, <1>3, <2>1, OneDecides DEF Decided
<1>6. CASE req[r].kind = "testSend"
  <2>1. /\ req[r].pc = "fenced"
        /\ config.status = "ready" /\ config.enabled /\ config.version = In(r).version
    BY <1>2, <1>6
  <2>2. IsKind(r, Claimed)' => Entries(r)' = {}
    BY <1>3, <1>4, <2>1, NoEntryStays DEF DecidedInv
  <2>3. Decided(r)'
    BY <1>3, <1>4, <2>1, <2>2 DEF Decided
  <2> QED  BY <1>2, <1>3, <2>3, OneDecides
<1> QED  BY <1>2, <1>5, <1>6

\* A send has found its template usable.
LEMMA CheckTemplateDecides ==
    ASSUME TypeInv, DecidedInv, NEW r \in Requests, CheckTemplate(r)
    PROVE  DecidedInv'
<1>1. PICK t : t = req[r].view
  OBVIOUS
<1>2. /\ req[r].pc = "target" /\ req[r].pc # "idle" /\ Goto(r, "work") /\ UNCHANGED <<data, ledger>>
      /\ templates[t].key = In(r).key /\ UsableTemplate(t)
  BY <1>1 DEF CheckTemplate, At
<1>3. /\ req'[r].pc = "work" /\ req'[r].kind = req[r].kind /\ req'[r].key = req[r].key
      /\ req'[r].in = req[r].in /\ req'[r].view = t /\ \A q \in Requests \ {r} : req'[q] = req[q]
  BY <1>1, <1>2, FieldsAfterGoto
<1>4. In(r)' = In(r) /\ config' = config /\ templates' = templates /\ ledger' = ledger
  BY <1>2, <1>3 DEF In, data
<1>5. req[r].kind \in {"send", "testSend"}
  BY <1>2 DEF TypeInv, RequestOK, KindsAt
<1>6. ~IsKind(r, {"updateTemplate"})' /\ (IsKind(r, {"testSend"})' <=> IsKind(r, {"testSend"}))
  BY <1>3, <1>5 DEF IsKind
<1>7. IsKind(r, Claimed)' => Entries(r)' = {}
  BY <1>2, <1>3, <1>4, NoEntryStays DEF DecidedInv
<1>8. IsKind(r, {"testSend"})' =>
         config'.status = "ready" /\ config'.enabled /\ config'.version = In(r)'.version
  BY <1>2, <1>4, <1>6 DEF DecidedInv, Decided
<1>9. UsableTemplate(req[r].view)' /\ templates'[req'[r].view].key = In(r)'.key
  BY <1>2, <1>3, <1>4 DEF UsableTemplate, Approved
<1>10. Decided(r)'
  BY <1>3, <1>6, <1>7, <1>8, <1>9 DEF Decided
<1> QED  BY <1>2, <1>3, <1>10, OneDecides

\* The last step of an operation ends its request.
LEMMA WorkDecides ==
    ASSUME TypeInv, LockInv, HoldInv, DecidedInv, NEW r \in Requests, Work(r)
    PROVE  DecidedInv'
<1>1. req[r].pc # "idle" /\ Goto(r, "done")
  BY WorkCompletes DEF Complete, Finish
<1>2. req'[r].pc = "done" /\ \A q \in Requests \ {r} : req'[q] = req[q]
  BY <1>1, FieldsAfterGoto
<1>3. Decided(r)'
  BY <1>2 DEF Decided
<1>4. ASSUME NEW q \in Requests, q # r
      PROVE  Decided(q)'
  <2>1. Decided(q) /\ req'[q] = req[q]
    BY <1>2, <1>4 DEF DecidedInv
  <2> QED  BY <1>4, <2>1, OthersDecided
<1> QED  BY <1>3, <1>4 DEF DecidedInv

\* Every step keeps what was decided.
LEMMA DecidedHolds == TypeInv /\ LockInv /\ HoldInv /\ DecidedInv /\ [Next]_vars => DecidedInv'
<1> SUFFICES ASSUME TypeInv, LockInv, HoldInv, DecidedInv, [Next]_vars  PROVE DecidedInv'
  OBVIOUS
<1>1. CASE UNCHANGED vars
  BY <1>1, QuietlyDecided DEF vars, DecidedInv
<1>2. CASE Next
  <2>1. PICK r \in Requests :
           \/ Begin(r) \/ (\E q \in Requests : Repeat(r, q)) \/ GiveUp(r)
           \/ ReadBefore(r) \/ Discover(r) \/ Claim(r) \/ Replay(r)
           \/ TakeLock(r)
           \/ LockAffected(r) \/ LockParent(r) \/ CheckUpdate(r)
           \/ FindTemplate(r) \/ CheckTemplate(r)
           \/ Work(r)
    BY <1>2 DEF Next
  <2>2. CASE Begin(r)
    <3>1. PICK kind \in req[r].kinds :
             \E in \in InputsOf(kind), key \in IF kind \in Claimed THEN OperationKeys ELSE {None} :
                Start(r, kind, key, in)
      BY <2>2 DEF Begin
    <3> QED  BY <3>1, StartDecides
  <2>3. CASE \E q \in Requests : Repeat(r, q)
    <3>1. PICK q \in Requests : Start(r, req[q].kind, req[q].key, In(q))
      BY <2>3 DEF Repeat
    <3> QED  BY <3>1, StartDecides
  <2>4. CASE GiveUp(r) \/ Replay(r)
    <3>1. req[r].pc # "idle" /\ Goto(r, "done") /\ UNCHANGED <<data, ledger>>
      BY <2>4 DEF GiveUp, Replay, Begun, At, Finish
    <3>2. req'[r].pc = "done" /\ \A q \in Requests \ {r} : req'[q] = req[q]
      BY <3>1, FieldsAfterGoto
    <3>3. Decided(r)'
      BY <3>2 DEF Decided
    <3> QED  BY <3>1, <3>2, <3>3, OneDecides
  <2>5. CASE ReadBefore(r) \/ Discover(r)
    BY <2>5, BegunDecides
  <2>6. CASE Claim(r)
    BY <2>6, ClaimDecides
  <2>7. CASE LockAffected(r) \/ LockParent(r) \/ CheckUpdate(r)
    BY <2>7, FencedDecides
  <2>8. CASE FindTemplate(r)
    BY <2>8, FindDecides
  <2>9. CASE CheckTemplate(r)
    BY <2>9, CheckTemplateDecides
  <2>10. CASE TakeLock(r)
    <3>1. UNCHANGED <<data, ledger, req>>
      BY <2>10 DEF TakeLock
    <3> QED  BY <3>1, QuietlyDecided DEF DecidedInv
  <2>11. CASE Work(r)
    BY <2>11, WorkDecides
  <2> QED  BY <2>1, <2>2, <2>3, <2>4, <2>5, <2>6, <2>7, <2>8, <2>9, <2>10, <2>11
<1> QED  BY <1>1, <1>2

-----------------------------------------------------------------------------
(* What a send finds set up is what an administrator has tested and imported *)

\* A save or a patch whose decision about the connection is about the row there is.
LEMMA UpdatedWasTested ==
    ASSUME config \in ConfigRow, ReadyWasTested, NEW inputs \in Inputs, NEW enabled \in BOOLEAN,
           NEW reset \in BOOLEAN, reset <=> config.inputs # inputs,
           config' = UpdatedConfig(inputs, enabled, reset), UNCHANGED lastProbe
    PROVE  ReadyWasTested'
<1>1. PICK c \in ConfigRow : c = config
  OBVIOUS
<1>2. PICK d : d = config'
  OBVIOUS
<1>3. /\ c.test # "never" => lastProbe = [inputs |-> c.inputs, outcome |-> c.test]
      /\ c.status = "ready" => c.test = "succeeded"
      /\ c.status = "degraded" => c.test = "failed"
  BY <1>1 DEF ReadyWasTested
<1>4. CASE reset
  <2>1. d.status = "untested" /\ d.test = "never"
    BY <1>1, <1>2, <1>4 DEF UpdatedConfig
  <2> QED  BY <1>2, <2>1 DEF ReadyWasTested
<1>5. CASE ~reset
  <2>1. c.inputs = inputs
    BY <1>1, <1>5
  <2>2. d.inputs = inputs /\ d.test = c.test
    BY <1>1, <1>2, <1>5 DEF UpdatedConfig
  <2>3. d.status = IF ~enabled THEN "disabled"
                   ELSE IF c.status # "disabled" THEN c.status
                   ELSE IF c.test = "succeeded" THEN "ready" ELSE "untested"
    BY <1>1, <1>2, <1>5 DEF UpdatedConfig
  <2>4. d.status = "ready" => d.test = "succeeded"
    BY <1>3, <2>2, <2>3
  <2>5. d.status = "degraded" => d.test = "failed"
    BY <1>3, <2>2, <2>3
  <2>6. d.test # "never" => lastProbe = [inputs |-> d.inputs, outcome |-> d.test]
    BY <1>3, <2>1, <2>2
  <2> QED  BY <1>2, <2>4, <2>5, <2>6 DEF ReadyWasTested
<1> QED  BY <1>4, <1>5

\* What a request read before its transaction is the row, if the version is.
LEMMA ViewIsCurrent ==
    ASSUME TypeInv, NEW r \in Requests, req[r].pc = "work", req[r].kind \in {"save", "legacyProbe"},
           \/ req[r].kind = "save" /\ config.version = In(r).version
           \/ config.version = req[r].view.version
    PROVE  req[r].view = config
<1>1. PICK x : x = req[r]
  OBVIOUS
<1>2. InputOK(x.kind, x.in) /\ ViewOK(x.kind, x.pc, x.in, x.view) /\ x.in = In(r)
  BY <1>1 DEF TypeInv, RequestOK, In
<1>3. /\ x.view \in ConfigRow
      /\ x.view.version <= config.version
      /\ x.view.version = config.version => x.view = config
      /\ x.kind = "save" => x.in.version <= x.view.version /\ x.in.version \in Nat
  BY <1>1, <1>2 DEF ViewOK, InputOK
<1>4. config.version \in Nat /\ x.view.version \in Nat
  BY <1>3 DEF TypeInv, RowsOK, ConfigRow
<1> QED  BY <1>1, <1>2, <1>3, <1>4

\* Whoever wrote the configuration, it is ready only if its connection was tested.
LEMMA ReadyStays ==
    ASSUME TypeInv, ReadyWasTested, NEW r \in Requests, Work(r)
    PROVE  ReadyWasTested'
<1>1. config \in ConfigRow /\ req[r].pc = "work" /\ req[r].pc # "idle"
  BY WorkCompletes DEF TypeInv, RowsOK
<1>2. CASE SaveConfig(r)
  <2>1. req[r].kind = "save" /\ config.version = In(r).version /\ UNCHANGED lastProbe
    BY <1>2 DEF SaveConfig, AtWork, IsKind
  <2>2. In(r).inputs \in Inputs
    BY <1>1, <2>1 DEF TypeInv, RequestOK, InputOK, In
  <2>3. req[r].view = config
    BY <1>1, <2>1, ViewIsCurrent
  <2>4. PICK enabled \in BOOLEAN : enabled = (In(r).enabled = "on")
    OBVIOUS
  <2>5. PICK reset \in BOOLEAN : reset = InputsChanged(config, In(r).inputs)
    BY DEF InputsChanged
  <2>6. config' = UpdatedConfig(In(r).inputs, enabled, reset)
    BY <1>2, <2>3, <2>4, <2>5 DEF SaveConfig
  <2>7. reset <=> config.inputs # In(r).inputs
    BY <2>5 DEF InputsChanged
  <2> QED  BY <1>1, <2>1, <2>2, <2>6, <2>7, UpdatedWasTested
<1>3. CASE PatchConfig(r)
  <2>1. req[r].kind = "patch" /\ UNCHANGED lastProbe
    BY <1>3 DEF PatchConfig, AtWork, IsKind
  <2>2. In(r).inputs \in Inputs
    BY <1>1, <2>1 DEF TypeInv, RequestOK, InputOK, In
  <2>3. PICK enabled \in BOOLEAN : enabled = Flip(In(r).enabled, config.enabled)
    BY DEF Flip
  <2>4. PICK reset \in BOOLEAN : reset = InputsChanged(config, In(r).inputs)
    BY DEF InputsChanged
  <2>5. config' = UpdatedConfig(In(r).inputs, enabled, reset)
    BY <1>3, <2>3, <2>4 DEF PatchConfig
  <2>6. reset <=> config.inputs # In(r).inputs
    BY <2>4 DEF InputsChanged
  <2> QED  BY <1>1, <2>1, <2>2, <2>5, <2>6, UpdatedWasTested
<1>4. CASE RecordConnectionTest(r)
  <2>1. Tested(r) = config
    <3>1. CASE IsKind(r, {"probe"})
      BY <3>1 DEF Tested
    <3>2. CASE ~IsKind(r, {"probe"})
      <4>1. req[r].kind = "legacyProbe" /\ config.version = req[r].view.version /\ Tested(r) = req[r].view
        BY <1>4, <3>2 DEF RecordConnectionTest, AtWork, IsKind, VersionFor, Tested
      <4> QED  BY <1>1, <4>1, ViewIsCurrent
    <3> QED  BY <3>1, <3>2
  <2>2. PICK outcome \in {"succeeded", "failed"} :
           /\ lastProbe' = [inputs |-> Tested(r).inputs, outcome |-> outcome]
           /\ config' = TestedConfig(outcome)
    BY <1>4 DEF RecordConnectionTest, TestedConfig
  <2>3. /\ config'.inputs = config.inputs /\ config'.test = outcome
        /\ config'.status = IF outcome = "succeeded" THEN "ready" ELSE "degraded"
    BY <1>1, <2>2, TestedIsRow
  <2>4. lastProbe' = [inputs |-> config'.inputs, outcome |-> config'.test]
    BY <2>1, <2>2, <2>3
  <2> QED  BY <2>3, <2>4 DEF ReadyWasTested
<1>5. CASE UNCHANGED <<config, lastProbe>>
  BY <1>5 DEF ReadyWasTested
<1> QED
  BY <1>2, <1>3, <1>4, <1>5 DEF Work, CreateSyncPreview, CommitSync, ImportTemplate, UpdateSignature,
     UpdateTemplate, StoreMessage

\* A catalogue that is not written stays as it is.
LEMMA SameCatalogue ==
    ASSUME CatalogueInv, UNCHANGED <<signatures, templates, messages>>
    PROVE  CatalogueInv'
  BY DEF CatalogueInv, TypeOK, KeyIsFree, Known, Approved

\* A commit enables no template, and disables those whose signature it withdraws.
LEMMA CommitKeepsCatalogue ==
    ASSUME TypeInv, TypeOK', CatalogueInv, NEW r \in Requests, CommitSync(r)
    PROVE  CatalogueInv'
<1>1. PICK chosen : chosen = In(r).chosen
  OBVIOUS
<1>2. /\ UNCHANGED messages
      /\ \A c \in chosen : CandidateOK(c) /\ ~IsNewTemplate(c)
      /\ \A s \in Signatures : signatures'[s] = CommittedSignature(s, chosen)
      /\ \A t \in Templates : templates'[t] = CommittedTemplate(t, chosen)
      /\ Known(templates)' = Known(templates)
  BY <1>1, CommitEffect
<1>3. RowsOK /\ Known(templates) \subseteq Templates /\ Known(signatures) \subseteq Signatures
  BY DEF TypeInv, RowsOK, TypeOK, Known
<1>4. ASSUME NEW s \in Signatures, signatures'[s].enabled
      PROVE  Approved(signatures'[s])
  <2>1. CASE Of("signature", s, chosen) = {}
    <3>1. signatures'[s] = signatures[s]
      BY <1>2, <1>3, <2>1, CommittedSignatureRow
    <3> QED  BY <1>4, <3>1 DEF CatalogueInv
  <2>2. CASE Of("signature", s, chosen) # {}
    BY <1>2, <1>3, <1>4, <2>2, CommittedSignatureRow
  <2> QED  BY <2>1, <2>2
<1>5. ASSUME NEW t \in Templates
      PROVE  /\ templates'[t].key = templates[t].key
             /\ templates'[t].enabled => Approved(templates'[t]) /\ Approved(signatures'[templates'[t].signature])
  <2>1. PICK s : s = templates[t].signature
    OBVIOUS
  <2>2. templates'[t].key = templates[t].key /\ templates'[t].signature = s
    BY <1>2, <1>3, <2>1, CommittedTemplateRow
  <2>3. ASSUME templates'[t].enabled
        PROVE  Approved(templates'[t]) /\ Approved(signatures'[s])
    <3>1. t \in Known(templates)
      <4>1. t \notin Known(templates) => templates'[t] = templates[t] /\ ~templates[t].enabled
        BY <1>2, <1>3, CommittedTemplateRow DEF RowsOK
      <4> QED  BY <2>3, <4>1
    <3>2. s \in Signatures
      BY <1>3, <2>1, <3>1 DEF RowsOK
    <3>3. CASE Of("template", t, chosen) # {}
      BY <1>2, <1>3, <2>1, <2>3, <3>2, <3>3, CommittedTemplateRow
    <3>4. CASE Of("template", t, chosen) = {}
      <4>1. templates'[t] = AfterSignatures(t, chosen)
        BY <1>2, <1>3, <3>4, CommittedTemplateRow
      <4>2. Withdrawing(s, chosen) = {}
        BY <1>2, <1>3, <2>1, <2>3, <4>1, AfterSignaturesRow
      <4>3. templates'[t] = templates[t]
        BY <1>2, <1>3, <2>1, <4>1, <4>2, AfterSignaturesRow
      <4>4. Approved(templates[t]) /\ Approved(signatures[s])
        BY <2>1, <2>3, <4>3 DEF CatalogueInv
      <4>5. Approved(signatures'[s])
        <5>1. CASE Of("signature", s, chosen) = {}
          <6>1. signatures'[s] = signatures[s]
            BY <1>2, <1>3, <3>2, <5>1, CommittedSignatureRow
          <6> QED  BY <4>4, <6>1
        <5>2. CASE Of("signature", s, chosen) # {}
          <6>1. PICK c \in Of("signature", s, chosen) : CommittedSignature(s, chosen).status = c.status
            BY <1>2, <1>3, <3>2, <5>2, CommittedSignatureRow
          <6>2. Approved(c)
            BY <4>2 DEF Of, Withdrawing
          <6> QED  BY <1>2, <3>2, <6>1, <6>2 DEF Approved
        <5> QED  BY <5>1, <5>2
      <4> QED  BY <4>3, <4>4, <4>5
    <3> QED  BY <3>3, <3>4
  <2> QED  BY <2>2, <2>3
<1>6. \A s \in Signatures : signatures'[s].enabled => Approved(signatures'[s])
  BY <1>4
<1>7. \A t \in Known(templates)' : KeyIsFree(templates[t].key, t)'
  BY <1>2, <1>3, <1>5 DEF CatalogueInv, KeyIsFree
<1>8. \A m \in messages' : templates'[m.template].key = m.key
  BY <1>2, <1>3, <1>5 DEF CatalogueInv, RowsOK
<1> QED  BY <1>5, <1>6, <1>7, <1>8 DEF CatalogueInv, Approved

\* An import adds an approved template under a usable signature and a free key.
LEMMA ImportKeepsCatalogue ==
    ASSUME TypeInv, TypeOK', CatalogueInv, NEW r \in Requests, ImportTemplate(r)
    PROVE  CatalogueInv'
<1>1. PICK i, s, k : i = In(r).id /\ s = In(r).signature /\ k = In(r).key
  OBVIOUS
<1>2. /\ UNCHANGED <<signatures, messages>>
      /\ i \in Templates \ Known(templates)
      /\ templates'[i].status = "approved" /\ templates'[i].key = k /\ templates'[i].signature = s
      /\ \A t \in Templates \ {i} : templates'[t] = templates[t]
      /\ \A t \in Known(templates)' \ Known(templates) : t = i
      /\ UsableSignature(s) /\ KeyIsFree(k, i)
  BY <1>1, ImportEffect
<1>3. RowsOK /\ Known(templates) \subseteq Templates
  BY DEF TypeInv, RowsOK, TypeOK, Known
<1>4. \A u \in Signatures : signatures'[u].enabled => Approved(signatures'[u])
  BY <1>2 DEF CatalogueInv
<1>5. \A t \in Templates :
         templates'[t].enabled => Approved(templates'[t]) /\ Approved(signatures'[templates'[t].signature])
  BY <1>2 DEF CatalogueInv, UsableSignature, Approved
<1>6. ASSUME NEW t \in Known(templates)', NEW u \in Known(templates)', u # t
      PROVE  templates'[u].key # templates'[t].key
  <2>1. CASE t = i
    <3>1. u \in Known(templates) /\ templates'[u] = templates[u]
      BY <1>2, <1>3, <1>6, <2>1
    <3> QED  BY <1>2, <1>6, <2>1, <3>1 DEF KeyIsFree
  <2>2. CASE u = i
    <3>1. t \in Known(templates) /\ templates'[t] = templates[t]
      BY <1>2, <1>3, <1>6, <2>2
    <3> QED  BY <1>2, <1>6, <2>2, <3>1 DEF KeyIsFree
  <2>3. CASE t # i /\ u # i
    <3>1. /\ t \in Known(templates) /\ u \in Known(templates)
          /\ templates'[t] = templates[t] /\ templates'[u] = templates[u]
      BY <1>2, <1>3, <1>6, <2>3
    <3> QED  BY <1>6, <3>1 DEF CatalogueInv, KeyIsFree
  <2> QED  BY <2>1, <2>2, <2>3
<1>7. \A t \in Known(templates)' : KeyIsFree(templates[t].key, t)'
  BY <1>6 DEF KeyIsFree
<1>8. \A m \in messages' : templates'[m.template].key = m.key
  BY <1>2, <1>3 DEF CatalogueInv, RowsOK
<1> QED  BY <1>4, <1>5, <1>7, <1>8 DEF CatalogueInv, Approved

\* A signature is enabled only while it is approved.
LEMMA UpdateSignatureKeepsCatalogue ==
    ASSUME TypeInv, TypeOK', CatalogueInv, NEW r \in Requests, UpdateSignature(r)
    PROVE  CatalogueInv'
<1>1. PICK s : s = In(r).id
  OBVIOUS
<1>2. PICK enabled \in BOOLEAN : enabled = (In(r).enabled = "on")
  OBVIOUS
<1>3. UNCHANGED <<templates, messages>> /\ (enabled => Approved(signatures[s]))
  BY <1>1, <1>2 DEF UpdateSignature
<1>4. RowsOK /\ s \in Known(signatures)
  <2>1. req[r].pc = "work" /\ req[r].kind = "updateSignature"
    BY DEF UpdateSignature, AtWork, At, IsKind
  <2> QED  BY <1>1, <2>1 DEF TypeInv, RequestOK, InputOK, In
<1>5. signatures \in [Signatures -> SignatureRow] /\ s \in Signatures
  BY <1>4 DEF RowsOK, TypeOK, Known
<1>6. PICK row \in SignatureRow : row = signatures[s]
  BY <1>5
<1>7. signatures' = [signatures EXCEPT ![s] = Toggled(row, enabled)]
  BY <1>1, <1>2, <1>5, <1>6 DEF UpdateSignature, Toggled
<1>8. PICK new : new = Toggled(row, enabled)
  OBVIOUS
<1>9. new.status = row.status /\ new.enabled = enabled
  BY <1>8, ToggledIsRow
<1>10. signatures'[s] = new /\ \A u \in Signatures \ {s} : signatures'[u] = signatures[u]
  BY <1>5, <1>7, <1>8
<1>11. \A u \in Signatures : signatures'[u].status = signatures[u].status
  BY <1>6, <1>9, <1>10
<1>12. \A u \in Signatures : signatures'[u].enabled => Approved(signatures'[u])
  BY <1>3, <1>6, <1>9, <1>10, <1>11 DEF CatalogueInv, Approved
<1>13. ASSUME NEW t \in Templates, templates'[t].enabled
       PROVE  Approved(templates'[t]) /\ Approved(signatures'[templates'[t].signature])
  <2>1. Approved(templates[t]) /\ Approved(signatures[templates[t].signature])
    BY <1>3, <1>13 DEF CatalogueInv
  <2>2. templates[t].signature \in Signatures
    <3>1. t \in Known(templates)
      BY <1>3, <1>4, <1>13 DEF RowsOK
    <3> QED  BY <1>4, <1>5, <3>1 DEF RowsOK, Known
  <2> QED  BY <1>3, <1>11, <2>1, <2>2 DEF Approved
<1>14. \A t \in Known(templates)' : KeyIsFree(templates[t].key, t)'
  BY <1>3 DEF CatalogueInv, KeyIsFree, Known
<1>15. \A m \in messages' : templates'[m.template].key = m.key
  BY <1>3 DEF CatalogueInv
<1> QED  BY <1>12, <1>13, <1>14, <1>15 DEF CatalogueInv, Approved

\* A template is enabled only under a usable signature, and renamed only to a free key
\* and while no message names the one it has.
LEMMA UpdateTemplateKeepsCatalogue ==
    ASSUME TypeInv, TypeOK', CatalogueInv, DecidedInv, NEW r \in Requests, UpdateTemplate(r)
    PROVE  CatalogueInv'
<1>1. PICK t : t = In(r).id
  OBVIOUS
<1>2. PICK enabled \in BOOLEAN : enabled = Flip(In(r).enabled, templates[t].enabled)
  BY DEF Flip
<1>3. /\ req[r].pc = "work" /\ IsKind(r, {"updateTemplate"}) /\ UNCHANGED <<signatures, messages>>
      /\ enabled => UsableSignature(templates[t].signature)
      /\ KeyIsFree(NextKey(r), t)
  BY <1>1, <1>2 DEF UpdateTemplate, AtWork, At
<1>4. /\ enabled => Approved(templates[t])
      /\ NextKey(r) # templates[t].key => ~IsUsed(t)
  BY <1>1, <1>2, <1>3 DEF DecidedInv, Decided
<1>5. /\ t \in Known(templates) /\ t \in Templates
      /\ templates' \in [Templates -> TemplateRow]
      /\ templates'[t].status = templates[t].status
      /\ templates'[t].enabled = enabled
      /\ templates'[t].key = NextKey(r)
      /\ templates'[t].signature = templates[t].signature
      /\ \A u \in Templates \ {t} : templates'[u] = templates[u]
  BY <1>1, <1>2, UpdatedTemplateRow
<1>6. RowsOK /\ Known(templates) \subseteq Templates /\ DOMAIN templates = Templates
  BY DEF TypeInv, RowsOK, TypeOK, Known
<1>7. \A u : u \in Known(templates)' <=> u \in Known(templates)
  <2>1. DOMAIN templates' = Templates
    BY <1>5
  <2> QED  BY <1>5, <1>6, <2>1 DEF Known
<1>8. \A s \in Signatures : signatures'[s].enabled => Approved(signatures'[s])
  BY <1>3 DEF CatalogueInv
<1>9. ASSUME NEW u \in Templates, templates'[u].enabled
      PROVE  Approved(templates'[u]) /\ Approved(signatures'[templates'[u].signature])
  <2>1. CASE u = t
    BY <1>3, <1>4, <1>5, <1>9, <2>1 DEF Approved, UsableSignature
  <2>2. CASE u # t
    BY <1>3, <1>5, <1>9, <2>2 DEF CatalogueInv
  <2> QED  BY <2>1, <2>2
<1>10. ASSUME NEW v \in Known(templates)', NEW u \in Known(templates)', u # v
       PROVE  templates'[u].key # templates'[v].key
  <2>0. u \in Known(templates) /\ v \in Known(templates) /\ u \in Templates /\ v \in Templates
    BY <1>6, <1>7
  <2>1. CASE v = t
    BY <1>3, <1>5, <1>10, <2>0, <2>1 DEF KeyIsFree
  <2>2. CASE u = t
    BY <1>3, <1>5, <1>10, <2>0, <2>2 DEF KeyIsFree
  <2>3. CASE v # t /\ u # t
    BY <1>5, <1>10, <2>0, <2>3 DEF CatalogueInv, KeyIsFree
  <2> QED  BY <2>1, <2>2, <2>3
<1>11. \A v \in Known(templates)' : KeyIsFree(templates[v].key, v)'
  BY <1>10 DEF KeyIsFree
<1>12. ASSUME NEW m \in messages'
       PROVE  templates'[m.template].key = m.key
  <2>1. m \in messages /\ templates[m.template].key = m.key /\ m.template \in Templates
    BY <1>3, <1>6 DEF CatalogueInv, RowsOK
  <2>2. CASE m.template = t
    BY <1>4, <1>5, <2>1, <2>2 DEF IsUsed
  <2>3. CASE m.template # t
    BY <1>5, <2>1, <2>3
  <2> QED  BY <2>2, <2>3
<1> QED  BY <1>8, <1>9, <1>11, <1>12 DEF CatalogueInv, Approved

\* A message names the key its template has.
LEMMA StoreKeepsCatalogue ==
    ASSUME CatalogueInv, DecidedInv, NEW r \in Requests, StoreMessage(r)
    PROVE  CatalogueInv'
<1>1. /\ req[r].pc = "work" /\ IsKind(r, {"send", "testSend"}) /\ UNCHANGED <<signatures, templates>>
      /\ messages' = messages \cup {[template |-> req[r].view, key |-> In(r).key, by |-> r]}
  BY DEF StoreMessage, AtWork, At
<1>2. templates[req[r].view].key = In(r).key
  BY <1>1 DEF DecidedInv, Decided
<1>3. PICK new : new = [template |-> req[r].view, key |-> In(r).key, by |-> r]
  OBVIOUS
<1>4. new.template = req[r].view /\ new.key = In(r).key /\ messages' = messages \cup {new}
  BY <1>1, <1>3
<1>5. \A m \in messages' : templates'[m.template].key = m.key
  BY <1>1, <1>2, <1>4 DEF CatalogueInv
<1> QED  BY <1>1, <1>5 DEF CatalogueInv, TypeOK, KeyIsFree, Known, Approved

\* What the sends find set up stays so.
LEMMA SetupHolds == TypeInv /\ LockInv /\ HoldInv /\ DecidedInv /\ SetupInv /\ [Next]_vars => SetupInv'
<1> SUFFICES ASSUME TypeInv, LockInv, HoldInv, DecidedInv, SetupInv, [Next]_vars  PROVE SetupInv'
  OBVIOUS
<1>1. ReadyWasTested /\ CatalogueInv
  BY DEF SetupInv
<1>2. TypeOK'
  <2>1. TypeInv'
    BY TypesHold
  <2> QED  BY <2>1 DEF TypeInv, RowsOK
<1>3. CASE UNCHANGED data
  <2>1. UNCHANGED <<config, lastProbe, signatures, templates, messages>>
    BY <1>3 DEF data
  <2> QED  BY <1>1, <2>1, SameCatalogue DEF SetupInv, ReadyWasTested
<1>4. ASSUME NEW r \in Requests, Work(r)
      PROVE  SetupInv'
  <2>1. ReadyWasTested'
    BY <1>1, <1>4, ReadyStays
  <2>2. CASE CommitSync(r)
    BY <1>1, <1>2, <2>1, <2>2, CommitKeepsCatalogue DEF SetupInv
  <2>3. CASE ImportTemplate(r)
    BY <1>1, <1>2, <2>1, <2>3, ImportKeepsCatalogue DEF SetupInv
  <2>4. CASE UpdateSignature(r)
    BY <1>1, <1>2, <2>1, <2>4, UpdateSignatureKeepsCatalogue DEF SetupInv
  <2>5. CASE UpdateTemplate(r)
    BY <1>1, <1>2, <2>1, <2>5, UpdateTemplateKeepsCatalogue DEF SetupInv
  <2>6. CASE StoreMessage(r)
    BY <1>1, <2>1, <2>6, StoreKeepsCatalogue DEF SetupInv
  <2>7. CASE SaveConfig(r) \/ PatchConfig(r) \/ RecordConnectionTest(r) \/ CreateSyncPreview(r)
    <3>1. UNCHANGED <<signatures, templates, messages>>
      BY <2>7 DEF SaveConfig, PatchConfig, RecordConnectionTest, CreateSyncPreview
    <3> QED  BY <1>1, <2>1, <3>1, SameCatalogue DEF SetupInv
  <2> QED  BY <1>4, <2>2, <2>3, <2>4, <2>5, <2>6, <2>7 DEF Work
<1>5. CASE Next
  <2>1. PICK r \in Requests :
           \/ Begin(r) \/ (\E q \in Requests : Repeat(r, q)) \/ GiveUp(r)
           \/ ReadBefore(r) \/ Discover(r) \/ Claim(r) \/ Replay(r)
           \/ TakeLock(r)
           \/ LockAffected(r) \/ LockParent(r) \/ CheckUpdate(r)
           \/ FindTemplate(r) \/ CheckTemplate(r)
           \/ Work(r)
    BY <1>5 DEF Next
  <2>2. UNCHANGED data \/ Work(r)
    BY <2>1 DEF Begin, Repeat, Start, GiveUp, ReadBefore, Discover, Claim, Replay, TakeLock, LockAffected,
       LockParent, CheckUpdate, FindTemplate, CheckTemplate
  <2> QED  BY <1>3, <1>4, <2>2
<1>6. CASE UNCHANGED vars
  BY <1>3, <1>6 DEF vars
<1> QED  BY <1>5, <1>6

\* It is so initially.
LEMMA InitSetup == Init => SetupInv
<1> SUFFICES ASSUME Init  PROVE SetupInv
  OBVIOUS
<1>1. RowsOK /\ messages = {}
  BY InitRows DEF Init
<1>2. CASE NotInUse
  <2>1. /\ config = Unconfigured
        /\ \A s \in Signatures : ~signatures[s].enabled
    BY <1>2 DEF NotInUse
  <2>2. ReadyWasTested
    BY <2>1 DEF ReadyWasTested, Unconfigured
  <2>3. /\ templates \in [Templates -> TemplateRow]
        /\ \A t \in Templates : ~templates[t].enabled /\ templates[t].status = "absent"
    <3>1. /\ templates \in [Templates -> TemplateRow]
          /\ \A t \in Templates :
                templates[t] = [status |-> "absent", enabled |-> FALSE, version |-> 0, key |-> None, signature |-> None]
      BY <1>2, InitialRows DEF NotInUse
    <3> QED  BY <3>1
  <2>4. Known(templates) = {}
    BY <2>3 DEF Known
  <2> QED  BY <1>1, <2>1, <2>2, <2>3, <2>4 DEF SetupInv, CatalogueInv, RowsOK
<1>3. CASE ~NotInUse
  <2>1. PICK mix \in Mixes : InUse(mix.imported)
    BY <1>3 DEF Init
  <2>2. PICK imported : imported = mix.imported
    OBVIOUS
  <2>3. imported \in SUBSET (Templates \cap Keys) /\ (imported # {} => Signatures # {})
    BY <2>2, MixesAssumption
  <2>4. PICK inputs \in Inputs : /\ config = Ready(inputs)
                                 /\ lastProbe = [inputs |-> inputs, outcome |-> "succeeded"]
    BY <2>1 DEF InUse
  <2>5. /\ signatures = [s \in Signatures |-> [status |-> "approved", enabled |-> TRUE, version |-> 1]]
        /\ templates = [t \in Templates |-> InitialTemplate(t, imported)]
    BY <2>1, <2>2 DEF InUse
  <2>6. ReadyWasTested
    BY <2>4 DEF ReadyWasTested, Ready
  <2>7. \A s \in Signatures : Approved(signatures[s])
    BY <2>5 DEF Approved
  <2>8. /\ templates \in [Templates -> TemplateRow]
        /\ \A t \in imported : /\ templates[t].key = t /\ templates[t].signature \in Signatures
                               /\ templates[t].status = "approved"
        /\ \A t \in Templates \ imported : templates[t].status = "absent" /\ ~templates[t].enabled
    BY <2>3, <2>5, InitialRows
  <2>9. Known(templates) = imported
    BY <2>3, <2>8 DEF Known
  <2>10. \A t \in Templates :
            templates[t].enabled => Approved(templates[t]) /\ Approved(signatures[templates[t].signature])
    BY <2>7, <2>8 DEF Approved
  <2>11. \A t \in Known(templates) : KeyIsFree(templates[t].key, t)
    BY <2>8, <2>9 DEF KeyIsFree
  <2> QED  BY <1>1, <2>6, <2>7, <2>10, <2>11 DEF SetupInv, CatalogueInv, RowsOK
<1> QED  BY <1>2, <1>3

\* An operation records its key once.
LEMMA EffectHolds == TypeInv /\ DecidedInv /\ OneEffectPerKey /\ [Next]_vars => OneEffectPerKey'
<1> SUFFICES ASSUME TypeInv, DecidedInv, OneEffectPerKey, [Next]_vars  PROVE OneEffectPerKey'
  OBVIOUS
<1>1. CASE UNCHANGED ledger
  BY <1>1 DEF OneEffectPerKey
<1>2. ASSUME NEW r \in Requests, Work(r)
      PROVE  OneEffectPerKey'
  <2>1. PICK x : x = req[r]
    OBVIOUS
  <2>2. x.pc = "work" /\ Complete(r)
    BY <1>2, <2>1, WorkCompletes
  <2>3. CASE IsKind(r, Claimed)
    <3>1. PICK e : e = EntryOf(r)
      OBVIOUS
    <3>2. e.kind = x.kind /\ e.key = x.key /\ ledger' = ledger \cup {e}
      BY <2>1, <2>2, <2>3, <3>1 DEF EntryOf, Complete
    <3>3. \A d \in ledger : ~(d.kind = x.kind /\ d.key = x.key)
      BY <2>1, <2>2, <2>3 DEF DecidedInv, Decided, Entries
    <3> QED  BY <3>2, <3>3 DEF OneEffectPerKey
  <2>4. CASE ~IsKind(r, Claimed)
    BY <1>1, <2>2, <2>4 DEF Complete
  <2> QED  BY <2>3, <2>4
<1>3. CASE Next
  <2>1. PICK r \in Requests :
           \/ Begin(r) \/ (\E q \in Requests : Repeat(r, q)) \/ GiveUp(r)
           \/ ReadBefore(r) \/ Discover(r) \/ Claim(r) \/ Replay(r)
           \/ TakeLock(r)
           \/ LockAffected(r) \/ LockParent(r) \/ CheckUpdate(r)
           \/ FindTemplate(r) \/ CheckTemplate(r)
           \/ Work(r)
    BY <1>3 DEF Next
  <2>2. UNCHANGED ledger \/ Work(r)
    BY <2>1 DEF Begin, Repeat, Start, GiveUp, ReadBefore, Discover, Claim, Replay, TakeLock, LockAffected,
       LockParent, CheckUpdate, FindTemplate, CheckTemplate
  <2> QED  BY <1>1, <1>2, <2>2
<1>4. CASE UNCHANGED vars
  BY <1>1, <1>4 DEF vars
<1> QED  BY <1>3, <1>4

\* What a message is stored on.
LEMMA StoreIsUsable == TypeInv /\ DecidedInv /\ [Next]_vars => StoresUsable
<1> SUFFICES ASSUME TypeInv, DecidedInv, [Next]_vars  PROVE StoresUsable
  OBVIOUS
<1>1. CASE UNCHANGED messages
  BY <1>1 DEF StoresUsable
<1>2. ASSUME NEW r \in Requests, StoreMessage(r)
      PROVE  StoresUsable
  <2>1. PICK t, m : t = req[r].view /\ m = [template |-> t, key |-> In(r).key, by |-> r]
    OBVIOUS
  <2>2. /\ req[r].pc = "work" /\ IsKind(r, {"send", "testSend"})
        /\ UsableSignature(templates[t].signature)
        /\ messages' = messages \cup {m}
    BY <1>2, <2>1 DEF StoreMessage, AtWork, At
  <2>3. m.template = t /\ m.key = In(r).key /\ m.by = r
    BY <2>1
  <2>4. UsableTemplate(t) /\ templates[t].key = In(r).key
    BY <2>1, <2>2 DEF DecidedInv, Decided
  <2>5. IsKind(r, {"testSend"}) =>
           config.status = "ready" /\ config.enabled /\ config.version = In(r).version
    BY <2>2 DEF DecidedInv, Decided
  <2> QED  BY <2>2, <2>3, <2>4, <2>5 DEF StoresUsable
<1>3. CASE Next
  <2>1. PICK r \in Requests :
           \/ Begin(r) \/ (\E q \in Requests : Repeat(r, q)) \/ GiveUp(r)
           \/ ReadBefore(r) \/ Discover(r) \/ Claim(r) \/ Replay(r)
           \/ TakeLock(r)
           \/ LockAffected(r) \/ LockParent(r) \/ CheckUpdate(r)
           \/ FindTemplate(r) \/ CheckTemplate(r)
           \/ Work(r)
    BY <1>3 DEF Next
  <2>2. UNCHANGED data \/ Work(r)
    BY <2>1 DEF Begin, Repeat, Start, GiveUp, ReadBefore, Discover, Claim, Replay, TakeLock, LockAffected,
       LockParent, CheckUpdate, FindTemplate, CheckTemplate
  <2>3. UNCHANGED messages \/ StoreMessage(r)
    BY <2>2 DEF data, Work, SaveConfig, PatchConfig, RecordConnectionTest, CreateSyncPreview, CommitSync,
       ImportTemplate, UpdateSignature, UpdateTemplate
  <2> QED  BY <1>1, <1>2, <2>3
<1>4. CASE UNCHANGED vars
  BY <1>1, <1>4 DEF vars, data
<1> QED  BY <1>3, <1>4

-----------------------------------------------------------------------------
(* Theorems *)

\* The invariant holds initially.
LEMMA InitIsAdministered == Init => AdministrationInv
<1> SUFFICES ASSUME Init  PROVE AdministrationInv
  OBVIOUS
<1>1. \A r \in Requests : req[r].pc = "idle"
  BY DEF Init
<1>2. DecidedInv
  BY <1>1 DEF DecidedInv, Decided
<1>3. OneEffectPerKey
  BY DEF Init, OneEffectPerKey
<1> QED  BY <1>2, <1>3, InitTypes, InitLocks, InitHolds, InitSetup DEF AdministrationInv

\* The invariant is inductive.
LEMMA InvHolds == Spec => []AdministrationInv
<1>1. AdministrationInv /\ [Next]_vars => AdministrationInv'
  BY TypesHold, LocksHold, HoldsHold, DecidedHolds, SetupHolds, EffectHolds DEF AdministrationInv
<1> QED  BY InitIsAdministered, <1>1, PTL DEF Spec

\* The setup: a ready provider is one whose present connection was tested; an enabled
\* template is approved under an approved signature; keys are unique; and a stored message
\* names the key its template still has - whatever saves, probes, previews, commits, imports,
\* renames and sends run at once.
THEOREM SetupIsSound == Spec => []SetupInv
<1>1. AdministrationInv => SetupInv
  BY DEF AdministrationInv
<1> QED  BY InvHolds, <1>1, PTL

\* No deadlock: the transactions of administration take their rows in one order.
THEOREM NoDeadlock == Spec => []LocksAreAcyclic
<1>1. AdministrationInv => LocksAreAcyclic
  BY OrderMeansAcyclic DEF AdministrationInv
<1> QED  BY InvHolds, <1>1, PTL

\* Repetition: an operation of an administrator takes effect once for its key.
THEOREM EffectsAreSingle == Spec => []OneEffectPerKey
<1>1. AdministrationInv => OneEffectPerKey
  BY DEF AdministrationInv
<1> QED  BY InvHolds, <1>1, PTL

\* Sends: a message is stored only on a template and a signature that may be used at that
\* moment, an administrator's only on the configuration it was fenced with.
THEOREM SendsUseTheSetup == Spec => SendsAreUsable
<1>1. AdministrationInv /\ [Next]_vars => StoresUsable
  BY StoreIsUsable DEF AdministrationInv
<1>2. Spec => [][StoresUsable]_vars
  BY InvHolds, <1>1, PTL DEF Spec
<1> QED  BY <1>2 DEF SendsAreUsable
=============================================================================
