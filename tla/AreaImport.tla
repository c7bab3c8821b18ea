----------------------------- MODULE AreaImport -----------------------------
(***************************************************************************)
(* Import of one version of the region library: importAuditedSource over    *)
(* the PostgreSQL import session, with the operators who edit, inherit from *)
(* and activate datasets meanwhile.                                         *)
(*                                                                          *)
(* The session's advisory lock and its statements share one connection: a   *)
(* connection that breaks loses the lock after its last statement has, or   *)
(* has not, committed.                                                      *)
(***************************************************************************)
EXTENDS Integers, Sequences, FiniteSets

CONSTANTS
    Importers,
    Manifests, RowsOf,      \* the verified rows of a source, level by level
    Sources, Target,        \* datasets: older ones that are ready, the imported one
    SameMeaning,            \* the codes whose source path the older ones share
    BatchSizes,
    Edited,                 \* bound: the codes whose settings operators change
    NoManifest, NoDataset, NoOne

Datasets == Sources \cup {Target}

RowsIn(m) == {RowsOf[m][n] : n \in DOMAIN RowsOf[m]}

Row  == UNION {RowsIn(m) : m \in Manifests}
Code == {row.code : row \in Row}

ASSUME ImportConstants ==
    /\ Target \notin Sources /\ NoDataset \notin Datasets
    /\ NoManifest \notin Manifests /\ NoOne \notin Importers
    /\ BatchSizes \subseteq Nat \ {0}
    /\ Edited \subseteq Code
    /\ \A m \in Manifests :
          /\ RowsOf[m] \in Seq(Row)
          /\ \A n \in 2 .. Len(RowsOf[m]) : RowsOf[m][n - 1].level <= RowsOf[m][n].level

VARIABLES
    status,         \* area_dataset.status of the target, "absent" before the insert
    manifest,       \* the manifest columns of the target
    rows,           \* area_region rows of the target
    inherited,      \* import_progress.inheritance of the target
    report,         \* import_report of the target
    settings,       \* the codes of a dataset that carry local settings
    active,         \* the dataset with is_active
    lock,           \* the importer whose session holds the import lock
    imp             \* what each importer holds in memory

dataset == <<status, manifest, rows, inherited, report>>
vars    == <<dataset, settings, active, lock, imp>>

-----------------------------------------------------------------------------
Inherited == [source : Sources \cup {NoDataset}, conflicts : Nat]
Nothing   == [source |-> NoDataset, conflicts |-> 0]

Report == [passed : BOOLEAN, conflicts : Nat]

Import ==
    [pc       : {"idle", "verified", "locked", "appending", "inherited", "audited", "confirmed"},
     manifest : Manifests \cup {NoManifest},
     size     : BatchSizes \cup {0},
     from     : Datasets \cup {NoDataset},
     found    : {"none", "importing", "ready"},  \* the status ensureDataset returned
     done     : Nat,                             \* recordsCommitted, over all levels
     report   : Report]

Idle == [pc |-> "idle", manifest |-> NoManifest, size |-> 0, from |-> NoDataset,
         found |-> "none", done |-> 0, report |-> [passed |-> FALSE, conflicts |-> 0]]

TypeOK ==
    /\ status \in {"absent", "importing", "failed", "ready"}
    /\ manifest \in Manifests \cup {NoManifest}
    /\ rows \subseteq Row
    /\ inherited \in Inherited
    /\ report \in Report
    /\ settings \in [Datasets -> SUBSET Code]
    /\ \A d \in Datasets : IsFiniteSet(settings[d])
    /\ active \in Datasets \cup {NoDataset}
    /\ lock \in Importers \cup {NoOne}
    /\ imp \in [Importers -> Import]

Init ==
    /\ status = "absent"
    /\ manifest = NoManifest
    /\ rows = {}
    /\ inherited = Nothing
    /\ report = [passed |-> FALSE, conflicts |-> 0]
    /\ settings = [d \in Datasets |-> {}]
    /\ active = NoDataset
    /\ lock = NoOne
    /\ imp = [i \in Importers |-> Idle]

-----------------------------------------------------------------------------
(* One run of importAuditedSource *)

\* The source files are audited again; a source that changed ends the run here.
Verify(i, m, size, from) ==
    /\ imp[i].pc = "idle"
    /\ imp' = [imp EXCEPT ![i] = [Idle EXCEPT !.pc = "verified", !.manifest = m,
                                              !.size = size, !.from = from]]
    /\ UNCHANGED <<dataset, settings, active, lock>>

\* Mutation: the answer of pg_try_advisory_lock is not looked at.
TryLockAnyway(i) ==
    /\ imp[i].pc = "verified"
    /\ lock' = IF lock = NoOne THEN i ELSE lock
    /\ imp' = [imp EXCEPT ![i].pc = "locked"]
    /\ UNCHANGED <<dataset, settings, active>>

\* pg_try_advisory_lock does not wait: the run ends if another one holds it.
TryLock(i) ==
    /\ imp[i].pc = "verified"
    /\ IF lock = NoOne
         THEN lock' = i /\ imp' = [imp EXCEPT ![i].pc = "locked"]
         ELSE imp' = [imp EXCEPT ![i] = Idle] /\ UNCHANGED lock
    /\ UNCHANGED <<dataset, settings, active>>

\* Mutation: a version that has failed is refused.
EnsureUnfailed(i) ==
    /\ imp[i].pc = "locked"
    /\ status # "failed"
    /\ status # "absent" => manifest = imp[i].manifest
    /\ status' = IF status = "absent" THEN "importing" ELSE status
    /\ manifest' = imp[i].manifest
    /\ imp' = [imp EXCEPT ![i].pc = "appending", ![i].found = status']
    /\ UNCHANGED <<rows, inherited, report, settings, active, lock>>

\* A version belongs to the manifest that created it; a failed one is resumed.
EnsureDataset(i) ==
    /\ imp[i].pc = "locked"
    /\ status # "absent" => manifest = imp[i].manifest
    /\ status' = IF status \in {"absent", "failed"} THEN "importing" ELSE status
    /\ manifest' = imp[i].manifest
    /\ imp' = [imp EXCEPT ![i].pc = "appending", ![i].found = status']
    /\ UNCHANGED <<rows, inherited, report, settings, active, lock>>

\* Mutation: a batch runs on into the next level.
BatchAcrossLevels(i) ==
    LET next == imp[i].done + 1
    IN  {n \in next .. Len(RowsOf[imp[i].manifest]) : n < next + imp[i].size}

\* The next rows of one level, however many are left of it.
Batch(i) ==
    LET source == RowsOf[imp[i].manifest]
        next   == imp[i].done + 1
    IN  {n \in next .. Len(source) : n < next + imp[i].size /\ source[n].level = source[next].level}

\* Parents are looked up among the committed rows, and so are rows that a former
\* run has left, which must agree.
Appendable(B) ==
    \A row \in B :
        /\ row.parent # 0 => \E up \in rows : up.code = row.parent /\ up.level = row.level - 1
        /\ \A old \in rows : old.code = row.code => old = row

AppendBatch(i) ==
    LET source == RowsOf[imp[i].manifest]
        B      == {source[n] : n \in Batch(i)}
    IN  /\ imp[i].pc = "appending" /\ imp[i].found = "importing"
        /\ B # {} /\ Appendable(B)
        /\ rows' = rows \cup B
        /\ imp' = [imp EXCEPT ![i].done = @ + Cardinality(Batch(i))]
        /\ UNCHANGED <<status, manifest, inherited, report, settings, active, lock>>

Appended(i) ==
    /\ imp[i].pc = "appending"
    /\ imp[i].found = "ready" \/ imp[i].done = Len(RowsOf[imp[i].manifest])

\* Settings are taken over where the source path means the same, and counted as
\* conflicts elsewhere, in one snapshot and one transaction.
TakeOver(i, kept) ==
    /\ inherited' = [source |-> imp[i].from,
                     conflicts |-> Cardinality(settings[imp[i].from] \ kept)]
    /\ settings' = [settings EXCEPT ![Target] = @ \cup (settings[imp[i].from] \cap kept)]

\* Mutation: every run inherits anew.
InheritAgain(i) ==
    /\ Appended(i)
    /\ imp[i].found = "importing"
    /\ imp[i].from \in Sources
    /\ TakeOver(i, SameMeaning \cap {row.code : row \in rows})
    /\ imp' = [imp EXCEPT ![i].pc = "inherited", ![i].report.conflicts = inherited'.conflicts]
    /\ UNCHANGED <<status, manifest, rows, report, active, lock>>

\* What an earlier run has inherited stays, and only its source may be named again.
Inherit(i) ==
    /\ Appended(i)
    /\ imp[i].found = "importing"
    /\ imp[i].from \in Sources
    /\ IF inherited.source = NoDataset
         THEN TakeOver(i, SameMeaning \cap {row.code : row \in rows})
         ELSE inherited.source = imp[i].from /\ UNCHANGED <<inherited, settings>>
    /\ imp' = [imp EXCEPT ![i].pc = "inherited", ![i].report.conflicts = inherited'.conflicts]
    /\ UNCHANGED <<status, manifest, rows, report, active, lock>>

\* Nothing to inherit: the report repeats what earlier runs have inherited.
KeepInheritance(i) ==
    /\ Appended(i)
    /\ imp[i].found = "importing" => imp[i].from = NoDataset
    /\ imp' = [imp EXCEPT ![i].pc = "inherited",
                 ![i].report.conflicts = IF imp[i].found = "ready" THEN report.conflicts
                                                                   ELSE inherited.conflicts]
    /\ UNCHANGED <<dataset, settings, active, lock>>

\* Digests and counts of the database against those of the source.
AuditDataset(i) ==
    /\ imp[i].pc = "inherited"
    /\ rows = RowsIn(imp[i].manifest)
    /\ imp' = [imp EXCEPT ![i].pc = "audited", ![i].report.passed = TRUE]
    /\ UNCHANGED <<dataset, settings, active, lock>>

MarkReady(i) ==
    /\ imp[i].pc = "audited"
    /\ IF imp[i].found # "ready" /\ status = "importing"
         THEN status' = "ready" /\ report' = imp[i].report
         ELSE UNCHANGED <<status, report>>
    /\ imp' = [imp EXCEPT ![i].pc = "confirmed"]
    /\ UNCHANGED <<manifest, rows, inherited, settings, active, lock>>

Finish(i) ==
    /\ imp[i].pc = "confirmed"
    /\ lock' = NoOne
    /\ imp' = [imp EXCEPT ![i] = Idle]
    /\ UNCHANGED <<dataset, settings, active>>

\* Mutation: whatever failed, the dataset this run worked on has failed.
FailAlways(i) ==
    /\ imp[i].pc \in {"locked", "appending", "inherited", "audited", "confirmed"}
    /\ IF imp[i].pc # "locked" /\ imp[i].found # "ready"
         THEN status' = "failed" /\ report' = [imp[i].report EXCEPT !.passed = FALSE]
         ELSE UNCHANGED <<status, report>>
    /\ lock' = NoOne
    /\ imp' = [imp EXCEPT ![i] = Idle]
    /\ UNCHANGED <<manifest, rows, inherited, settings, active>>

\* A statement fails or a check above refuses, even after markReady's update was
\* committed: a dataset this run did not find ready is marked failed, if it can be.
Fail(i) ==
    /\ imp[i].pc \in {"locked", "appending", "inherited", "audited", "confirmed"}
    /\ IF imp[i].pc # "locked" /\ imp[i].found # "ready" /\ status # "ready"
         THEN status' = "failed" /\ report' = [imp[i].report EXCEPT !.passed = FALSE]
         ELSE UNCHANGED <<status, report>>
    /\ lock' = NoOne
    /\ imp' = [imp EXCEPT ![i] = Idle]
    /\ UNCHANGED <<manifest, rows, inherited, settings, active>>

\* The process or its connection is lost.
Lose(i) ==
    /\ imp[i].pc # "idle"
    /\ lock' = IF lock = i THEN NoOne ELSE lock
    /\ imp' = [imp EXCEPT ![i] = Idle]
    /\ UNCHANGED <<dataset, settings, active>>

-----------------------------------------------------------------------------
(* Operators *)

Ready(d) == d = Target => status = "ready"

\* updatePresentation; a stale revision is refused.
UpdatePresentation(d, code) ==
    /\ Ready(d)
    /\ d = Target => code \in {row.code : row \in rows}
    /\ \E now \in {settings[d] \cup {code}, settings[d] \ {code}} :
          settings' = [settings EXCEPT ![d] = now]
    /\ UNCHANGED <<dataset, active, lock, imp>>

SetActive(d) ==
    /\ Ready(d) /\ (d = Target => report.passed)
    /\ active' = d
    /\ UNCHANGED <<dataset, settings, lock, imp>>

-----------------------------------------------------------------------------
Proceed(i) ==
    \/ TryLock(i) \/ EnsureDataset(i) \/ AppendBatch(i)
    \/ Inherit(i) \/ KeepInheritance(i)
    \/ AuditDataset(i) \/ MarkReady(i) \/ Finish(i)

Run(i) == \E m \in Manifests, size \in BatchSizes, from \in Datasets \cup {NoDataset} :
              Verify(i, m, size, from)

OperatorStep ==
    \E d \in Datasets : SetActive(d) \/ \E code \in Edited : UpdatePresentation(d, code)

Next ==
    \/ \E i \in Importers : Run(i) \/ Proceed(i) \/ Fail(i) \/ Lose(i)
    \/ OperatorStep

Spec == Init /\ [][Next]_vars
-----------------------------------------------------------------------------
(* Properties *)

\* A ready dataset holds exactly the rows of its manifest, whatever runs, retries
\* and batch sizes it took, and its report tells what was inherited into it.
ReadyIsComplete ==
    status = "ready" =>
        /\ manifest \in Manifests
        /\ rows = RowsIn(manifest)
        /\ report = [passed |-> TRUE, conflicts |-> inherited.conflicts]

\* Public reads follow the active dataset, which is never one that an import may
\* still change.
ActiveIsVerified == active = Target => status = "ready"

\* Only one run works on the dataset at a time, and what it has read of it stays true
\* for as long as it does: the code keeps the dataset as ensureDataset returned it. A run
\* that is told its dataset is ready is told the truth.
Work(i) ==
    /\ imp[i].pc # "idle" => imp[i].manifest \in Manifests
    /\ lock = i <=> imp[i].pc \in {"locked", "appending", "inherited", "audited", "confirmed"}
    /\ imp[i].pc \in {"appending", "inherited", "audited", "confirmed"} =>
          manifest = imp[i].manifest
    /\ imp[i].pc \in {"appending", "inherited", "audited"} =>
          imp[i].found = status /\ status \in {"importing", "ready"}
    /\ imp[i].pc \in {"inherited", "audited"} =>
          imp[i].report.conflicts = IF status = "ready" THEN report.conflicts
                                                        ELSE inherited.conflicts
    /\ imp[i].pc = "audited" => imp[i].report.passed = TRUE /\ rows = RowsIn(imp[i].manifest)
    /\ imp[i].pc = "confirmed" => status = "ready"

WorkIsAlone == \A i \in Importers : Work(i)

\* Inherited settings have a source, and are complete or not there.
InheritanceIsWhole == inherited.source = NoDataset => inherited = Nothing

\* Whoever relies on a dataset, an importer or the public, relies on a whole one.
ImportInv ==
    TypeOK /\ ReadyIsComplete /\ ActiveIsVerified /\ WorkIsAlone /\ InheritanceIsWhole

\* No import, repeated or late, touches a dataset that is ready, nor the settings
\* operators have made in it.
ReadyIsFinal ==
    [][status = "ready" => /\ UNCHANGED dataset
                           /\ imp' # imp => settings' = settings]_vars

\* Settings are inherited once, from one source, and no retry of the import
\* replaces or repeats it.
InheritedOnce ==
    [][inherited # Nothing =>
          /\ inherited' = inherited
          /\ imp' # imp => settings' = settings]_vars

\* What an earlier run has committed stands, although its answer may have been lost
\* and later ones do their work again.
ImportsStand == ReadyIsFinal /\ InheritedOnce

-----------------------------------------------------------------------------
(* Liveness *)

\* The operator keeps repeating the import with the source that belongs to the
\* version, and of these runs some find no other one at work: the code does not queue
\* for the lock, so that its next holder is who tries when it is free.  Every run goes
\* on while its process lives, and runs that are refused end.
Retry(i) == \E size \in BatchSizes : manifest \in Manifests /\ Verify(i, manifest, size, NoDataset)

Retries(i) == imp[i].manifest = manifest /\ imp[i].from = NoDataset

Fairness ==
    \A i \in Importers :
        /\ WF_vars(Proceed(i))
        /\ WF_vars(~ENABLED Proceed(i) /\ Fail(i))
        /\ SF_vars(lock = NoOne /\ Retry(i))
        /\ SF_vars(lock = NoOne /\ Retries(i) /\ TryLock(i))

FairSpec == Spec /\ Fairness

\* A run is lost, or fails, although it could go on.  What it would have done by itself
\* is no fault: to end, to be refused the lock, or to fail because a check refuses.
Fault ==
    \E i \in Importers : (Lose(i) \/ Fail(i)) /\ ENABLED Proceed(i) /\ ~Proceed(i)

\* Once faults stop, a version that was begun becomes ready, wherever earlier runs
\* have been interrupted: the lock of a run that ended is free, a failed dataset is
\* resumed, and the rows and settings that were committed do not stand in the way.
ImportsComplete ==
    <>[][~Fault]_vars => (status \in {"importing", "failed"} ~> status = "ready")
=============================================================================
