---------------------------- MODULE RegionProofs ----------------------------
(***************************************************************************)
(* Machine-checked proofs about the regions, from their import to a saved    *)
(* address.                                                                  *)
(*                                                                          *)
(* AreaImport: whatever runs, failures and retries an import takes, a ready  *)
(* dataset is whole, what a run knows of its dataset stays true while it     *)
(* holds the lock, and nothing that was committed for good is changed again. *)
(*                                                                          *)
(* AreaSelection: every layer of the field hangs below the region of the     *)
(* path one level higher and shows regions of that parent only, whatever     *)
(* order answers come in and whatever dataset is active when they do.        *)
(* A field that has come to rest shows the value of its host, and a value    *)
(* the host was told to be accepted is one the server accepts.               *)
(*                                                                          *)
(* AddressForm: the index of the server is whole, and a saved address is one *)
(* path of the version it names.                                             *)
(***************************************************************************)
EXTENDS AreaImport, AreaSelection, AddressForm, FiniteSetTheorems, TLAPS

\* The stages in which a run holds the lock of its dataset.
Working == {"locked", "appending", "inherited", "audited", "confirmed"}

-----------------------------------------------------------------------------
(* What a run holds in memory                                               *)

\* The parts of the invariant.
LEMMA ImportFacts ==
    ASSUME ImportInv
    PROVE  /\ imp \in [Importers -> Import]
           /\ status \in {"absent", "importing", "failed", "ready"}
           /\ manifest \in Manifests \cup {NoManifest} /\ rows \subseteq Row
           /\ inherited \in Inherited /\ report \in Report
           /\ settings \in [Datasets -> SUBSET Code]
           /\ \A d \in Datasets : IsFiniteSet(settings[d])
           /\ active \in Datasets \cup {NoDataset} /\ lock \in Importers \cup {NoOne}
           /\ \A i \in Importers : imp[i] \in Import /\ Work(i)
           /\ ReadyIsComplete /\ ActiveIsVerified /\ InheritanceIsWhole
BY DEF ImportInv, TypeOK, WorkIsAlone

\* A run that has ended is idle again.
LEMMA IdleRun == Idle \in Import /\ Idle.pc = "idle"
BY DEF Idle, Import, Report

\* Rows are only those of a manifest.
LEMMA RowsAreRows ==
    ASSUME NEW m \in Manifests
    PROVE  /\ RowsOf[m] \in Seq(Row) /\ Len(RowsOf[m]) \in Nat
           /\ DOMAIN RowsOf[m] = 1 .. Len(RowsOf[m])
           /\ RowsIn(m) \subseteq Row
BY ImportConstants DEF RowsIn, Row

\* A step that leaves what a run holds, and its lock, alone keeps what the run knows:
\* unless it changes the dataset while the run works on it.
LEMMA KeepWork ==
    ASSUME NEW j \in Importers, Work(j), imp'[j] = imp[j], (lock' = j) = (lock = j),
           lock = j => UNCHANGED dataset
    PROVE  Work(j)'
BY DEF Work, dataset

\* The steps of the run that holds the lock disturb no other run.
LEMMA OthersWait ==
    ASSUME ImportInv, NEW i \in Importers, lock = i, lock' \in {i, NoOne},
           NEW new, imp' = [imp EXCEPT ![i] = new], new \in Import,
           Work(i)'
    PROVE  imp' \in [Importers -> Import] /\ WorkIsAlone'
<1>1. imp \in [Importers -> Import] /\ \A j \in Importers : Work(j)
  BY ImportFacts
<1>2. imp' \in [Importers -> Import]
  BY <1>1
<1>3. ASSUME NEW j \in Importers, j # i
      PROVE  Work(j)'
  <2>1. imp'[j] = imp[j]
    BY <1>1, <1>3
  <2>2. lock # j /\ lock' # j
    BY <1>3, ImportConstants
  <2> QED  BY <1>1, <2>1, <2>2, KeepWork
<1> QED  BY <1>2, <1>3 DEF WorkIsAlone

-----------------------------------------------------------------------------
(* One step of a run                                                        *)

\* What a step keeps if it leaves the dataset and the operators' settings alone.
LEMMA KeepDataset ==
    ASSUME ImportInv, UNCHANGED <<dataset, settings, active>>,
           lock' \in Importers \cup {NoOne}, imp' \in [Importers -> Import], WorkIsAlone'
    PROVE  ImportInv'
<1>1. TypeOK'
  BY ImportFacts DEF TypeOK, dataset
<1>2. ReadyIsComplete' /\ ActiveIsVerified' /\ InheritanceIsWhole'
  BY ImportFacts DEF ReadyIsComplete, ActiveIsVerified, InheritanceIsWhole, dataset
<1> QED  BY <1>1, <1>2 DEF ImportInv

\* Before a run works on the dataset, and when it gives up.
LEMMA EdgeKeepsInv ==
    ASSUME ImportInv, NEW i \in Importers,
           Run(i) \/ TryLock(i) \/ Finish(i) \/ Lose(i)
    PROVE  ImportInv'
<1>1. UNCHANGED <<dataset, settings, active>> /\ UNCHANGED dataset
  BY DEF Run, Verify, TryLock, Finish, Lose
<1>2. /\ imp \in [Importers -> Import] /\ imp[i] \in Import /\ Work(i)
      /\ \A j \in Importers : Work(j)
      /\ lock \in Importers \cup {NoOne}
  BY ImportFacts
<1>3. NoOne \notin Importers
  BY ImportConstants
<1>4. \E new \in Import :
          /\ imp' = [imp EXCEPT ![i] = new]
          /\ lock' \in {lock, i, NoOne}
          /\ lock' # lock => lock \in {i, NoOne}
          /\ lock' = i <=> new.pc \in Working
          /\ new.pc \in {"idle", "verified", "locked"}
          /\ new.pc # "idle" => new.manifest \in Manifests
  <2>1. CASE Run(i)
    <3>1. PICK m \in Manifests, size \in BatchSizes, from \in Datasets \cup {NoDataset} :
              Verify(i, m, size, from)
      BY <2>1 DEF Run
    <3> DEFINE new == [Idle EXCEPT !.pc = "verified", !.manifest = m, !.size = size,
                                   !.from = from]
    <3>2. imp' = [imp EXCEPT ![i] = new] /\ lock' = lock /\ imp[i].pc = "idle"
      BY <3>1 DEF Verify
    <3>3. new \in Import /\ new.pc = "verified" /\ new.manifest = m
      BY IdleRun DEF Idle, Import
    <3>4. lock # i
      BY <1>2, <3>2 DEF Work
    <3> HIDE DEF new
    <3> QED  BY <3>2, <3>3, <3>4 DEF Working
  <2>2. CASE TryLock(i) /\ lock = NoOne
    <3> DEFINE new == [imp[i] EXCEPT !.pc = "locked"]
    <3>1. imp' = [imp EXCEPT ![i] = new] /\ lock' = i /\ imp[i].pc = "verified"
      BY <2>2 DEF TryLock
    <3>2. new \in Import /\ new.pc = "locked" /\ new.manifest = imp[i].manifest
      BY <1>2 DEF Import
    <3>3. imp[i].manifest \in Manifests
      BY <1>2, <3>1 DEF Work
    <3> HIDE DEF new
    <3> QED  BY <2>2, <3>1, <3>2, <3>3 DEF Working
  <2>3. CASE TryLock(i) /\ lock # NoOne
    <3>1. imp' = [imp EXCEPT ![i] = Idle] /\ lock' = lock /\ imp[i].pc = "verified"
      BY <2>3 DEF TryLock
    <3>2. lock # i
      BY <1>2, <3>1 DEF Work
    <3> QED  BY <3>1, <3>2, IdleRun DEF Working
  <2>4. CASE Finish(i)
    <3>1. imp' = [imp EXCEPT ![i] = Idle] /\ lock' = NoOne /\ imp[i].pc = "confirmed"
      BY <2>4 DEF Finish
    <3>2. lock = i
      BY <1>2, <3>1 DEF Work
    <3> QED  BY <3>1, <3>2, <1>3, IdleRun DEF Working
  <2>5. CASE Lose(i)
    <3>1. imp' = [imp EXCEPT ![i] = Idle] /\ lock' = IF lock = i THEN NoOne ELSE lock
      BY <2>5 DEF Lose
    <3> QED  BY <3>1, <1>3, IdleRun DEF Working
  <2> QED  BY <2>1, <2>2, <2>3, <2>4, <2>5
<1>5. PICK new \in Import :
          /\ imp' = [imp EXCEPT ![i] = new]
          /\ lock' \in {lock, i, NoOne}
          /\ lock' # lock => lock \in {i, NoOne}
          /\ lock' = i <=> new.pc \in Working
          /\ new.pc \in {"idle", "verified", "locked"}
          /\ new.pc # "idle" => new.manifest \in Manifests
  BY <1>4
<1>6. imp' \in [Importers -> Import] /\ imp'[i] = new /\ lock' \in Importers \cup {NoOne}
  BY <1>2, <1>5
<1>7. Work(i)'
  BY <1>5, <1>6 DEF Work, Working
<1>8. ASSUME NEW j \in Importers, j # i
      PROVE  Work(j)'
  <2>1. imp'[j] = imp[j]
    BY <1>2, <1>5, <1>8
  <2>2. (lock' = j) = (lock = j)
    BY <1>3, <1>5, <1>8
  <2> QED  BY <1>1, <1>2, <2>1, <2>2, KeepWork
<1>9. WorkIsAlone'
  BY <1>7, <1>8 DEF WorkIsAlone
<1> QED  BY <1>1, <1>6, <1>9, KeepDataset

\* ensureDataset creates the dataset, or goes on with one of the same manifest.
LEMMA EnsureKeepsInv ==
    ASSUME ImportInv, NEW i \in Importers, EnsureDataset(i)
    PROVE  ImportInv'
<1>1. /\ imp \in [Importers -> Import] /\ imp[i] \in Import /\ Work(i)
      /\ status \in {"absent", "importing", "failed", "ready"}
      /\ imp[i].pc = "locked" /\ lock = i /\ imp[i].manifest \in Manifests
  BY ImportFacts DEF EnsureDataset, Work
<1> DEFINE new == [imp[i] EXCEPT !.pc = "appending", !.found = status']
<1>2. /\ status' = IF status \in {"absent", "failed"} THEN "importing" ELSE status
      /\ status # "absent" => manifest = imp[i].manifest
      /\ manifest' = imp[i].manifest
      /\ imp' = [imp EXCEPT ![i] = new]
      /\ UNCHANGED <<rows, inherited, report, settings, active, lock>>
  BY DEF EnsureDataset
<1>3. status' \in {"importing", "ready"} /\ (status' = "ready") = (status = "ready")
  BY <1>1, <1>2
<1>4. /\ new \in Import /\ new.pc = "appending" /\ new.found = status'
      /\ new.manifest = imp[i].manifest
  BY <1>1, <1>3 DEF Import
<1> HIDE DEF new
<1>5. imp'[i] = new
  BY <1>1, <1>2
<1>6. Work(i)'
  BY <1>1, <1>2, <1>3, <1>4, <1>5 DEF Work
<1>7. imp' \in [Importers -> Import] /\ WorkIsAlone'
  BY <1>1, <1>2, <1>4, <1>6, OthersWait
<1>8. TypeOK'
  BY <1>1, <1>2, <1>3, <1>7, ImportFacts DEF TypeOK
<1>9. ReadyIsComplete' /\ ActiveIsVerified' /\ InheritanceIsWhole'
  BY <1>1, <1>2, <1>3, ImportFacts DEF ReadyIsComplete, ActiveIsVerified, InheritanceIsWhole
<1> QED  BY <1>7, <1>8, <1>9 DEF ImportInv

\* A batch is a part of the source.
LEMMA BatchFacts ==
    ASSUME ImportInv, NEW i \in Importers, imp[i].manifest \in Manifests
    PROVE  /\ Batch(i) \subseteq DOMAIN RowsOf[imp[i].manifest]
           /\ Cardinality(Batch(i)) \in Nat
<1>1. imp[i] \in Import
  BY ImportFacts
<1>2. imp[i].done \in Nat
  BY <1>1 DEF Import
<1>3. PICK k \in Nat : k = Len(RowsOf[imp[i].manifest])
  BY RowsAreRows
<1>4. DOMAIN RowsOf[imp[i].manifest] = 1 .. k
  BY <1>3, RowsAreRows
<1>5. Batch(i) \subseteq imp[i].done + 1 .. k
  BY <1>3 DEF Batch
<1>6. Batch(i) \subseteq 1 .. k
  BY <1>2, <1>5
<1>7. IsFiniteSet(1 .. k)
  BY FS_Interval
<1>8. IsFiniteSet(Batch(i))
  BY <1>6, <1>7, FS_Subset
<1> QED  BY <1>4, <1>6, <1>8, FS_CardinalityType

\* A run appends rows of its manifest while nobody else works on the dataset.
LEMMA AppendKeepsInv ==
    ASSUME ImportInv, NEW i \in Importers, AppendBatch(i)
    PROVE  ImportInv'
<1>1. /\ imp \in [Importers -> Import] /\ imp[i] \in Import /\ Work(i)
      /\ imp[i].pc = "appending" /\ lock = i /\ imp[i].manifest \in Manifests
      /\ status = "importing" /\ manifest = imp[i].manifest
  BY ImportFacts DEF AppendBatch, Work
<1> DEFINE new == [imp[i] EXCEPT !.done = @ + Cardinality(Batch(i))]
           B == {RowsOf[imp[i].manifest][n] : n \in Batch(i)}
<1>2. /\ rows' = rows \cup B
      /\ imp' = [imp EXCEPT ![i] = new]
      /\ UNCHANGED <<status, manifest, inherited, report, settings, active, lock>>
  BY <1>1 DEF AppendBatch
<1>3. B \subseteq Row
  BY <1>1, BatchFacts, RowsAreRows DEF RowsIn
<1>4. /\ new \in Import /\ new.pc = "appending" /\ new.found = imp[i].found
      /\ new.manifest = imp[i].manifest
  BY <1>1, BatchFacts DEF Import
<1> HIDE DEF new, B
<1>5. imp'[i] = new
  BY <1>1, <1>2
<1>6. Work(i)'
  BY <1>1, <1>2, <1>4, <1>5 DEF Work
<1>7. imp' \in [Importers -> Import] /\ WorkIsAlone'
  BY <1>1, <1>2, <1>4, <1>6, OthersWait
<1>8. TypeOK'
  BY <1>1, <1>2, <1>3, <1>7, ImportFacts DEF TypeOK
<1>9. ReadyIsComplete' /\ ActiveIsVerified' /\ InheritanceIsWhole'
  BY <1>1, <1>2, ImportFacts DEF ReadyIsComplete, ActiveIsVerified, InheritanceIsWhole
<1> QED  BY <1>7, <1>8, <1>9 DEF ImportInv

\* What is taken over are settings of finitely many codes.
LEMMA TakeOverFacts ==
    ASSUME ImportInv, NEW i \in Importers, NEW kept, imp[i].from \in Sources, TakeOver(i, kept)
    PROVE  /\ inherited' \in Inherited /\ inherited'.source \in Sources
           /\ settings' \in [Datasets -> SUBSET Code]
           /\ \A d \in Datasets : IsFiniteSet(settings'[d])
<1>1. /\ settings \in [Datasets -> SUBSET Code] /\ \A d \in Datasets : IsFiniteSet(settings[d])
      /\ Target \in Datasets /\ imp[i].from \in Datasets
  BY ImportFacts DEF Datasets
<1> DEFINE taken == settings[imp[i].from] \cap kept
           now   == settings[Target] \cup taken
<1>2. IsFiniteSet(settings[imp[i].from]) /\ IsFiniteSet(settings[Target])
  BY <1>1
<1>3. Cardinality(settings[imp[i].from] \ kept) \in Nat
  BY <1>2, FS_Difference, FS_CardinalityType
<1>4. IsFiniteSet(taken)
  BY <1>2, FS_Intersection
<1>5. IsFiniteSet(now)
  BY <1>2, <1>4, FS_Union
<1>6. now \in SUBSET Code
  BY <1>1
<1>7. settings' = [settings EXCEPT ![Target] = now]
  BY DEF TakeOver
<1>8. inherited' = [source |-> imp[i].from,
                    conflicts |-> Cardinality(settings[imp[i].from] \ kept)]
  BY DEF TakeOver
<1> HIDE DEF now
<1> QED  BY <1>1, <1>3, <1>5, <1>6, <1>7, <1>8 DEF Inherited

\* Settings are inherited, or were: either way the report is about what the dataset has.
LEMMA InheritKeepsInv ==
    ASSUME ImportInv, NEW i \in Importers, Inherit(i)
    PROVE  /\ ImportInv'
           /\ status = "importing"
           /\ inherited # Nothing => UNCHANGED <<inherited, settings>>
<1>1. /\ imp \in [Importers -> Import] /\ imp[i] \in Import /\ Work(i)
      /\ imp[i].pc = "appending" /\ lock = i /\ imp[i].manifest \in Manifests
      /\ status = "importing" /\ manifest = imp[i].manifest
  BY ImportFacts DEF Inherit, Appended, Work
<1> DEFINE new == [imp[i] EXCEPT !.pc = "inherited", !.report.conflicts = inherited'.conflicts]
<1>2. /\ imp' = [imp EXCEPT ![i] = new]
      /\ UNCHANGED <<status, manifest, rows, report, active, lock>>
  BY <1>1 DEF Inherit
<1>3. /\ inherited' \in Inherited /\ inherited'.source # NoDataset
      /\ settings' \in [Datasets -> SUBSET Code]
      /\ \A d \in Datasets : IsFiniteSet(settings'[d])
      /\ inherited # Nothing => UNCHANGED <<inherited, settings>>
  <2>1. CASE inherited.source = NoDataset
    <3>1. imp[i].from \in Sources /\ TakeOver(i, SameMeaning \cap {row.code : row \in rows})
      BY <2>1 DEF Inherit
    <3>2. NoDataset \notin Sources
      BY ImportConstants DEF Datasets
    <3>3. inherited = Nothing
      BY <2>1, ImportFacts DEF InheritanceIsWhole
    <3> QED  BY <3>1, <3>2, <3>3, TakeOverFacts
  <2>2. CASE inherited.source # NoDataset
    BY <2>2, ImportFacts DEF Inherit
  <2> QED  BY <2>1, <2>2
<1>4. inherited'.conflicts \in Nat /\ imp[i].report \in Report
  BY <1>1, <1>3 DEF Inherited, Import
<1>5. /\ new \in Import /\ new.pc = "inherited" /\ new.found = imp[i].found
      /\ new.manifest = imp[i].manifest /\ new.report.conflicts = inherited'.conflicts
  BY <1>1, <1>4 DEF Import, Report
<1> HIDE DEF new
<1>6. imp'[i] = new
  BY <1>1, <1>2
<1>7. Work(i)'
  BY <1>1, <1>2, <1>5, <1>6 DEF Work
<1>8. imp' \in [Importers -> Import] /\ WorkIsAlone'
  BY <1>1, <1>2, <1>5, <1>7, OthersWait
<1>9. TypeOK'
  BY <1>1, <1>2, <1>3, <1>8, ImportFacts DEF TypeOK
<1>10. ReadyIsComplete' /\ ActiveIsVerified' /\ InheritanceIsWhole'
  BY <1>1, <1>2, <1>3, ImportFacts DEF ReadyIsComplete, ActiveIsVerified, InheritanceIsWhole
<1> QED  BY <1>1, <1>3, <1>8, <1>9, <1>10 DEF ImportInv

\* Steps of the run that holds the lock which only change what it knows.
LEMMA KnowledgeKeepsInv ==
    ASSUME ImportInv, NEW i \in Importers, KeepInheritance(i) \/ AuditDataset(i)
    PROVE  ImportInv'
<1>1. /\ imp \in [Importers -> Import] /\ imp[i] \in Import /\ Work(i)
      /\ imp[i].pc \in {"appending", "inherited"} /\ lock = i
      /\ status \in {"importing", "ready"} /\ imp[i].found = status
      /\ inherited \in Inherited /\ report \in Report /\ imp[i].report \in Report
  BY ImportFacts DEF KeepInheritance, AuditDataset, Appended, Work, Import
<1>2. UNCHANGED <<dataset, settings, active>> /\ lock' = lock
  BY DEF KeepInheritance, AuditDataset
<1>3. CASE KeepInheritance(i)
  <2> DEFINE count == IF imp[i].found = "ready" THEN report.conflicts ELSE inherited.conflicts
             new == [imp[i] EXCEPT !.pc = "inherited", !.report.conflicts = count]
  <2>1. imp' = [imp EXCEPT ![i] = new] /\ imp[i].pc = "appending"
    BY <1>1, <1>3 DEF KeepInheritance, Appended
  <2>2. count \in Nat
    BY <1>1 DEF Inherited, Report
  <2>3. /\ new \in Import /\ new.pc = "inherited" /\ new.found = imp[i].found
        /\ new.manifest = imp[i].manifest /\ new.report.conflicts = count
    BY <1>1, <2>2 DEF Import, Report
  <2>4. count = IF status = "ready" THEN report.conflicts ELSE inherited.conflicts
    BY <1>1
  <2> HIDE DEF new, count
  <2>5. imp'[i] = new
    BY <1>1, <2>1
  <2>6. Work(i)'
    BY <1>1, <1>2, <2>1, <2>3, <2>4, <2>5 DEF Work, dataset
  <2>7. imp' \in [Importers -> Import] /\ WorkIsAlone'
    BY <1>1, <1>2, <2>1, <2>3, <2>6, OthersWait
  <2> QED  BY <1>1, <1>2, <2>7, KeepDataset
<1>4. CASE AuditDataset(i)
  <2> DEFINE new == [imp[i] EXCEPT !.pc = "audited", !.report.passed = TRUE]
  <2>1. /\ imp' = [imp EXCEPT ![i] = new] /\ imp[i].pc = "inherited"
        /\ rows = RowsIn(imp[i].manifest)
    BY <1>1, <1>4 DEF AuditDataset
  <2>2. /\ new \in Import /\ new.pc = "audited" /\ new.found = imp[i].found
        /\ new.manifest = imp[i].manifest
        /\ new.report.conflicts = imp[i].report.conflicts /\ new.report.passed = TRUE
    BY <1>1 DEF Import, Report
  <2> HIDE DEF new
  <2>3. imp'[i] = new
    BY <1>1, <2>1
  <2>4. Work(i)'
    BY <1>1, <1>2, <2>1, <2>2, <2>3 DEF Work, dataset
  <2>5. imp' \in [Importers -> Import] /\ WorkIsAlone'
    BY <1>1, <1>2, <2>1, <2>2, <2>4, OthersWait
  <2> QED  BY <1>1, <1>2, <2>5, KeepDataset
<1> QED  BY <1>3, <1>4

\* A dataset becomes ready with the rows the audit has seen.
LEMMA ReadyKeepsInv ==
    ASSUME ImportInv, NEW i \in Importers, MarkReady(i)
    PROVE  ImportInv' /\ (status = "ready" => UNCHANGED dataset)
<1>1. /\ imp \in [Importers -> Import] /\ imp[i] \in Import /\ Work(i)
      /\ imp[i].pc = "audited" /\ lock = i /\ imp[i].manifest \in Manifests
      /\ status \in {"importing", "ready"} /\ imp[i].found = status
      /\ manifest = imp[i].manifest /\ rows = RowsIn(manifest)
      /\ imp[i].report \in Report /\ imp[i].report.passed = TRUE
  BY ImportFacts DEF MarkReady, Work, Import
<1> DEFINE new == [imp[i] EXCEPT !.pc = "confirmed"]
<1>2. /\ imp' = [imp EXCEPT ![i] = new]
      /\ status' = "ready"
      /\ report' = IF status = "importing" THEN imp[i].report ELSE report
      /\ UNCHANGED <<manifest, rows, inherited, settings, active, lock>>
  BY <1>1 DEF MarkReady
<1>3. new \in Import /\ new.pc = "confirmed" /\ new.manifest = imp[i].manifest
  BY <1>1 DEF Import
<1> HIDE DEF new
<1>4. imp'[i] = new
  BY <1>1, <1>2
<1>5. Work(i)'
  BY <1>1, <1>2, <1>3, <1>4 DEF Work
<1>6. imp' \in [Importers -> Import] /\ WorkIsAlone'
  BY <1>1, <1>2, <1>3, <1>5, OthersWait
<1>7. TypeOK'
  BY <1>1, <1>2, <1>6, ImportFacts DEF TypeOK
<1>8. ReadyIsComplete'
  <2>1. CASE status = "ready"
    BY <1>1, <1>2, <2>1, ImportFacts DEF ReadyIsComplete
  <2>2. CASE status = "importing"
    <3>1. imp[i].report.conflicts = inherited.conflicts
      BY <1>1, <2>2 DEF Work
    <3>2. imp[i].report = [passed |-> TRUE, conflicts |-> inherited.conflicts]
      BY <1>1, <3>1 DEF Report
    <3> QED  BY <1>1, <1>2, <2>2, <3>2 DEF ReadyIsComplete
  <2> QED  BY <1>1, <2>1, <2>2
<1>9. ActiveIsVerified' /\ InheritanceIsWhole'
  BY <1>1, <1>2, ImportFacts DEF ActiveIsVerified, InheritanceIsWhole
<1> QED  BY <1>1, <1>2, <1>6, <1>7, <1>8, <1>9 DEF ImportInv, dataset

\* A failure marks the dataset this run worked on, unless it is ready.
LEMMA FailKeepsInv ==
    ASSUME ImportInv, NEW i \in Importers, Fail(i)
    PROVE  ImportInv' /\ (status = "ready" => UNCHANGED dataset)
<1>1. /\ imp \in [Importers -> Import] /\ imp[i] \in Import /\ Work(i)
      /\ lock = i /\ imp[i].report \in Report
      /\ status \in {"absent", "importing", "failed", "ready"} /\ report \in Report
  BY ImportFacts DEF Fail, Work, Import
<1>2. /\ imp' = [imp EXCEPT ![i] = Idle] /\ lock' = NoOne
      /\ UNCHANGED <<manifest, rows, inherited, settings, active>>
  BY DEF Fail
<1>3. /\ status' \in {"failed", status} /\ (status' = "ready") = (status = "ready")
      /\ report' \in Report /\ (status = "ready" => UNCHANGED <<status, report>>)
  <2>1. [imp[i].report EXCEPT !.passed = FALSE] \in Report
    BY <1>1 DEF Report
  <2> QED  BY <1>1, <2>1 DEF Fail
<1>4. imp'[i] = Idle
  BY <1>1, <1>2
<1>5. Work(i)'
  BY <1>2, <1>4, IdleRun, ImportConstants DEF Work
<1>6. imp' \in [Importers -> Import] /\ WorkIsAlone'
  BY <1>1, <1>2, <1>5, IdleRun, OthersWait
<1>7. TypeOK'
  BY <1>1, <1>2, <1>3, <1>6, ImportFacts DEF TypeOK
<1>8. ReadyIsComplete' /\ ActiveIsVerified' /\ InheritanceIsWhole'
  BY <1>1, <1>2, <1>3, ImportFacts DEF ReadyIsComplete, ActiveIsVerified, InheritanceIsWhole
<1> QED  BY <1>1, <1>2, <1>3, <1>6, <1>7, <1>8 DEF ImportInv, dataset

-----------------------------------------------------------------------------
(* The operators                                                            *)

\* Operators change settings and the active dataset only where a dataset is whole.
LEMMA OperatorsKeepInv ==
    ASSUME ImportInv, OperatorStep
    PROVE  ImportInv' /\ UNCHANGED <<dataset, lock, imp>>
<1>1. PICK d \in Datasets : SetActive(d) \/ \E code \in Edited : UpdatePresentation(d, code)
  BY DEF OperatorStep
<1>2. UNCHANGED <<dataset, lock, imp>>
  BY <1>1 DEF SetActive, UpdatePresentation
<1>3. active' \in Datasets \cup {NoDataset} /\ ActiveIsVerified'
  BY <1>1, <1>2, ImportFacts, ImportConstants
     DEF SetActive, UpdatePresentation, ActiveIsVerified, Ready, dataset
<1>4. settings' \in [Datasets -> SUBSET Code] /\ \A e \in Datasets : IsFiniteSet(settings'[e])
  <2>1. settings \in [Datasets -> SUBSET Code] /\ \A e \in Datasets : IsFiniteSet(settings[e])
    BY ImportFacts
  <2>2. CASE SetActive(d)
    BY <2>1, <2>2 DEF SetActive
  <2>3. ASSUME NEW code \in Edited, UpdatePresentation(d, code)
        PROVE  settings' \in [Datasets -> SUBSET Code]
               /\ \A e \in Datasets : IsFiniteSet(settings'[e])
    <3>1. PICK now \in {settings[d] \cup {code}, settings[d] \ {code}} :
              settings' = [settings EXCEPT ![d] = now]
      BY <2>3 DEF UpdatePresentation
    <3>2. IsFiniteSet(settings[d] \cup {code})
      BY <2>1, FS_AddElement
    <3>3. IsFiniteSet(settings[d] \ {code})
      BY <2>1, FS_RemoveElement
    <3>4. code \in Code /\ settings[d] \subseteq Code
      BY <2>1, ImportConstants
    <3>5. now \in SUBSET Code /\ IsFiniteSet(now)
      BY <3>2, <3>3, <3>4
    <3> QED  BY <2>1, <3>1, <3>5
  <2> QED  BY <1>1, <2>2, <2>3
<1>5. TypeOK'
  BY <1>2, <1>3, <1>4, ImportFacts DEF TypeOK, dataset
<1>6. ReadyIsComplete' /\ InheritanceIsWhole'
  BY <1>2, ImportFacts DEF ReadyIsComplete, InheritanceIsWhole, dataset
<1>7. WorkIsAlone'
  BY <1>2, ImportFacts, KeepWork DEF WorkIsAlone
<1> QED  BY <1>2, <1>3, <1>5, <1>6, <1>7 DEF ImportInv

-----------------------------------------------------------------------------
(* Whole behaviours                                                         *)

\* Nothing has been imported.
LEMMA ImportInit == Init => ImportInv
<1> SUFFICES ASSUME Init
             PROVE  ImportInv
  OBVIOUS
<1>1. TypeOK
  BY FS_EmptySet, IdleRun DEF Init, TypeOK, Inherited, Nothing, Report
<1>2. WorkIsAlone
  BY IdleRun, ImportConstants DEF Init, WorkIsAlone, Work
<1>3. ReadyIsComplete /\ ActiveIsVerified /\ InheritanceIsWhole
  BY ImportConstants DEF Init, ReadyIsComplete, ActiveIsVerified, InheritanceIsWhole, Datasets
<1> QED  BY <1>1, <1>2, <1>3 DEF ImportInv

\* Every step keeps the invariant.
LEMMA ImportStep == ImportInv /\ [Next]_vars => ImportInv'
<1> SUFFICES ASSUME ImportInv, [Next]_vars
             PROVE  ImportInv'
  OBVIOUS
<1>1. CASE UNCHANGED vars
  <2>1. WorkIsAlone'
    BY <1>1, ImportFacts, KeepWork DEF vars, WorkIsAlone
  <2> QED  BY <1>1, <2>1, ImportFacts, KeepDataset DEF vars
<1>2. CASE OperatorStep
  BY <1>2, OperatorsKeepInv
<1>3. ASSUME NEW i \in Importers, Run(i) \/ Proceed(i) \/ Fail(i) \/ Lose(i)
      PROVE  ImportInv'
  BY <1>3, EdgeKeepsInv, EnsureKeepsInv, AppendKeepsInv, InheritKeepsInv, KnowledgeKeepsInv,
     ReadyKeepsInv, FailKeepsInv DEF Proceed
<1> QED  BY <1>1, <1>2, <1>3 DEF Next

\* Whatever importers, sources and batch sizes there are, and wherever runs are lost:
\* a ready dataset holds exactly the rows of its manifest and the report of what was
\* inherited into it, the public follows no other, and a run that is told its dataset
\* is ready is told the truth.
THEOREM ImportHolds == Spec => []ImportInv
BY ImportInit, ImportStep, PTL DEF Spec

\* Of the dataset, a step of an importer changes only what is not final.
LEMMA FinalStep ==
    ASSUME ImportInv, [Next]_vars
    PROVE  /\ status = "ready" => /\ UNCHANGED dataset
                                  /\ imp' # imp => settings' = settings
           /\ inherited # Nothing => /\ inherited' = inherited
                                     /\ imp' # imp => settings' = settings
<1>1. CASE UNCHANGED vars
  BY <1>1 DEF vars, dataset
<1>2. CASE OperatorStep
  BY <1>2, OperatorsKeepInv DEF dataset
<1>3. ASSUME NEW i \in Importers, Run(i) \/ Proceed(i) \/ Fail(i) \/ Lose(i)
      PROVE  /\ status = "ready" => UNCHANGED dataset /\ settings' = settings
             /\ inherited # Nothing => UNCHANGED <<inherited, settings>>
  <2>1. CASE Run(i) \/ TryLock(i) \/ KeepInheritance(i) \/ AuditDataset(i) \/ Finish(i) \/ Lose(i)
    BY <2>1 DEF Run, Verify, TryLock, KeepInheritance, AuditDataset, Finish, Lose, dataset
  <2>2. CASE EnsureDataset(i)
    BY <2>2 DEF EnsureDataset, dataset
  <2>3. CASE AppendBatch(i)
    <3>1. status # "ready"
      BY <2>3, ImportFacts DEF AppendBatch, Work
    <3> QED  BY <2>3, <3>1 DEF AppendBatch
  <2>4. CASE Inherit(i)
    BY <2>4, InheritKeepsInv
  <2>5. CASE MarkReady(i)
    BY <2>5, ReadyKeepsInv DEF MarkReady
  <2>6. CASE Fail(i)
    BY <2>6, FailKeepsInv DEF Fail
  <2> QED  BY <1>3, <2>1, <2>2, <2>3, <2>4, <2>5, <2>6 DEF Proceed
<1> QED  BY <1>1, <1>2, <1>3 DEF Next, dataset

\* No later run changes a dataset that is ready, nor the settings operators have made in
\* it, and settings are inherited once: what an earlier run has committed stands.
THEOREM ImportsAreFinal == Spec => ImportsStand
<1> DEFINE Final == status = "ready" => /\ UNCHANGED dataset
                                        /\ imp' # imp => settings' = settings
           Once == inherited # Nothing => /\ inherited' = inherited
                                          /\ imp' # imp => settings' = settings
<1>1. ImportInv /\ [Next]_vars => [Final]_vars /\ [Once]_vars
  BY FinalStep
<1>2. [][Final]_vars /\ [][Once]_vars => ImportsStand
  BY DEF ImportsStand, ReadyIsFinal, InheritedOnce
<1> QED  BY <1>1, <1>2, ImportHolds, PTL DEF Spec

-----------------------------------------------------------------------------
(* The paths of a tree of regions                                           *)

\* The region n levels above another one is there, and that much higher.
LEMMA AboveInTree ==
  ASSUME NEW t, IsTree(t), NEW c \in DOMAIN t, NEW n \in 0 .. t[c].level - 1
  PROVE  /\ Above(t, c, n) \in DOMAIN t
         /\ t[Above(t, c, n)].level = t[c].level - n
  BY DEF Above, IsTree

\* One level further up is the parent.
LEMMA AboveStep ==
  ASSUME NEW t, IsTree(t), NEW c \in DOMAIN t, NEW n \in Nat, n + 1 <= t[c].level - 1
  PROVE  Above(t, c, n + 1) = t[Above(t, c, n)].parent
<1>1. t[c].level \in 1 .. 5  BY DEF IsTree
<1>2. n \in 0 .. 3  BY <1>1
<1> QED  BY <1>2, SMTT(60) DEF Above

\* At the top of every path is a province.
LEMMA AboveAll ==
  ASSUME NEW t, IsTree(t), NEW c \in DOMAIN t
  PROVE  t[Above(t, c, t[c].level - 1)].parent = Root
<1>1. t[c].level \in 1 .. 5  BY DEF IsTree
<1>2. t[c].level - 1 \in 0 .. t[c].level - 1  BY <1>1
<1>3. /\ Above(t, c, t[c].level - 1) \in DOMAIN t
      /\ t[Above(t, c, t[c].level - 1)].level = t[c].level - (t[c].level - 1)
  BY <1>2, AboveInTree
<1> QED  BY <1>1, <1>3 DEF IsTree

\* Levels add up.
LEMMA AboveAbove ==
  ASSUME NEW t, IsTree(t), NEW c \in DOMAIN t, NEW a \in Nat, NEW b \in Nat,
         a + b <= t[c].level - 1
  PROVE  Above(t, Above(t, c, a), b) = Above(t, c, a + b)
<1>1. t[c].level \in 1 .. 5  BY DEF IsTree
<1>2. a \in 0 .. 4 /\ b \in 0 .. 4 /\ a + b \in 0 .. 4  BY <1>1
<1>3. CASE b = 0
  <2>1. a + b = a /\ Above(t, Above(t, c, a), b) = Above(t, c, a)  BY <1>3, <1>2 DEF Above
  <2> QED  BY <2>1
<1>4. CASE b = 1
  <2>1. a \in 0 .. 3 /\ a + b = a + 1 /\ a + 1 <= t[c].level - 1  BY <1>1, <1>2, <1>4
  <2>2. Above(t, c, a + 1) = t[Above(t, c, a)].parent  BY <2>1, AboveStep
  <2>3. Above(t, Above(t, c, a), b) = t[Above(t, c, a)].parent  BY <1>4 DEF Above
  <2> QED  BY <2>1, <2>2, <2>3
<1>5. CASE b = 2
  <2>1. /\ a \in 0 .. 2 /\ a + b = (a + 1) + 1 /\ a + 1 \in Nat
        /\ a + 1 <= t[c].level - 1 /\ (a + 1) + 1 <= t[c].level - 1
    BY <1>1, <1>2, <1>5
  <2>2. Above(t, c, a + 1) = t[Above(t, c, a)].parent  BY <2>1, AboveStep
  <2>3. Above(t, c, (a + 1) + 1) = t[Above(t, c, a + 1)].parent  BY <2>1, AboveStep
  <2>4. Above(t, Above(t, c, a), b) = t[t[Above(t, c, a)].parent].parent  BY <1>5 DEF Above
  <2> QED  BY <2>1, <2>2, <2>3, <2>4
<1>6. CASE b = 3
  <2>1. /\ a \in 0 .. 1 /\ a + b = ((a + 1) + 1) + 1 /\ a + 1 \in Nat /\ (a + 1) + 1 \in Nat
        /\ a + 1 <= t[c].level - 1 /\ (a + 1) + 1 <= t[c].level - 1
        /\ ((a + 1) + 1) + 1 <= t[c].level - 1
    BY <1>1, <1>2, <1>6
  <2>2. Above(t, c, a + 1) = t[Above(t, c, a)].parent  BY <2>1, AboveStep
  <2>3. Above(t, c, (a + 1) + 1) = t[Above(t, c, a + 1)].parent  BY <2>1, AboveStep
  <2>4. Above(t, c, ((a + 1) + 1) + 1) = t[Above(t, c, (a + 1) + 1)].parent  BY <2>1, AboveStep
  <2>5. Above(t, Above(t, c, a), b) = t[t[t[Above(t, c, a)].parent].parent].parent
    BY <1>6 DEF Above
  <2> QED  BY <2>1, <2>2, <2>3, <2>4, <2>5
<1>7. CASE b = 4
  <2>1. a = 0  BY <1>2, <1>7
  <2>2. a + b = b /\ Above(t, c, a) = c  BY <2>1, <1>7 DEF Above
  <2> QED  BY <2>2
<1>8. b = 0 \/ b = 1 \/ b = 2 \/ b = 3 \/ b = 4  BY <1>2
<1> QED  BY <1>3, <1>4, <1>5, <1>6, <1>7, <1>8

\* PathTo: one region of each level down to the code, each below the one before it.
LEMMA PathFacts ==
  ASSUME NEW t, IsTree(t), NEW c \in DOMAIN t
  PROVE  /\ t[c].level \in 1 .. 5
         /\ PathTo(t, c) \in Seq(DOMAIN t)
         /\ Len(PathTo(t, c)) = t[c].level /\ DOMAIN PathTo(t, c) = 1 .. t[c].level
         /\ PathTo(t, c)[t[c].level] = c
         /\ \A i \in 1 .. t[c].level :
              /\ PathTo(t, c)[i] \in DOMAIN t
              /\ t[PathTo(t, c)[i]].level = i
              /\ t[PathTo(t, c)[i]].parent = IF i = 1 THEN Root ELSE PathTo(t, c)[i - 1]
<1> DEFINE n == t[c].level
           p == PathTo(t, c)
<1>1. n \in 1 .. 5  BY DEF IsTree
<1>2. p = [i \in 1 .. n |-> Above(t, c, n - i)]  BY DEF PathTo, LevelOf
<1>3. \A i \in 1 .. n : n - i \in 0 .. n - 1  BY <1>1
<1>4. \A i \in 1 .. n : p[i] \in DOMAIN t /\ t[p[i]].level = i
  <2> SUFFICES ASSUME NEW i \in 1 .. n  PROVE p[i] \in DOMAIN t /\ t[p[i]].level = i
    OBVIOUS
  <2>1. Above(t, c, n - i) \in DOMAIN t /\ t[Above(t, c, n - i)].level = n - (n - i)
    BY <1>3, AboveInTree
  <2> QED  BY <1>1, <1>2, <2>1
<1>5. \A i \in 1 .. n : t[p[i]].parent = IF i = 1 THEN Root ELSE p[i - 1]
  <2> SUFFICES ASSUME NEW i \in 1 .. n
               PROVE  t[p[i]].parent = IF i = 1 THEN Root ELSE p[i - 1]
    OBVIOUS
  <2>1. CASE i = 1
    BY <1>1, <1>2, <2>1, AboveAll
  <2>2. CASE i # 1
    <3>1. n - i \in Nat /\ (n - i) + 1 <= n - 1 /\ (n - i) + 1 = n - (i - 1) /\ i - 1 \in 1 .. n
      BY <1>1, <2>2
    <3>2. Above(t, c, (n - i) + 1) = t[Above(t, c, n - i)].parent
      BY <3>1, AboveStep
    <3> QED  BY <1>2, <2>2, <3>1, <3>2
  <2> QED  BY <2>1, <2>2
<1>6. p \in Seq(DOMAIN t) /\ Len(p) = n /\ DOMAIN p = 1 .. n
  <2>1. p \in [1 .. n -> DOMAIN t]  BY <1>2, <1>4
  <2> QED  BY <1>1, <2>1
<1>7. p[n] = c
  <2>1. n \in 1 .. n /\ n - n = 0  BY <1>1
  <2>2. p[n] = Above(t, c, 0)  BY <1>2, <2>1
  <2> QED  BY <2>2 DEF Above
<1> HIDE DEF n, p
<1> QED  BY <1>1, <1>4, <1>5, <1>6, <1>7 DEF n, p

\* Plain arithmetic of the distances between three levels.
LEMMA Distances ==
  ASSUME NEW n \in 1 .. 5, NEW i \in 1 .. n, NEW j \in 1 .. i
  PROVE  /\ n - i \in Nat /\ i - j \in Nat /\ j \in 1 .. n
         /\ (n - i) + (i - j) = n - j /\ (n - i) + (i - j) <= n - 1
<1>1. n \in Int /\ i \in Int /\ j \in Int /\ 1 <= j /\ j <= i /\ i <= n
  OBVIOUS
<1>2. n - i \in Int /\ i - j \in Int /\ 0 <= n - i /\ 0 <= i - j  BY <1>1
<1>3. (n - i) + (i - j) = n - j  BY <1>1
<1>4. n - j <= n - 1  BY <1>1
<1>5. j \in 1 .. n  BY <1>1
<1> QED  BY <1>2, <1>3, <1>4, <1>5

\* The path to a region of a path is the beginning of that path.
LEMMA PathPrefix ==
  ASSUME NEW t, IsTree(t), NEW c \in DOMAIN t,
         NEW i \in 1 .. t[c].level, NEW j \in 1 .. i
  PROVE  PathTo(t, PathTo(t, c)[i])[j] = PathTo(t, c)[j]
<1> DEFINE n == t[c].level
           d == PathTo(t, c)[i]
<1>1. n \in 1 .. 5  BY DEF IsTree
<1>2. d \in DOMAIN t /\ t[d].level = i /\ d = Above(t, c, n - i)
  BY PathFacts, <1>1 DEF PathTo, LevelOf
<1>3. PathTo(t, d)[j] = Above(t, d, i - j)  BY <1>1, <1>2 DEF PathTo, LevelOf
<1>4. /\ n - i \in Nat /\ i - j \in Nat /\ j \in 1 .. n
      /\ (n - i) + (i - j) = n - j /\ (n - i) + (i - j) <= n - 1
  <2>1. i \in 1 .. n /\ j \in 1 .. i  OBVIOUS
  <2> HIDE DEF n
  <2> QED  BY <1>1, <2>1, Distances
<1>5. Above(t, d, i - j) = Above(t, c, n - j)
  BY <1>2, <1>4, AboveAbove
<1>6. PathTo(t, c)[j] = Above(t, c, n - j)  BY <1>4 DEF PathTo, LevelOf
<1> QED  BY <1>3, <1>5, <1>6

-----------------------------------------------------------------------------
(* The field.                                                               *)

AnyCode == UNION {DOMAIN Library[d] : d \in Editions}

Nodes == [code : AnyCode, parent : AnyCode \cup {Root}, level : 1 .. 5, navigable : BOOLEAN]

\* A code of one level in some snapshot, and so in all that have it.
AtLevel(c, i) == \E d \in Editions : c \in DOMAIN Library[d] /\ Library[d][c].level = i

\* What hangs below a path at a level.
ParentAt(path, i) == IF i = 1 THEN Root ELSE path[i - 1].code

NodeBelow(node, parent, i) ==
    node \in Nodes /\ node.level = i /\ AtLevel(node.code, i) /\ node.parent = parent

\* A path goes down one level at a time, each region below the one before it.
PathOK(path) ==
    /\ path \in Seq(Nodes)
    /\ \A i \in 1 .. Len(path) : NodeBelow(path[i], ParentAt(path, i), i)

\* A layer shows regions of one parent.
IsLayer(layer, parent, i) ==
    /\ DOMAIN layer = {"parent", "items", "phase", "request", "next"}
    /\ layer.parent = parent
    /\ \A n \in layer.items : NodeBelow(n, parent, i)

\* There is one layer more than the path is long, each below its region.
LayersOK(layers, path) ==
    /\ layers = [i \in 1 .. Len(path) + 1 |-> layers[i]]
    /\ \A i \in 1 .. Len(path) + 1 : IsLayer(layers[i], ParentAt(path, i), i)

StateFields ==
    {"generation", "dataset", "path", "layers", "status", "disabled", "target", "value"}

\* What the reducer keeps.
StateOK(s) ==
    /\ DOMAIN s = StateFields
    /\ PathOK(s.path) /\ LayersOK(s.layers, s.path)
    /\ s.dataset \in Editions \cup {None}

\* What a call under way carries: whose dataset it asks, and for a hit the path to
\* go back to.
CallOK(c) ==
    /\ DOMAIN c = {"kind", "generation", "request", "dataset", "asks", "aborted"}
    /\ c.kind \in {"layer", "path", "hit"} => c.dataset \in Editions
    /\ c.kind = "dataset" => c.dataset \in Editions \cup {None}
    /\ c.kind = "hit" => PathOK(c.asks.back)

HookOK(h) ==
    /\ DOMAIN h = {"state", "generation", "calls", "told"}
    /\ StateOK(h.state) /\ h.state.generation = h.generation
    /\ \A c \in h.calls : CallOK(c)

PropsOK(props) ==
    /\ DOMAIN props = {"value", "disabled", "target"}
    /\ props.value = None \/ props.value.dataset \in Editions

\* The inductive invariant: in the state of the reducer and in the one that is shown,
\* the layers follow the path; a path a search may go back to is one too.
FieldTypes ==
    /\ edition \in Editions
    /\ PropsOK(hostProps) /\ PropsOK(rendered)
    /\ HookOK(hook) /\ StateOK(view)

-----------------------------------------------------------------------------
\* A function on 1..n is a sequence of that length.
LEMMA SeqOfItsValues ==
  ASSUME NEW n \in Nat, NEW f, f = [i \in 1 .. n |-> f[i]]
  PROVE  Len(f) = n /\ DOMAIN f = 1 .. n
<1> DEFINE S == {f[i] : i \in 1 .. n}
<1>1. f \in [1 .. n -> S]  OBVIOUS
<1>2. f \in Seq(S)  BY <1>1
<1>3. DOMAIN f = 1 .. n  OBVIOUS
<1> QED  BY <1>2, <1>3

\* How many numbers there are from one to n.
LEMMA Counting ==
  ASSUME NEW n \in Nat
  PROVE  Cardinality(1 .. n) = n
<1>1. Cardinality(1 .. n) = IF 1 > n THEN 0 ELSE n - 1 + 1  BY FS_Interval
<1> QED  BY <1>1

\* The rank of a position among some of them.
Rank(i, at) == Cardinality({j \in at : j <= i})

\* Different positions have different ranks.
LEMMA RanksDiffer ==
  ASSUME NEW at \in SUBSET Nat, IsFiniteSet(at)
  PROVE  /\ Cardinality(at) \in Nat
         /\ \A i \in at : Rank(i, at) \in 1 .. Cardinality(at)
         /\ \A i, j \in at : Rank(i, at) = Rank(j, at) => i = j
<1> DEFINE upTo(i) == {j \in at : j <= i}
<1>1. Cardinality(at) \in Nat  BY FS_CardinalityType
<1>2. \A i \in at : /\ IsFiniteSet(upTo(i)) /\ Cardinality(upTo(i)) \in Nat
                    /\ Cardinality(upTo(i)) <= Cardinality(at)
                    /\ Cardinality(upTo(i)) # 0
  <2> SUFFICES ASSUME NEW i \in at
               PROVE  /\ IsFiniteSet(upTo(i)) /\ Cardinality(upTo(i)) \in Nat
                      /\ Cardinality(upTo(i)) <= Cardinality(at)
                      /\ Cardinality(upTo(i)) # 0
    OBVIOUS
  <2>1. upTo(i) \in SUBSET at /\ i \in upTo(i)  OBVIOUS
  <2> HIDE DEF upTo
  <2>2. IsFiniteSet(upTo(i)) /\ Cardinality(upTo(i)) <= Cardinality(at)
    BY <2>1, FS_Subset
  <2> QED  BY <2>1, <2>2, FS_CardinalityType, FS_EmptySet
<1>3. ASSUME NEW i \in at, NEW j \in at, i < j
      PROVE  Cardinality(upTo(i)) # Cardinality(upTo(j))
  <2>1. upTo(i) \in SUBSET upTo(j) /\ j \in upTo(j) /\ j \notin upTo(i)
    <3>1. i \in Nat /\ j \in Nat /\ \A x \in at : x \in Nat  OBVIOUS
    <3>2. \A x \in at : x <= i => x <= j  BY <1>3, <3>1
    <3>3. j <= j /\ ~ (j <= i)  BY <1>3, <3>1
    <3> QED  BY <3>2, <3>3
  <2> HIDE DEF upTo
  <2>2. IsFiniteSet(upTo(j))  BY <1>2
  <2> QED  BY <2>1, <2>2, FS_Subset
<1>4. \A i \in at : Rank(i, at) = Cardinality(upTo(i))  BY DEF Rank
<1> HIDE DEF upTo
<1>5. \A i \in at : Rank(i, at) \in 1 .. Cardinality(at)  BY <1>1, <1>2, <1>4
<1>6. \A i, j \in at : Rank(i, at) = Rank(j, at) => i = j
  <2> SUFFICES ASSUME NEW i \in at, NEW j \in at, Rank(i, at) = Rank(j, at), i # j
               PROVE  FALSE
    OBVIOUS
  <2>1. i < j \/ j < i  OBVIOUS
  <2> QED  BY <1>3, <1>4, <2>1
<1> QED  BY <1>1, <1>5, <1>6

\* Every rank up to the number of positions is some position's.
LEMMA RanksAreTaken ==
  ASSUME NEW at \in SUBSET Nat, IsFiniteSet(at), NEW k \in 1 .. Cardinality(at)
  PROVE  \E i \in at : Rank(i, at) = k
<1> DEFINE n == Cardinality(at)
           f == [i \in at |-> Rank(i, at)]
<1>1. n \in Nat /\ f \in [at -> 1 .. n] /\ \A i, j \in at : f[i] = f[j] => i = j
  BY RanksDiffer
<1>2. f \in Injection(at, 1 .. n)  BY <1>1 DEF Injection, IsInjective
<1>3. IsFiniteSet(1 .. n) /\ Cardinality(1 .. n) = n
  <2> HIDE DEF n
  <2> QED  BY <1>1, FS_Interval
<1>4. n = Cardinality(at)  OBVIOUS
<1> HIDE DEF f, n
<1>5. Cardinality(at) = Cardinality(1 .. n) <=> f \in Surjection(at, 1 .. n)
  BY <1>2, <1>3, FS_Injection
<1>6. f \in Surjection(at, 1 .. n)  BY <1>3, <1>4, <1>5
<1>7. \A j \in 1 .. n : \E i \in at : f[i] = j  BY <1>6 DEF Surjection
<1> QED  BY <1>4, <1>7 DEF f

\* A layer that was never loaded shows nothing.
LEMMA FreshLayer ==
  ASSUME NEW parent, NEW i
  PROVE  IsLayer(Layer(parent), parent, i)
  BY DEF IsLayer, Layer

\* The state before anything is chosen: no path and the layer of the provinces.
LEMMA EmptyPath == PathOK(<<>>) /\ LayersOK(LayersFor(<<>>), <<>>)
<1>1. <<>> \in Seq(Nodes) /\ Len(<<>>) = 0  OBVIOUS
<1>2. PathOK(<<>>)  BY <1>1 DEF PathOK
<1> DEFINE l == LayersFor(<<>>)
<1>3. l = <<Layer(Root)>> \o <<>>
  <2>1. [i \in DOMAIN <<>> |-> Layer(<<>>[i].code)] = <<>>  OBVIOUS
  <2> QED  BY <2>1 DEF LayersFor
<1>4. l = <<Layer(Root)>>  BY <1>3
<1>5. l = [i \in 1 .. 1 |-> l[i]] /\ l[1] = Layer(Root)  BY <1>4
<1> HIDE DEF l
<1>6. LayersOK(l, <<>>)  BY <1>1, <1>5 DEF LayersOK, IsLayer, Layer, ParentAt
<1> QED  BY <1>2, <1>6 DEF l

\* layersFor: the layers below a path hang below its regions.
LEMMA LayersOfPath ==
  ASSUME NEW p, PathOK(p)
  PROVE  LayersOK(LayersFor(p), p)
<1> DEFINE n == Len(p)
           r == [i \in DOMAIN p |-> Layer(p[i].code)]
           l == LayersFor(p)
<1>1. n \in Nat /\ DOMAIN p = 1 .. n /\ p \in Seq(Nodes)  BY DEF PathOK
<1>2. r \in Seq({Layer(p[i].code) : i \in 1 .. n}) /\ Len(r) = n
  <2>1. r \in [1 .. n -> {Layer(p[i].code) : i \in 1 .. n}]  BY <1>1
  <2> HIDE DEF r
  <2> QED  BY <1>1, <2>1
<1>3. l = <<Layer(Root)>> \o r  BY DEF LayersFor
<1> DEFINE T == {Layer(p[i].code) : i \in 1 .. n} \cup {Layer(Root)}
<1>4. r \in Seq(T)  BY <1>2
<1>5. <<Layer(Root)>> \in Seq(T) /\ Len(<<Layer(Root)>>) = 1  OBVIOUS
<1>6. l \in Seq(T) /\ Len(l) = n + 1 /\ \A i \in 1 .. n + 1 :
        l[i] = IF i = 1 THEN Layer(Root) ELSE r[i - 1]
  <2> HIDE DEF r, T, n
  <2> QED  BY <1>1, <1>2, <1>3, <1>4, <1>5
<1>7. l = [i \in 1 .. n + 1 |-> l[i]]  BY <1>1, <1>6
<1>8. \A i \in 1 .. n + 1 : l[i] = Layer(ParentAt(p, i))
  <2> SUFFICES ASSUME NEW i \in 1 .. n + 1  PROVE l[i] = Layer(ParentAt(p, i))
    OBVIOUS
  <2>1. CASE i = 1  BY <1>6, <2>1 DEF ParentAt
  <2>2. CASE i # 1
    <3>1. i - 1 \in DOMAIN p  BY <1>1, <2>2
    <3>2. r[i - 1] = Layer(p[i - 1].code)  BY <3>1
    <3> HIDE DEF r, l
    <3> QED  BY <1>6, <2>2, <3>2 DEF ParentAt
  <2> QED  BY <2>1, <2>2
<1> HIDE DEF l
<1>9. LayersOK(l, p)  BY <1>1, <1>7, <1>8 DEF LayersOK, IsLayer, Layer
<1> QED  BY <1>9 DEF l

-----------------------------------------------------------------------------
(* The reducer.                                                             *)

\* dispatchStart changes how far a layer is and not what it shows.
LEMMA StartKeeps ==
  ASSUME NEW s, StateOK(s), NEW g, NEW requests
  PROVE  StateOK(DispatchStart(s, g, requests))
         /\ DispatchStart(s, g, requests).generation = s.generation
         /\ DispatchStart(s, g, requests).path = s.path
<1> DEFINE n == Len(s.path) + 1
           new == [i \in DOMAIN s.layers |-> IF i \in DOMAIN requests
                     THEN [s.layers[i] EXCEPT !.phase = "loading", !.request = requests[i]]
                     ELSE s.layers[i]]
<1>1. CASE g # s.generation  BY <1>1 DEF DispatchStart
<1>2. CASE g = s.generation
  <2>1. DispatchStart(s, g, requests) = [s EXCEPT !.layers = new]
    BY <1>2 DEF DispatchStart
  <2>2. n \in Nat /\ s.layers = [i \in 1 .. n |-> s.layers[i]] /\ DOMAIN s.layers = 1 .. n
    BY DEF StateOK, LayersOK, PathOK
  <2>3. DOMAIN new = 1 .. n /\ new = [i \in 1 .. n |-> new[i]]  BY <2>2
  <2>4. \A i \in 1 .. n : IsLayer(new[i], ParentAt(s.path, i), i)
    <3> SUFFICES ASSUME NEW i \in 1 .. n  PROVE IsLayer(new[i], ParentAt(s.path, i), i)
      OBVIOUS
    <3>1. IsLayer(s.layers[i], ParentAt(s.path, i), i)  BY DEF StateOK, LayersOK
    <3>2. i \in DOMAIN s.layers  BY <2>2
    <3>3. new[i] = IF i \in DOMAIN requests
                   THEN [s.layers[i] EXCEPT !.phase = "loading", !.request = requests[i]]
                   ELSE s.layers[i]
      BY <3>2
    <3> HIDE DEF new
    <3> QED  BY <3>1, <3>3 DEF IsLayer
  <2> HIDE DEF new
  <2>5. LayersOK(new, s.path)  BY <2>3, <2>4 DEF LayersOK
  <2> QED  BY <2>1, <2>5 DEF StateOK, StateFields
<1> QED  BY <1>1, <1>2

\* One layer of a state is replaced by one with the same parent.
LEMMA LayerReplaced ==
  ASSUME NEW s, StateOK(s), NEW i \in DOMAIN s.layers, NEW layer,
         IsLayer(layer, s.layers[i].parent, i)
  PROVE  StateOK([s EXCEPT !.layers[i] = layer])
<1> DEFINE n == Len(s.path) + 1
           new == [s.layers EXCEPT ![i] = layer]
<1>1. n \in Nat /\ s.layers = [j \in 1 .. n |-> s.layers[j]] /\ DOMAIN s.layers = 1 .. n
  BY DEF StateOK, LayersOK, PathOK
<1>2. [s EXCEPT !.layers[i] = layer] = [s EXCEPT !.layers = new]
  BY DEF StateOK, StateFields
<1>3. new = [j \in 1 .. n |-> new[j]]  BY <1>1
<1>4. \A j \in 1 .. n : IsLayer(new[j], ParentAt(s.path, j), j)
  <2>1. \A j \in 1 .. n : IsLayer(s.layers[j], ParentAt(s.path, j), j)
    BY DEF StateOK, LayersOK
  <2>2. s.layers[i].parent = ParentAt(s.path, i)  BY <1>1, <2>1 DEF IsLayer
  <2> QED  BY <1>1, <2>1, <2>2
<1> HIDE DEF new
<1>5. LayersOK(new, s.path)  BY <1>3, <1>4 DEF LayersOK
<1> QED  BY <1>2, <1>5 DEF StateOK, StateFields

\* Nor does a layer that could not be loaded.
LEMMA FailedKeeps ==
  ASSUME NEW s, StateOK(s), NEW g, NEW i, NEW request
  PROVE  StateOK(DispatchFailed(s, g, i, request))
         /\ DispatchFailed(s, g, i, request).generation = s.generation
         /\ DispatchFailed(s, g, i, request).path = s.path
<1>1. CASE ~ Awaited(s, g, i, request)  BY <1>1 DEF DispatchFailed
<1>2. CASE Awaited(s, g, i, request)
  <2>1. i \in DOMAIN s.layers  BY <1>2 DEF Awaited
  <2> DEFINE layer == [s.layers[i] EXCEPT !.phase = "error"]
  <2>2. DispatchFailed(s, g, i, request) = [s EXCEPT !.layers[i] = layer]
    BY <1>2, <2>1 DEF DispatchFailed, StateOK, StateFields, LayersOK, IsLayer
  <2>3. IsLayer(s.layers[i], s.layers[i].parent, i)
    <3>1. i \in 1 .. Len(s.path) + 1  BY <2>1 DEF StateOK, LayersOK
    <3> QED  BY <3>1 DEF StateOK, LayersOK, IsLayer
  <2>4. IsLayer(layer, s.layers[i].parent, i)  BY <2>3 DEF IsLayer
  <2>5. StateOK([s EXCEPT !.layers[i] = layer])  BY <2>1, <2>4, LayerReplaced
  <2> QED  BY <2>2, <2>5 DEF StateOK, StateFields
<1> QED  BY <1>1, <1>2

\* A row just below a parent of one level is of the next level, in every snapshot.
LEMMA ChildIsBelow ==
  ASSUME NEW d \in Editions, NEW parent, NEW i \in Nat \ {0},
         IF i = 1 THEN parent = Root ELSE AtLevel(parent, i - 1),
         parent \in DOMAIN Library[d] \cup {Root},
         NEW c \in ChildrenOf(Library[d], parent)
  PROVE  NodeBelow(Summary(Library[d], c), parent, i)
<1> DEFINE t == Library[d]
<1>1. IsTree(t)  BY AreaSelectionConstants
<1>2. c \in DOMAIN t /\ t[c].parent = parent  BY DEF ChildrenOf
<1>3. t[c].level = i /\ i \in 1 .. 5
  <2>1. CASE i = 1
    <3>1. parent = Root /\ Root \notin DOMAIN t  BY <1>1, <2>1 DEF IsTree
    <3> QED  BY <1>1, <1>2, <2>1, <3>1 DEF IsTree
  <2>2. CASE i # 1
    <3>1. PICK e \in Editions : parent \in DOMAIN Library[e] /\ Library[e][parent].level = i - 1
      BY <2>2 DEF AtLevel
    <3>2. parent # Root  BY <3>1, AreaSelectionConstants DEF IsTree
    <3>3. parent \in DOMAIN t /\ t[parent].level = i - 1
      BY <3>1, <3>2, AreaSelectionConstants DEF SameLevels
    <3>4. t[c].level # 1  BY <1>1, <1>2, <3>2 DEF IsTree
    <3>5. t[c].level \in 1 .. 5 /\ t[parent].level = t[c].level - 1
      BY <1>1, <1>2, <3>4 DEF IsTree
    <3> QED  BY <3>3, <3>5
  <2> QED  BY <2>1, <2>2
<1>4. EffectivelyEnabled(t, c) \in BOOLEAN  BY DEF EffectivelyEnabled
<1>5. c \in AnyCode /\ parent \in AnyCode \cup {Root}  BY <1>2 DEF AnyCode
<1>6. AtLevel(c, i)  BY <1>2, <1>3 DEF AtLevel
<1> HIDE DEF t
<1>7. Summary(t, c) \in Nodes /\ Summary(t, c).code = c /\ Summary(t, c).parent = parent
      /\ Summary(t, c).level = i
  BY <1>2, <1>3, <1>4, <1>5 DEF Summary, LevelOf, Nodes
<1> QED  BY <1>6, <1>7 DEF NodeBelow, t

\* A layer hangs below the region of the path that is one level higher.
LEMMA ParentOfLayer ==
  ASSUME NEW s, StateOK(s), NEW i \in DOMAIN s.layers
  PROVE  /\ i \in 1 .. Len(s.path) + 1 /\ Len(s.path) \in Nat
         /\ i - 1 \in 0 .. Len(s.path)
         /\ IsLayer(s.layers[i], s.layers[i].parent, i)
         /\ s.layers[i].parent = ParentAt(s.path, i)
         /\ IF i = 1 THEN s.layers[i].parent = Root
            ELSE /\ s.layers[i].parent = s.path[i - 1].code
                 /\ AtLevel(s.layers[i].parent, i - 1)
<1>1. i \in 1 .. Len(s.path) + 1 /\ Len(s.path) \in Nat
  BY DEF StateOK, LayersOK, PathOK
<1>2. IsLayer(s.layers[i], ParentAt(s.path, i), i)  BY <1>1 DEF StateOK, LayersOK
<1>3. s.layers[i].parent = ParentAt(s.path, i)  BY <1>2 DEF IsLayer
<1>4. CASE i = 1  BY <1>1, <1>2, <1>3, <1>4 DEF ParentAt
<1>5. CASE i # 1
  <2>1. i - 1 \in 1 .. Len(s.path)  BY <1>1, <1>5
  <2>2. NodeBelow(s.path[i - 1], ParentAt(s.path, i - 1), i - 1)  BY <2>1 DEF StateOK, PathOK
  <2>3. AtLevel(s.path[i - 1].code, i - 1)  BY <2>2 DEF NodeBelow
  <2> QED  BY <1>1, <1>2, <1>3, <1>5, <2>1, <2>3 DEF ParentAt
<1> QED  BY <1>4, <1>5

\* A page shows rows of the table it is of.
LEMMA PageIsOfRows ==
  ASSUME NEW t, NEW d, NEW query, NEW codes, NEW cursor
  PROVE  \A n \in PageOf(t, d, query, codes, cursor).items :
           \E c \in codes : n = Summary(t, c)
  BY DEF PageOf

\* A page of a dataset lists regions below a parent.
PageBelow(answer, d, parent) ==
    /\ parent \in DOMAIN Library[d] \cup {Root}
    /\ \A n \in answer.items : \E c \in ChildrenOf(Library[d], parent) :
         n = Summary(Library[d], c)

\* A page that is taken in is of the parent the layer hangs below, whatever snapshot it
\* comes from.
LEMMA LoadedKeeps ==
  ASSUME NEW s, StateOK(s), NEW g, NEW i, NEW request, NEW parent, NEW d \in Editions,
         NEW answer, PageBelow(answer, d, parent)
  PROVE  /\ StateOK(DispatchLoaded(s, g, i, request, parent, answer))
         /\ DispatchLoaded(s, g, i, request, parent, answer).generation = s.generation
<1> DEFINE new == DispatchLoaded(s, g, i, request, parent, answer)
           old == s.layers[i]
           others == {n \in old.items : \A p \in answer.items : p.code # n.code}
           layer == [old EXCEPT !.items = answer.items \cup others,
                                !.phase = "loaded", !.next = answer.next]
<1>1. CASE ~ (Awaited(s, g, i, request) /\ s.layers[i].parent = parent)
  BY <1>1 DEF DispatchLoaded
<1>2. CASE Awaited(s, g, i, request) /\ s.layers[i].parent = parent
  <2>1. i \in DOMAIN s.layers /\ old.parent = parent  BY <1>2 DEF Awaited
  <2>3. IsLayer(old, parent, i) /\ i \in Nat \ {0}
        /\ IF i = 1 THEN parent = Root ELSE AtLevel(parent, i - 1)
    BY <2>1, ParentOfLayer
  <2>4. \A n \in answer.items : NodeBelow(n, parent, i)
    BY <2>3, ChildIsBelow, SMTT(40) DEF PageBelow
  <2>5. new = [s EXCEPT !.layers[i] = layer]
    BY <1>2, <2>1, <2>3 DEF DispatchLoaded, StateOK, StateFields, LayersOK, IsLayer
  <2>6. IsLayer(layer, parent, i)
    <3>1. layer.items = answer.items \cup others
          /\ layer.parent = old.parent /\ DOMAIN layer = DOMAIN old
      BY <2>3 DEF IsLayer
    <3> HIDE DEF layer
    <3> QED  BY <2>3, <2>4, <3>1 DEF IsLayer
  <2> HIDE DEF layer
  <2>7. StateOK([s EXCEPT !.layers[i] = layer])  BY <2>1, <2>6, LayerReplaced
  <2> HIDE DEF new
  <2>8. StateOK(new) /\ new.generation = s.generation
    BY <2>5, <2>7 DEF StateOK, StateFields
  <2> QED  BY <2>8 DEF new
<1> QED  BY <1>1, <1>2

\* Choosing a region of a layer keeps what hangs above it.
LEMMA PathWithFacts ==
  ASSUME NEW s, StateOK(s), NEW l \in DOMAIN s.layers, NEW node \in s.layers[l].items
  PROVE  LET p == PathWith(s.path, node) IN
         /\ node.level = l /\ PathOK(p) /\ Len(p) = l /\ p[l] = node
         /\ \A i \in 1 .. l - 1 : p[i] = s.path[i]
<1> DEFINE q == s.path
           n == Len(q)
           p == PathWith(q, node)
<1>1. l \in 1 .. n + 1 /\ n \in Nat /\ IsLayer(s.layers[l], ParentAt(q, l), l)
  BY ParentOfLayer
<1>2. NodeBelow(node, ParentAt(q, l), l)  BY <1>1 DEF IsLayer
<1>3. node.level = l /\ node \in Nodes  BY <1>2 DEF NodeBelow
<1>4. q \in Seq(Nodes) /\ DOMAIN q = 1 .. n /\ \A i \in 1 .. n : q[i].level = i
  BY DEF StateOK, PathOK, NodeBelow
<1>5. {i \in DOMAIN q : q[i].level < node.level} = 1 .. l - 1
  BY <1>1, <1>3, <1>4
<1>6. Cardinality(1 .. l - 1) = l - 1
  <2>1. l - 1 \in Nat  BY <1>1
  <2> QED  BY <2>1, Counting
<1>7. p = Append(SubSeq(q, 1, l - 1), node)  BY <1>5, <1>6 DEF PathWith
<1>8. /\ SubSeq(q, 1, l - 1) \in Seq(Nodes) /\ Len(SubSeq(q, 1, l - 1)) = l - 1
      /\ \A i \in 1 .. l - 1 : SubSeq(q, 1, l - 1)[i] = q[i]
  BY <1>1, <1>4
<1>9. /\ p \in Seq(Nodes) /\ Len(p) = l /\ p[l] = node
      /\ \A i \in 1 .. l - 1 : p[i] = q[i]
  <2> DEFINE u == SubSeq(q, 1, l - 1)
  <2> HIDE DEF u, p, q
  <2> QED  BY <1>1, <1>3, <1>7, <1>8 DEF u
<1>10. \A i \in 1 .. l : NodeBelow(p[i], ParentAt(p, i), i)
  <2> SUFFICES ASSUME NEW i \in 1 .. l  PROVE NodeBelow(p[i], ParentAt(p, i), i)
    OBVIOUS
  <2> HIDE DEF p
  <2>1. ParentAt(p, i) = ParentAt(q, i)
    <3>1. i = 1 \/ i - 1 \in 1 .. l - 1  BY <1>1
    <3> QED  BY <1>9, <3>1 DEF ParentAt
  <2>2. CASE i = l  BY <1>2, <1>9, <2>1, <2>2
  <2>3. CASE i # l
    <3>1. i \in 1 .. l - 1 /\ i \in 1 .. n  BY <1>1, <2>3
    <3>2. NodeBelow(q[i], ParentAt(q, i), i)  BY <3>1 DEF StateOK, PathOK
    <3> QED  BY <1>9, <2>1, <3>1, <3>2
  <2> QED  BY <2>2, <2>3
<1>11. PathOK(p)  BY <1>9, <1>10 DEF PathOK
<1> QED  BY <1>3, <1>9, <1>11

\* A choice cuts the path above the region chosen and keeps the layers whose parents
\* stay.
LEMMA ChooseKeeps ==
  ASSUME NEW s, StateOK(s), NEW l \in DOMAIN s.layers, NEW node \in s.layers[l].items
  PROVE  StateOK(DispatchChoose(s, node))
         /\ DispatchChoose(s, node).generation = s.generation + 1
<1> DEFINE q == s.path
           p == PathWith(q, node)
           pa(i) == IF i = 1 \/ i - 1 >= Len(p) THEN Root ELSE p[i - 1].code
           retained(i) == IF i \in DOMAIN s.layers /\ s.layers[i].parent = pa(i)
                          THEN s.layers[i] ELSE Layer(pa(i))
           kept == [i \in 1 .. node.level |-> retained(i)]
           new == LayersAfterChoose(s, p, node)
<1>1. /\ node.level = l /\ PathOK(p) /\ Len(p) = l /\ p[l] = node
      /\ l \in Nat \ {0}
  <2>1. l \in Nat \ {0}  BY ParentOfLayer
  <2> QED  BY <2>1, PathWithFacts
<1> HIDE DEF p
<1>2. new = Append(kept, Layer(node.code))  BY DEF LayersAfterChoose
<1>3. \A i \in 1 .. l : pa(i) = ParentAt(p, i)
  BY <1>1 DEF ParentAt
<1>4. \A i \in 1 .. l : IsLayer(retained(i), ParentAt(p, i), i)
  <2> SUFFICES ASSUME NEW i \in 1 .. l  PROVE IsLayer(retained(i), ParentAt(p, i), i)
    OBVIOUS
  <2>1. CASE i \in DOMAIN s.layers /\ s.layers[i].parent = pa(i)
    <3>1. IsLayer(s.layers[i], s.layers[i].parent, i)  BY <2>1, ParentOfLayer
    <3> QED  BY <1>3, <2>1, <3>1
  <2>2. CASE ~ (i \in DOMAIN s.layers /\ s.layers[i].parent = pa(i))
    <3>1. retained(i) = Layer(ParentAt(p, i))  BY <1>3, <2>2
    <3> HIDE DEF retained
    <3> QED  BY <3>1, FreshLayer
  <2> QED  BY <2>1, <2>2
<1> HIDE DEF retained
<1> DEFINE T == {retained(i) : i \in 1 .. l} \cup {Layer(node.code)}
<1>5. kept \in Seq(T) /\ Len(kept) = l /\ \A i \in 1 .. l : kept[i] = retained(i)
  <2>1. kept \in [1 .. l -> T]  BY <1>1
  <2> QED  BY <1>1, <2>1
<1>6. Layer(node.code) \in T  OBVIOUS
<1> HIDE DEF T, kept, new
<1>7. new = [i \in 1 .. l + 1 |-> new[i]]  BY <1>1, <1>2, <1>5, <1>6
<1>8. \A i \in 1 .. l : new[i] = retained(i)  BY <1>1, <1>2, <1>5, <1>6
<1>9. new[l + 1] = Layer(node.code)  BY <1>1, <1>2, <1>5, <1>6
<1>10. LayersOK(new, p)
  <2>1. \A i \in 1 .. l + 1 : IsLayer(new[i], ParentAt(p, i), i)
    <3> SUFFICES ASSUME NEW i \in 1 .. l + 1  PROVE IsLayer(new[i], ParentAt(p, i), i)
      OBVIOUS
    <3>1. CASE i \in 1 .. l  BY <1>4, <1>8, <3>1
    <3>2. CASE i = l + 1
      <4>1. ParentAt(p, i) = node.code  BY <1>1, <3>2 DEF ParentAt
      <4>2. new[i] = Layer(ParentAt(p, i))  BY <1>9, <3>2, <4>1
      <4> QED  BY <4>2, FreshLayer
    <3> QED  BY <1>1, <3>1, <3>2
  <2> QED  BY <1>1, <1>7, <2>1 DEF LayersOK
<1>11. DispatchChoose(s, node) =
        [s EXCEPT !.generation = @ + 1, !.path = p, !.status = None, !.layers = new]
  BY DEF DispatchChoose, p, new
<1> QED  BY <1>1, <1>10, <1>11 DEF StateOK, StateFields

-----------------------------------------------------------------------------
(* The hook.                                                                *)

\* What a call is told by.
LEMMA NewCallFields ==
  ASSUME NEW kind, NEW g, NEW r, NEW d, NEW asks
  PROVE  LET c == NewCall(kind, g, r, d, asks) IN
         /\ DOMAIN c = {"kind", "generation", "request", "dataset", "asks", "aborted"}
         /\ c.kind = kind /\ c.dataset = d /\ c.asks = asks
  BY DEF NewCall

\* Aborting marks a call and leaves what it asks.
LEMMA AbortKeeps ==
  ASSUME NEW asked, \A c \in asked : CallOK(c), NEW gone
  PROVE  \A c \in Abort(asked, gone) : CallOK(c)
  BY DEF Abort, CallOK

\* What becomes of the hook in a step.
LEMMA BecomesKeeps ==
  ASSUME NEW h, HookOK(h), Becomes(h)
  PROVE  HookOK(hook') /\ hook'.state = h.state
  BY DEF Becomes, HookOK

\* A call that is over leaves the state alone.
LEMMA FinishedKeeps ==
  ASSUME NEW call, HookOK(hook)
  PROVE  HookOK(Finished(call)) /\ Finished(call).state = hook.state
         /\ Finished(call).generation = hook.generation
  BY DEF Finished, HookOK

\* Only the state, the calls and what the host was told differ between two hooks.
LEMMA HookWith ==
  ASSUME NEW h, HookOK(h), NEW s, StateOK(s), s.generation = h.generation,
         NEW asked, \A c \in asked : CallOK(c)
  PROVE  HookOK([h EXCEPT !.state = s, !.calls = asked])
  BY DEF HookOK

\* A hook with another state of its generation.
LEMMA HookWithState ==
  ASSUME NEW h, HookOK(h), NEW s, StateOK(s), s.generation = h.generation
  PROVE  HookOK([h EXCEPT !.state = s])
  BY DEF HookOK

\* A hook with other calls.
LEMMA HookWithCalls ==
  ASSUME NEW h, HookOK(h), NEW asked, \A c \in asked : CallOK(c)
  PROVE  HookOK([h EXCEPT !.calls = asked])
  BY DEF HookOK

\* A hook that has told its host something else.
LEMMA HookWithTold ==
  ASSUME NEW h, HookOK(h), NEW told
  PROVE  HookOK([h EXCEPT !.told = told])
  BY DEF HookOK

\* A new generation, taken up by the reducer.
LEMMA NextGenerationWith ==
  ASSUME NEW h, HookOK(h), NEW s, StateOK(s), s.generation = h.generation + 1, NEW told
  PROVE  LET g == NextGeneration(h) IN
         /\ g.state = h.state /\ g.generation = h.generation + 1
         /\ \A c \in g.calls : CallOK(c)
         /\ HookOK([g EXCEPT !.state = s])
         /\ HookOK([g EXCEPT !.state = s, !.told = told])
<1> DEFINE up == [h EXCEPT !.generation = @ + 1]
           asked == Abort(up.calls, {c \in up.calls : c.kind # "search"})
           g == [up EXCEPT !.calls = asked]
<1>1. /\ DOMAIN up = {"state", "generation", "calls", "told"} /\ up.calls = h.calls
      /\ up.state = h.state /\ up.generation = h.generation + 1
  BY DEF HookOK
<1>2. \A c \in asked : CallOK(c)  BY <1>1, AbortKeeps DEF HookOK
<1>3. NextGeneration(h) = g  BY DEF NextGeneration, AbortAll
<1> HIDE DEF asked, up
<1>4. /\ DOMAIN g = {"state", "generation", "calls", "told"} /\ g.calls = asked
      /\ g.state = h.state /\ g.generation = h.generation + 1
  BY <1>1
<1> HIDE DEF g
<1> QED  BY <1>2, <1>3, <1>4 DEF HookOK

\* load: the layers asked for hang where they did.
LEMMA LoadKeeps ==
  ASSUME NEW h, HookOK(h), NEW parents, NEW d \in Editions, NEW cursor
  PROVE  HookOK(Load(h, parents, d, cursor))
<1> DEFINE levels == DOMAIN parents
           requests == [i \in levels |-> FreshRequests(h, Cardinality({j \in levels : j <= i}))]
           call(i) == NewCall("layer", h.generation, requests[i], d,
                        [level |-> i, parent |-> parents[i], cursor |-> cursor])
           s == DispatchStart(h.state, h.generation, requests)
           asked == Abort(h.calls, {c \in h.calls : c.kind = "layer" /\ c.asks.level \in levels})
                      \cup {call(i) : i \in levels}
<1>1. Load(h, parents, d, cursor) = [h EXCEPT !.state = s, !.calls = asked]
  BY DEF Load
<1>2. StateOK(s) /\ s.generation = h.generation
  <2> HIDE DEF requests
  <2> QED  BY StartKeeps DEF HookOK
<1>3. \A i \in levels : CallOK(call(i))
  <2> SUFFICES ASSUME NEW i \in levels  PROVE CallOK(call(i))
    OBVIOUS
  <2> HIDE DEF requests
  <2>1. /\ DOMAIN call(i) = {"kind", "generation", "request", "dataset", "asks", "aborted"}
        /\ call(i).kind = "layer" /\ call(i).dataset = d
    BY NewCallFields
  <2> HIDE DEF call
  <2> QED  BY <2>1 DEF CallOK
<1> HIDE DEF call
<1>4. \A c \in asked : CallOK(c)  BY <1>3, AbortKeeps DEF HookOK
<1> HIDE DEF s, asked
<1>5. HookOK([h EXCEPT !.state = s, !.calls = asked])  BY <1>2, <1>4, HookWith
<1> QED  BY <1>1, <1>5

\* loadLayer, for one layer.
LEMMA LoadLayerKeeps ==
  ASSUME NEW h, HookOK(h), NEW level, NEW parent, NEW d \in Editions, NEW cursor
  PROVE  HookOK(LoadLayer(h, level, parent, d, cursor))
<1> DEFINE parents == [i \in {level} |-> parent]
<1>1. LoadLayer(h, level, parent, d, cursor) = Load(h, parents, d, cursor)
  BY DEF LoadLayer
<1> HIDE DEF parents
<1> QED  BY <1>1, LoadKeeps

\* validate asks about the path and leaves the state alone.
LEMMA ValidateKeeps ==
  ASSUME NEW h, HookOK(h), NEW d, NEW path
  PROVE  HookOK(Validate(h, d, path)) /\ Validate(h, d, path).state = h.state
<1> DEFINE asks == [codes |-> CodesOf(path), target |-> h.state.target]
           c == NewCall("validate", h.generation, 0, d, asks)
           asked == Abort(h.calls, {x \in h.calls : x.kind = "validate"}) \cup {c}
<1>1. Validate(h, d, path) = [h EXCEPT !.calls = asked]  BY DEF Validate
<1>2. CallOK(c)
  <2> HIDE DEF asks
  <2>1. /\ DOMAIN c = {"kind", "generation", "request", "dataset", "asks", "aborted"}
        /\ c.kind = "validate"
    BY NewCallFields
  <2> HIDE DEF c
  <2> QED  BY <2>1 DEF CallOK
<1> HIDE DEF c
<1>3. \A x \in asked : CallOK(x)  BY <1>2, AbortKeeps DEF HookOK
<1> HIDE DEF asked
<1> QED  BY <1>1, <1>3, HookWithCalls DEF HookOK

\* Starting the root layer anew, with one call more.
LEMMA RootCallKeeps ==
  ASSUME NEW h, HookOK(h), NEW r, NEW gone, NEW c, CallOK(c)
  PROVE  HookOK([h EXCEPT !.state = DispatchStart(@, h.generation, [i \in {1} |-> r]),
                          !.calls = Abort(@, gone) \cup {c}])
<1> DEFINE requests == [i \in {1} |-> r]
           s == DispatchStart(h.state, h.generation, requests)
           asked == Abort(h.calls, gone) \cup {c}
<1>1. StateOK(s) /\ s.generation = h.generation
  <2> HIDE DEF requests
  <2> QED  BY StartKeeps DEF HookOK
<1>2. \A x \in asked : CallOK(x)  BY AbortKeeps DEF HookOK
<1>3. [h EXCEPT !.state = DispatchStart(@, h.generation, [i \in {1} |-> r]),
                !.calls = Abort(@, gone) \cup {c}]
        = [h EXCEPT !.state = s, !.calls = asked]
  OBVIOUS
<1> HIDE DEF s, asked
<1>4. HookOK([h EXCEPT !.state = s, !.calls = asked])  BY <1>1, <1>2, HookWith
<1> QED  BY <1>3, <1>4

\* hydrateValue asks for the path to a value.
LEMMA HydrateKeeps ==
  ASSUME NEW h, HookOK(h), NEW d \in Editions, NEW value
  PROVE  HookOK(HydrateValue(h, d, value))
<1> DEFINE r == FreshRequest(h)
           gone == {c \in h.calls : c.kind \in {"path", "hit"}}
           asks == [code |-> Last(value.codes)]
           c == NewCall("path", h.generation, r, d, asks)
<1>1. CallOK(c)
  <2> HIDE DEF asks, r
  <2>1. /\ DOMAIN c = {"kind", "generation", "request", "dataset", "asks", "aborted"}
        /\ c.kind = "path" /\ c.dataset = d
    BY NewCallFields
  <2> HIDE DEF c
  <2> QED  BY <2>1 DEF CallOK
<1>2. HydrateValue(h, d, value)
        = [h EXCEPT !.state = DispatchStart(@, h.generation, [i \in {1} |-> r]),
                    !.calls = Abort(@, gone) \cup {c}]
  BY DEF HydrateValue
<1> HIDE DEF r, gone, c
<1>3. HookOK([h EXCEPT !.state = DispatchStart(@, h.generation, [i \in {1} |-> r]),
                       !.calls = Abort(@, gone) \cup {c}])
  BY <1>1, RootCallKeeps
<1> QED  BY <1>2, <1>3

\* bootstrap asks for the dataset of a value, or for the active one.
LEMMA BootstrapKeeps ==
  ASSUME NEW h, HookOK(h), NEW value, value = None \/ value.dataset \in Editions
  PROVE  HookOK(Bootstrap(h, value))
<1> DEFINE r == FreshRequest(h)
           gone == {c \in h.calls : c.kind = "dataset"}
           d == IF value = None THEN None ELSE value.dataset
           asks == [value |-> value]
           c == NewCall("dataset", h.generation, r, d, asks)
<1>1. CallOK(c)
  <2>1. d \in Editions \cup {None}  OBVIOUS
  <2> HIDE DEF asks, r, d
  <2>2. /\ DOMAIN c = {"kind", "generation", "request", "dataset", "asks", "aborted"}
        /\ c.kind = "dataset" /\ c.dataset = d
    BY NewCallFields
  <2> HIDE DEF c
  <2> QED  BY <2>1, <2>2 DEF CallOK
<1>2. Bootstrap(h, value)
        = [h EXCEPT !.state = DispatchStart(@, h.generation, [i \in {1} |-> r]),
                    !.calls = Abort(@, gone) \cup {c}]
  BY DEF Bootstrap
<1> HIDE DEF r, gone, c
<1>3. HookOK([h EXCEPT !.state = DispatchStart(@, h.generation, [i \in {1} |-> r]),
                       !.calls = Abort(@, gone) \cup {c}])
  BY <1>1, RootCallKeeps
<1> QED  BY <1>2, <1>3

\* A path taken over whole has fresh layers below it.
LEMMA HydratedState ==
  ASSUME NEW s, StateOK(s), NEW g, NEW path, PathOK(path)
  PROVE  StateOK(DispatchHydrate(s, g, path))
         /\ DispatchHydrate(s, g, path).generation = s.generation
<1>1. LayersOK(LayersFor(path), path)  BY LayersOfPath
<1> DEFINE l == LayersFor(path)
<1> HIDE DEF l
<1>2. DispatchHydrate(s, g, path) =
        IF g = s.generation
        THEN [s EXCEPT !.path = path, !.layers = l, !.status = None] ELSE s
  BY DEF DispatchHydrate, l
<1>3. LayersOK(l, path)  BY <1>1 DEF l
<1> QED  BY <1>2, <1>3 DEF StateOK, StateFields

\* failRoot shows a path with its first layer failed.
LEMMA FailRootKeeps ==
  ASSUME NEW h, HookOK(h), NEW path, PathOK(path)
  PROVE  HookOK(FailRoot(h, path))
<1> DEFINE r == FreshRequest(h)
           requests == [i \in {1} |-> r]
           hydrated == DispatchHydrate(h.state, h.generation, path)
           started == DispatchStart(hydrated, h.generation, requests)
           s == DispatchFailed(started, h.generation, 1, r)
<1>1. FailRoot(h, path) = [h EXCEPT !.told = None, !.state = s]  BY DEF FailRoot
<1> HIDE DEF r, requests
<1>2. StateOK(hydrated) /\ hydrated.generation = h.generation
  BY HydratedState DEF HookOK
<1> HIDE DEF hydrated
<1>3. StateOK(started) /\ started.generation = h.generation  BY <1>2, StartKeeps
<1> HIDE DEF started
<1>4. StateOK(s) /\ s.generation = h.generation  BY <1>3, FailedKeeps
<1> HIDE DEF s
<1>5. [h EXCEPT !.told = None, !.state = s] = [[h EXCEPT !.told = None] EXCEPT !.state = s]
  OBVIOUS
<1> QED  BY <1>1, <1>4 DEF HookOK

\* The path to a code of a snapshot is one that can be shown.
LEMMA NodesToOK ==
  ASSUME NEW d \in Editions, NEW code \in DOMAIN Library[d]
  PROVE  PathOK(NodesTo(d, code))
<1> DEFINE t == Library[d]
           p == PathTo(t, code)
           n == t[code].level
           q == NodesTo(d, code)
<1>1. IsTree(t)  BY AreaSelectionConstants
<1>2. /\ n \in 1 .. 5 /\ Len(p) = n /\ DOMAIN p = 1 .. n
      /\ \A i \in 1 .. n : /\ p[i] \in DOMAIN t /\ t[p[i]].level = i
                           /\ t[p[i]].parent = IF i = 1 THEN Root ELSE p[i - 1]
  BY <1>1, PathFacts
<1>3. q = [i \in 1 .. n |-> Summary(t, p[i])]  BY <1>2 DEF NodesTo
<1>4. \A i \in 1 .. n : q[i].code = p[i] /\ NodeBelow(q[i], ParentAt(q, i), i)
  <2> SUFFICES ASSUME NEW i \in 1 .. n
               PROVE  q[i].code = p[i] /\ NodeBelow(q[i], ParentAt(q, i), i)
    OBVIOUS
  <2> HIDE DEF p, q, t, n
  <2>1. q[i] = Summary(t, p[i])  BY <1>3
  <2>2. /\ q[i].code = p[i] /\ q[i].level = i /\ q[i].parent = t[p[i]].parent
        /\ q[i].navigable = EffectivelyEnabled(t, p[i])
    BY <1>2, <2>1 DEF Summary, LevelOf
  <2>3. ParentAt(q, i) = t[p[i]].parent
    <3>1. CASE i = 1  BY <1>2, <3>1 DEF ParentAt
    <3>2. CASE i # 1
      <4>1. i - 1 \in 1 .. n  BY <1>2, <3>2
      <4>2. q[i - 1].code = p[i - 1]  BY <1>3, <4>1 DEF Summary
      <4> QED  BY <1>2, <3>2, <4>2 DEF ParentAt
    <3> QED  BY <3>1, <3>2
  <2>4. EffectivelyEnabled(t, p[i]) \in BOOLEAN  BY DEF EffectivelyEnabled
  <2>5. p[i] \in AnyCode /\ t[p[i]].parent \in AnyCode \cup {Root}
    BY <1>1, <1>2 DEF AnyCode, IsTree, t
  <2>6. q[i] \in Nodes  BY <1>2, <2>1, <2>2, <2>4, <2>5 DEF Nodes, Summary, LevelOf
  <2>7. AtLevel(p[i], i)  BY <1>2 DEF AtLevel, t
  <2> QED  BY <2>2, <2>3, <2>6, <2>7 DEF NodeBelow
<1>5. q \in Seq(Nodes) /\ Len(q) = n
  <2>1. q \in [1 .. n -> Nodes]
    <3> HIDE DEF q, n
    <3>1. DOMAIN q = 1 .. n /\ q = [i \in 1 .. n |-> q[i]]  BY <1>3
    <3> QED  BY <1>4, <3>1 DEF NodeBelow
  <2> HIDE DEF q, n
  <2> QED  BY <1>2, <2>1
<1> HIDE DEF q
<1> QED  BY <1>4, <1>5 DEF PathOK, q

\* The answer to a path: its layers are asked for and its target is checked.
LEMMA HydratedKeeps ==
  ASSUME NEW h, HookOK(h), NEW d \in Editions, NEW path, PathOK(path)
  PROVE  HookOK(Hydrated(h, d, path))
<1> DEFINE s == DispatchHydrate(h.state, h.generation, path)
           a == [h EXCEPT !.state = s]
           b == Validate(a, d, path)
           parents == Parents(path)
<1>1. StateOK(s) /\ s.generation = h.generation  BY HydratedState DEF HookOK
<1> HIDE DEF s
<1>2. HookOK(a)  BY <1>1, HookWithState
<1> HIDE DEF a
<1>3. HookOK(b)  BY <1>2, ValidateKeeps
<1> HIDE DEF b, parents
<1>4. HookOK(Load(b, parents, d, NoCursor))  BY <1>3, LoadKeeps
<1>5. Hydrated(h, d, path) = Load(b, parents, d, NoCursor)
  BY DEF Hydrated, b, a, s, parents
<1> QED  BY <1>4, <1>5

-----------------------------------------------------------------------------
(* The field as a whole.                                                    *)

\* New props keep the path, or empty it with its layers when the host emptied the value.
LEMMA PropsKeep ==
  ASSUME NEW s, StateOK(s), NEW props
  PROVE  StateOK(DispatchProps(s, props))
         /\ DispatchProps(s, props).generation = s.generation + 1
<1> DEFINE l == LayersFor(<<>>)
<1>1. LayersOK(l, <<>>) /\ PathOK(<<>>)  BY EmptyPath
<1> HIDE DEF l
<1> DEFINE emptied == props.value = None /\ s.value # None
<1>2. DispatchProps(s, props) =
        [s EXCEPT !.generation = @ + 1, !.status = None, !.disabled = props.disabled,
                  !.target = props.target, !.value = props.value,
                  !.path = IF emptied THEN <<>> ELSE @, !.layers = IF emptied THEN l ELSE @]
  BY DEF DispatchProps, l
<1>3. CASE emptied  BY <1>1, <1>2, <1>3 DEF StateOK, StateFields
<1>4. CASE ~ emptied  BY <1>2, <1>4 DEF StateOK, StateFields
<1> QED  BY <1>3, <1>4

\* Clearing leaves the layer of the provinces.
LEMMA ClearKeeps ==
  ASSUME NEW s, StateOK(s)
  PROVE  StateOK(DispatchClear(s)) /\ DispatchClear(s).generation = s.generation + 1
<1> DEFINE l == LayersFor(<<>>)
<1>1. LayersOK(l, <<>>) /\ PathOK(<<>>)  BY EmptyPath
<1> HIDE DEF l
<1>2. DispatchClear(s) =
        [s EXCEPT !.generation = @ + 1, !.path = <<>>, !.layers = l, !.status = None]
  BY DEF DispatchClear, l
<1> QED  BY <1>1, <1>2 DEF StateOK, StateFields

\* A lifecycle takes up a generation.
LEMMA LifecycleKeeps ==
  ASSUME NEW s, StateOK(s)
  PROVE  StateOK(DispatchLifecycle(s, s.generation + 1))
         /\ DispatchLifecycle(s, s.generation + 1).generation = s.generation + 1
  BY DEF DispatchLifecycle, StateOK, StateFields

\* The effect after a render with these props.
LEMMA EffectKeeps ==
  ASSUME HookOK(hook), NEW props, PropsOK(props), NEW changed \in BOOLEAN
  PROVE  HookOK(EffectOf(props, changed))
<1> DEFINE s == DispatchProps(hook.state, props)
           g == NextGeneration(hook)
           new == [g EXCEPT !.state = s, !.told = None]
           h == IF changed THEN new ELSE hook
<1>1. StateOK(s) /\ s.generation = hook.generation + 1  BY PropsKeep DEF HookOK
<1>2. g.state = hook.state
  <2> HIDE DEF s
  <2> QED  BY <1>1, NextGenerationWith
<1>3. EffectOf(props, changed) = IF props.disabled THEN h ELSE Bootstrap(h, props.value)
  BY <1>2 DEF EffectOf
<1> HIDE DEF s
<1>4. HookOK(new)  BY <1>1, NextGenerationWith
<1> HIDE DEF new
<1>5. HookOK(h)  BY <1>4
<1> HIDE DEF h
<1>6. HookOK(Bootstrap(h, props.value))  BY <1>5, BootstrapKeeps DEF PropsOK
<1> QED  BY <1>3, <1>5, <1>6

\* onChange hands the host a value of a snapshot.
LEMMA OnChangeKeeps ==
  ASSUME PropsOK(hostProps), NEW value, value = None \/ value.dataset \in Editions,
         OnChange(value)
  PROVE  PropsOK(hostProps')
  BY DEF OnChange, PropsOK

\* A path becomes a value of the dataset it was read from.
LEMMA AsValueDataset ==
  ASSUME NEW d \in Editions, NEW path
  PROVE  AsValue(d, path).dataset \in Editions
  BY DEF AsValue

\* A field starts with no path.
LEMMA FieldStarts == FieldInit => FieldTypes
<1> SUFFICES ASSUME FieldInit  PROVE FieldTypes
  OBVIOUS
<1>1. PICK bounds \in Bounds, value \in HostValues \cup {None} :
        \E target \in bounds.targets :
          LET props == [value |-> value, disabled |-> FALSE, target |-> target] IN
          /\ edition \in Editions
          /\ hostProps = props /\ rendered = props
          /\ hook = [state |-> InitialState(props), generation |-> 0, calls |-> {}, told |-> None]
          /\ view = InitialState(props)
  BY DEF FieldInit
<1>2. PICK target \in bounds.targets :
          LET props == [value |-> value, disabled |-> FALSE, target |-> target] IN
          /\ edition \in Editions
          /\ hostProps = props /\ rendered = props
          /\ hook = [state |-> InitialState(props), generation |-> 0, calls |-> {}, told |-> None]
          /\ view = InitialState(props)
  BY <1>1
<1> DEFINE props == [value |-> value, disabled |-> FALSE, target |-> target]
           s == InitialState(props)
           l == LayersFor(<<>>)
<1>3. value = None \/ value.dataset \in Editions  BY AreaSelectionConstants
<1>4. PropsOK(props)  BY <1>3 DEF PropsOK
<1>5. StateOK(s) /\ s.generation = 0
  <2>1. LayersOK(l, <<>>) /\ PathOK(<<>>)  BY EmptyPath
  <2> HIDE DEF l, props
  <2>2. s = [generation |-> 0, dataset |-> None, path |-> <<>>, layers |-> l,
             status |-> None, disabled |-> props.disabled, target |-> props.target,
             value |-> props.value]
    BY DEF InitialState, l
  <2> HIDE DEF s
  <2> QED  BY <2>1, <2>2 DEF StateOK, StateFields
<1> HIDE DEF props, s, l
<1>6. /\ edition \in Editions /\ hostProps = props /\ rendered = props
      /\ hook = [state |-> s, generation |-> 0, calls |-> {}, told |-> None]
      /\ view = s
  BY <1>2 DEF props, s
<1>7. HookOK(hook)  BY <1>5, <1>6 DEF HookOK
<1> QED  BY <1>4, <1>5, <1>6, <1>7 DEF FieldTypes

\* The host, the render and the effect.
LEMMA HostSteps ==
  ASSUME FieldTypes,
         \/ \E d \in Editions : Activate(d)
         \/ \E props \in HostProps : HostChanges(props)
         \/ Render \/ RunEffect
  PROVE  FieldTypes'
<1>1. ASSUME NEW d \in Editions, Activate(d)  PROVE FieldTypes'
  BY <1>1 DEF FieldTypes, Activate, HookOK, PropsOK, StateOK
<1>2. ASSUME NEW props \in HostProps, HostChanges(props)  PROVE FieldTypes'
  <2>1. PropsOK(props)  BY AreaSelectionConstants DEF HostProps, PropsOK
  <2>2. HookOK(EffectOf(props, TRUE))  BY <2>1, EffectKeeps DEF FieldTypes
  <2> DEFINE h == EffectOf(props, TRUE)
  <2> HIDE DEF h
  <2>3. Becomes(h)  BY <1>2 DEF HostChanges, h
  <2>4. HookOK(hook')  BY <2>2, <2>3, BecomesKeeps DEF h
  <2>5. hostProps' = props /\ rendered' = props /\ view' = view /\ edition' = edition
    BY <1>2 DEF HostChanges
  <2> QED  BY <2>1, <2>4, <2>5 DEF FieldTypes, PropsOK
<1>3. CASE Render
  <2>1. view' = hook.state /\ rendered' = hostProps /\ UNCHANGED <<edition, hostProps, hook>>
    BY <1>3 DEF Render
  <2> QED  BY <2>1 DEF FieldTypes, HookOK, PropsOK, StateOK
<1>4. CASE RunEffect
  <2> DEFINE changed == effect = "changed"
             h == EffectOf(rendered, changed)
  <2>1. HookOK(h)
    <3>1. changed \in BOOLEAN  OBVIOUS
    <3> HIDE DEF changed
    <3> QED  BY <3>1, EffectKeeps DEF FieldTypes
  <2>2. Becomes(h) /\ UNCHANGED <<edition, hostProps, view, rendered>>
    BY <1>4 DEF RunEffect
  <2> HIDE DEF h
  <2>3. HookOK(hook')  BY <2>1, <2>2, BecomesKeeps
  <2> QED  BY <2>2, <2>3 DEF FieldTypes, PropsOK, StateOK
<1> QED  BY <1>1, <1>2, <1>3, <1>4

\* The microtask of an activation: bootstrap, hydrate or start again.
LEMMA MicrotaskStep ==
  ASSUME FieldTypes, RunMicrotask
  PROVE  FieldTypes'
<1> DEFINE stale == microtask.generation # hook.generation \/ microtask.value # rendered.value
           next == NextGeneration(hook)
           s == DispatchLifecycle(next.state, next.generation)
           h == [next EXCEPT !.state = s, !.told = None]
           shown == DispatchHydrate(h.state, h.generation, <<>>)
           k == [h EXCEPT !.state = shown]
           new == IF stale THEN hook
                  ELSE IF view.dataset = None THEN Bootstrap(h, rendered.value)
                  ELSE IF rendered.value = None
                  THEN LoadLayer(k, 1, Root, view.dataset, NoCursor)
                  ELSE HydrateValue(h, view.dataset, rendered.value)
<1>1. Becomes(new) /\ UNCHANGED <<edition, hostProps, view, rendered>>
  BY DEF RunMicrotask
<1>2. HookOK(h)
  <2> DEFINE s0 == DispatchLifecycle(hook.state, hook.state.generation + 1)
  <2>1. StateOK(s0) /\ s0.generation = hook.generation + 1
    BY LifecycleKeeps DEF FieldTypes, HookOK
  <2> HIDE DEF s0
  <2>2. next.state = hook.state /\ next.generation = hook.state.generation + 1
    BY <2>1, NextGenerationWith DEF FieldTypes, HookOK
  <2>3. s = s0  BY <2>2 DEF s0
  <2> HIDE DEF s
  <2>4. HookOK([NextGeneration(hook) EXCEPT !.state = s0, !.told = None])
    BY <2>1, NextGenerationWith DEF FieldTypes
  <2> QED  BY <2>3, <2>4
<1> HIDE DEF h
<1>3. HookOK(k)
  <2>1. StateOK(h.state) /\ h.state.generation = h.generation  BY <1>2 DEF HookOK
  <2>2. StateOK(shown) /\ shown.generation = h.generation
    BY <2>1, EmptyPath, HydratedState
  <2> HIDE DEF shown
  <2> QED  BY <1>2, <2>2, HookWithState
<1> HIDE DEF k
<1>4. HookOK(Bootstrap(h, rendered.value))
  BY <1>2, BootstrapKeeps DEF FieldTypes, PropsOK
<1>5. view.dataset # None => view.dataset \in Editions  BY DEF FieldTypes, StateOK
<1>6. view.dataset # None => HookOK(LoadLayer(k, 1, Root, view.dataset, NoCursor))
  BY <1>3, <1>5, LoadLayerKeeps
<1>7. view.dataset # None => HookOK(HydrateValue(h, view.dataset, rendered.value))
  BY <1>2, <1>5, HydrateKeeps
<1>8. HookOK(new)
  <2> HIDE DEF stale
  <2>1. HookOK(hook)  BY DEF FieldTypes
  <2> QED  BY <1>4, <1>6, <1>7, <2>1
<1> HIDE DEF new
<1>9. HookOK(hook')  BY <1>1, <1>8, BecomesKeeps
<1> QED  BY <1>1, <1>9 DEF FieldTypes, PropsOK, StateOK

\* What a choice, a clear or a hit of a search does to the hook before it asks anything.
LEMMA GenerationKeeps ==
  ASSUME HookOK(hook), NEW s, StateOK(s), s.generation = hook.generation + 1
  PROVE  HookOK([NextGeneration(hook) EXCEPT !.state = s, !.told = None])
  BY NextGenerationWith

\* The user chooses a region of a layer.
LEMMA ChooseStep ==
  ASSUME FieldTypes, NEW i \in DOMAIN view.layers, NEW node \in view.layers[i].items,
         Choose(i, node)
  PROVE  FieldTypes'
<1> DEFINE path == PathWith(view.path, node)
           g == NextGeneration(hook)
           s == DispatchChoose(hook.state, node)
           chosen == [g EXCEPT !.state = s, !.told = None]
           new == LoadLayer(Validate(chosen, view.dataset, path),
                            node.level + 1, node.code, view.dataset, NoCursor)
<1>1. view = hook.state  BY DEF Choose, UpToDate
<1>2. StateOK(s) /\ s.generation = hook.generation + 1
  BY <1>1, ChooseKeeps DEF FieldTypes, HookOK
<1>3. g.state = hook.state
  <2> HIDE DEF s
  <2> QED  BY <1>2, NextGenerationWith DEF FieldTypes
<1>4. Becomes(new) /\ OnChange(AsValue(view.dataset, path)) /\ view.dataset # None
      /\ UNCHANGED <<edition, view, rendered>>
  BY <1>3 DEF Choose
<1> HIDE DEF s
<1>5. HookOK(chosen)  BY <1>2, GenerationKeeps DEF FieldTypes
<1> HIDE DEF chosen, path
<1>6. view.dataset \in Editions  BY <1>4 DEF FieldTypes, StateOK
<1>7. HookOK(new)  BY <1>5, <1>6, ValidateKeeps, LoadLayerKeeps
<1> HIDE DEF new
<1>8. HookOK(hook')  BY <1>4, <1>7, BecomesKeeps
<1>9. PropsOK(hostProps')  BY <1>4, <1>6, AsValueDataset, OnChangeKeeps DEF FieldTypes
<1> QED  BY <1>4, <1>8, <1>9 DEF FieldTypes, PropsOK, StateOK

\* The user clears the field.
LEMMA ClearStep ==
  ASSUME FieldTypes, Clear
  PROVE  FieldTypes'
<1> DEFINE g == NextGeneration(hook)
           s == DispatchClear(hook.state)
           new == [g EXCEPT !.state = s, !.told = None]
<1>1. StateOK(s) /\ s.generation = hook.generation + 1
  BY ClearKeeps DEF FieldTypes, HookOK
<1>2. g.state = hook.state
  <2> HIDE DEF s
  <2> QED  BY <1>1, NextGenerationWith DEF FieldTypes
<1>3. Becomes(new) /\ OnChange(None) /\ UNCHANGED <<edition, view, rendered>>
  BY <1>2 DEF Clear
<1> HIDE DEF s
<1>4. HookOK(new)  BY <1>1, GenerationKeeps DEF FieldTypes
<1> HIDE DEF new
<1>5. HookOK(hook')  BY <1>3, <1>4, BecomesKeeps
<1>6. PropsOK(hostProps')  BY <1>3, OnChangeKeeps DEF FieldTypes
<1> QED  BY <1>3, <1>5, <1>6 DEF FieldTypes, PropsOK, StateOK

\* The user asks for the next page of a layer, or for one that failed again.
LEMMA MoreSteps ==
  ASSUME FieldTypes, NEW i, LoadMore(i) \/ RetryLayer(i)
  PROVE  FieldTypes'
<1> DEFINE current == view.layers[i]
           more == LoadLayer(hook, i, current.parent, view.dataset, current.next)
           again == IF view.dataset = None THEN Bootstrap(hook, rendered.value)
                    ELSE IF i = 1 /\ rendered.value # None
                    THEN HydrateValue(hook, view.dataset, rendered.value)
                    ELSE more
<1>1. UNCHANGED <<edition, hostProps, view, rendered>>
      /\ ((view.dataset # None /\ Becomes(more)) \/ Becomes(again))
  BY DEF LoadMore, RetryLayer
<1>2. view.dataset # None => view.dataset \in Editions  BY DEF FieldTypes, StateOK
<1>3. view.dataset # None => HookOK(more)  BY <1>2, LoadLayerKeeps DEF FieldTypes
<1>4. view.dataset # None => HookOK(HydrateValue(hook, view.dataset, rendered.value))
  BY <1>2, HydrateKeeps DEF FieldTypes
<1>5. HookOK(Bootstrap(hook, rendered.value))
  BY BootstrapKeeps DEF FieldTypes, PropsOK
<1> HIDE DEF more
<1>6. HookOK(again)  BY <1>3, <1>4, <1>5
<1> HIDE DEF again
<1>7. HookOK(hook')  BY <1>1, <1>3, <1>6, BecomesKeeps
<1> QED  BY <1>1, <1>7 DEF FieldTypes, PropsOK, StateOK

\* The user opens a search, closes it or picks a hit.
LEMMA SearchSteps ==
  ASSUME FieldTypes,
         Search \/ CloseSearch \/ \E hit \in panel.hits : PickHit(hit)
  PROVE  FieldTypes'
<1>1. CASE Search
  <2> DEFINE r == FreshRequest(hook)
             asks == [context |-> SearchContext(view, rendered)]
             c == NewCall("search", hook.generation, r, view.dataset, asks)
             asked == Abort(hook.calls, {x \in hook.calls : x.kind = "search"}) \cup {c}
             new == [hook EXCEPT !.calls = asked]
  <2>1. Becomes(new) /\ UNCHANGED <<edition, hostProps, view, rendered>>
    BY <1>1 DEF Search
  <2>2. CallOK(c)
    <3> HIDE DEF asks, r
    <3>1. /\ DOMAIN c = {"kind", "generation", "request", "dataset", "asks", "aborted"}
          /\ c.kind = "search"
      BY NewCallFields
    <3> HIDE DEF c
    <3> QED  BY <3>1 DEF CallOK
  <2> HIDE DEF c
  <2>3. \A x \in asked : CallOK(x)  BY <2>2, AbortKeeps DEF FieldTypes, HookOK
  <2> HIDE DEF asked
  <2>4. HookOK(new)  BY <2>3, HookWithCalls DEF FieldTypes
  <2> HIDE DEF new
  <2>5. HookOK(hook')  BY <2>1, <2>4, BecomesKeeps
  <2> QED  BY <2>1, <2>5 DEF FieldTypes, PropsOK, StateOK
<1>2. CASE CloseSearch
  BY <1>2 DEF CloseSearch, FieldTypes, HookOK, PropsOK, StateOK
<1>3. ASSUME NEW hit \in panel.hits, PickHit(hit)  PROVE FieldTypes'
  <2> DEFINE g == NextGeneration(hook)
             s == DispatchClear(hook.state)
             k == [g EXCEPT !.state = s, !.told = None]
             asks == [code |-> hit.code, back |-> view.path]
             c == NewCall("hit", g.generation, 0, view.dataset, asks)
             new == [k EXCEPT !.calls = @ \cup {c}]
  <2>1. StateOK(s) /\ s.generation = hook.generation + 1
    BY ClearKeeps DEF FieldTypes, HookOK
  <2>2. g.state = hook.state
    <3> HIDE DEF s
    <3> QED  BY <2>1, NextGenerationWith DEF FieldTypes
  <2>3. \/ Becomes([g EXCEPT !.state = DispatchClear(@), !.told = None, !.calls = @ \cup {c}])
           /\ view.dataset # None
        \/ UNCHANGED hook
    BY <1>3 DEF PickHit
  <2>4. UNCHANGED <<edition, hostProps, view, rendered>>  BY <1>3 DEF PickHit
  <2>5. [g EXCEPT !.state = DispatchClear(@), !.told = None, !.calls = @ \cup {c}] = new
    <3>1. DispatchClear(g.state) = s  BY <2>2
    <3> HIDE DEF g, s, c
    <3> QED  BY <3>1
  <2> HIDE DEF s, c
  <2>6. HookOK(k)  BY <2>1, GenerationKeeps DEF FieldTypes
  <2> HIDE DEF k
  <2>7. view.dataset # None => CallOK(c)
    <3> HIDE DEF g
    <3>1. /\ DOMAIN c = {"kind", "generation", "request", "dataset", "asks", "aborted"}
          /\ c.kind = "hit" /\ c.dataset = view.dataset /\ c.asks.back = view.path
      BY NewCallFields DEF c
    <3>2. view.dataset # None => view.dataset \in Editions  BY DEF FieldTypes, StateOK
    <3>3. PathOK(view.path)  BY DEF FieldTypes, StateOK
    <3> QED  BY <3>1, <3>2, <3>3 DEF CallOK
  <2>8. view.dataset # None => HookOK(new)
    <3> DEFINE asked == k.calls \cup {c}
    <3>1. view.dataset # None => \A x \in asked : CallOK(x)  BY <2>6, <2>7 DEF HookOK
    <3> HIDE DEF asked
    <3>2. view.dataset # None => HookOK([k EXCEPT !.calls = asked])
      BY <2>6, <3>1, HookWithCalls
    <3> QED  BY <3>2 DEF asked
  <2> HIDE DEF new
  <2>9. HookOK(hook')
    <3>1. CASE UNCHANGED hook  BY <3>1 DEF FieldTypes, HookOK
    <3>2. CASE Becomes(new) /\ view.dataset # None  BY <2>8, <3>2, BecomesKeeps
    <3> QED  BY <2>3, <2>5, <3>1, <3>2
  <2> QED  BY <2>4, <2>9 DEF FieldTypes, PropsOK, StateOK
<1> QED  BY <1>1, <1>2, <1>3

\* The answers that bring no regions to the layers.
LEMMA AnswerSteps ==
  ASSUME FieldTypes, NEW call \in hook.calls,
         Ignore(call) \/ AnswerDataset(call) \/ AnswerPath(call)
           \/ AnswerValidate(call) \/ AnswerSearch(call)
  PROVE  FieldTypes'
<1> DEFINE f == Finished(call)
<1>1. HookOK(f) /\ f.state = hook.state /\ f.generation = hook.generation /\ CallOK(call)
  BY FinishedKeeps DEF FieldTypes, HookOK
<1>2. CASE Ignore(call)
  <2>1. HookOK(hook')
    <3>1. Becomes(f)  BY <1>2 DEF Ignore
    <3> HIDE DEF f
    <3> QED  BY <1>1, <3>1, BecomesKeeps
  <2>2. UNCHANGED <<edition, hostProps, view, rendered>>  BY <1>2 DEF Ignore
  <2> QED  BY <2>1, <2>2 DEF FieldTypes, PropsOK, StateOK
<1>3. CASE AnswerDataset(call)
  <2> DEFINE d == IF call.dataset = None THEN edition ELSE call.dataset
             s == DispatchDataset(f.state, call.generation, d)
             h == [f EXCEPT !.state = s]
             new == IF call.asks.value = None THEN LoadLayer(h, 1, Root, d, NoCursor)
                    ELSE HydrateValue(h, d, call.asks.value)
  <2>1. Becomes(new) /\ call.kind = "dataset"
        /\ UNCHANGED <<edition, hostProps, view, rendered>>
    BY <1>3 DEF AnswerDataset
  <2> HIDE DEF f
  <2>2. d \in Editions  BY <1>1, <2>1 DEF CallOK, FieldTypes
  <2> HIDE DEF d
  <2>3. StateOK(s) /\ s.generation = f.generation
    BY <1>1, <2>2 DEF DispatchDataset, StateOK, StateFields, HookOK
  <2> HIDE DEF s
  <2>4. HookOK(h)  BY <1>1, <2>3, HookWithState
  <2> HIDE DEF h
  <2>5. HookOK(new)  BY <2>2, <2>4, LoadLayerKeeps, HydrateKeeps
  <2> HIDE DEF new
  <2>6. HookOK(hook')  BY <2>1, <2>5, BecomesKeeps
  <2> QED  BY <2>1, <2>6 DEF FieldTypes, PropsOK, StateOK
<1>4. CASE AnswerPath(call)
  <2> DEFINE path == NodesTo(call.dataset, call.asks.code)
             found == Hydrated(f, call.dataset, path)
             failed == FailRoot(f, <<>>)
             new == IF Known(call) THEN found ELSE failed
  <2>1. Becomes(new) /\ call.kind = "path"
        /\ UNCHANGED <<edition, hostProps, view, rendered>>
    BY <1>4 DEF AnswerPath
  <2> HIDE DEF f
  <2>2. call.dataset \in Editions  BY <1>1, <2>1 DEF CallOK
  <2>3. HookOK(failed)  BY <1>1, EmptyPath, FailRootKeeps
  <2>4. Known(call) => PathOK(path)  BY <2>2, NodesToOK DEF Known
  <2> HIDE DEF path
  <2>5. Known(call) => HookOK(found)  BY <1>1, <2>2, <2>4, HydratedKeeps
  <2> HIDE DEF found, failed
  <2>6. HookOK(new)  BY <2>3, <2>5
  <2> HIDE DEF new
  <2>7. HookOK(hook')  BY <2>1, <2>6, BecomesKeeps
  <2> QED  BY <2>1, <2>7 DEF FieldTypes, PropsOK, StateOK
<1>5. CASE AnswerValidate(call)
  <2> DEFINE reason == Verdict(Library[call.dataset], call.asks.codes, call.asks.target)
             result == [dataset |-> call.dataset, codes |-> call.asks.codes,
                        target |-> call.asks.target,
                        reason |-> reason, accepted |-> reason \in Accepting]
             s == DispatchStatus(f.state, call.generation, result)
             new == [f EXCEPT !.told = result, !.state = s]
  <2>1. Becomes(new) /\ RenderedAtOnce /\ UNCHANGED <<edition, hostProps, rendered>>
    BY <1>5 DEF AnswerValidate
  <2> HIDE DEF f, result
  <2>2. StateOK(s) /\ s.generation = f.generation
    BY <1>1 DEF DispatchStatus, StateOK, StateFields, HookOK
  <2> HIDE DEF s
  <2>3. HookOK(new)  BY <1>1, <2>2 DEF HookOK
  <2> HIDE DEF new
  <2>4. HookOK(hook')  BY <2>1, <2>3, BecomesKeeps
  <2>5. StateOK(view')
    <3>1. view' = hook'.state \/ view' = view  BY <2>1 DEF RenderedAtOnce
    <3> QED  BY <2>4, <3>1 DEF HookOK, FieldTypes, StateOK
  <2> QED  BY <2>1, <2>4, <2>5 DEF FieldTypes, PropsOK
<1>6. CASE AnswerSearch(call)
  <2>1. Becomes(f) /\ RenderedAtOnce /\ UNCHANGED <<edition, hostProps, rendered>>
    BY <1>6 DEF AnswerSearch
  <2> HIDE DEF f
  <2>2. HookOK(hook')  BY <1>1, <2>1, BecomesKeeps
  <2>3. StateOK(view')
    <3>1. view' = hook'.state \/ view' = view  BY <2>1 DEF RenderedAtOnce
    <3> QED  BY <2>2, <3>1 DEF HookOK, FieldTypes, StateOK
  <2> QED  BY <2>1, <2>2, <2>3 DEF FieldTypes, PropsOK
<1> QED  BY <1>2, <1>3, <1>4, <1>5, <1>6

\* The answer to the path of a hit.
LEMMA AnswerHitStep ==
  ASSUME FieldTypes, NEW call \in hook.calls, AnswerHit(call)
  PROVE  FieldTypes'
<1> DEFINE f == Finished(call)
           g == [f EXCEPT !.told = None]
           path == NodesTo(call.dataset, call.asks.code)
           new == Hydrated(g, call.dataset, path)
<1>1. HookOK(f) /\ CallOK(call)  BY FinishedKeeps DEF FieldTypes, HookOK
<1>2. /\ Becomes(new) /\ OnChange(AsValue(call.dataset, path)) /\ call.kind = "hit"
      /\ Known(call) /\ UNCHANGED <<edition, view, rendered>>
  BY DEF AnswerHit
<1> HIDE DEF f
<1>3. HookOK(g)  BY <1>1, HookWithTold
<1> HIDE DEF g
<1>4. call.dataset \in Editions  BY <1>1, <1>2 DEF CallOK
<1>5. PathOK(path)  BY <1>2, <1>4, NodesToOK DEF Known
<1> HIDE DEF path
<1>6. HookOK(new)  BY <1>3, <1>4, <1>5, HydratedKeeps
<1> HIDE DEF new
<1>7. HookOK(hook')  BY <1>2, <1>6, BecomesKeeps
<1>8. PropsOK(hostProps')  BY <1>2, <1>4, AsValueDataset, OnChangeKeeps DEF FieldTypes
<1> QED  BY <1>2, <1>7, <1>8 DEF FieldTypes, PropsOK, StateOK

\* A page hangs below the parent it was asked for, and is shown by a layer that still
\* has that parent.
LEMMA AnswerLayerStep ==
  ASSUME FieldTypes, NEW call \in hook.calls, AnswerLayer(call)
  PROVE  FieldTypes'
<1> DEFINE f == Finished(call)
           asks == call.asks
           d == call.dataset
           query == PageQueried(call)
           answer == PageOf(Library[d], d, query, ChildrenOf(Library[d], asks.parent), asks.cursor)
           served == /\ asks.parent \in DOMAIN Library[d] \cup {Root}
                     /\ CursorFits(asks.cursor, d, query)
           loaded == DispatchLoaded(f.state, call.generation, asks.level, call.request,
                                    asks.parent, answer)
           failed == DispatchFailed(f.state, call.generation, asks.level, call.request)
           s == IF served THEN loaded ELSE failed
           new == [f EXCEPT !.state = s]
<1>1. HookOK(f) /\ CallOK(call)  BY FinishedKeeps DEF FieldTypes, HookOK
<1>2. Becomes(new) /\ RenderedAtOnce /\ call.kind = "layer"
      /\ UNCHANGED <<edition, hostProps, rendered>>
  BY DEF AnswerLayer
<1>3. d \in Editions  BY <1>1, <1>2 DEF CallOK
<1> HIDE DEF f, query, asks, d
<1>4. StateOK(f.state) /\ f.state.generation = f.generation  BY <1>1 DEF HookOK
<1>5. StateOK(failed) /\ failed.generation = f.generation  BY <1>4, FailedKeeps
<1>6. ASSUME asks.parent \in DOMAIN Library[d] \cup {Root}
      PROVE  StateOK(loaded) /\ loaded.generation = f.generation
  <2>1. PageBelow(answer, d, asks.parent)
    BY <1>6, PageIsOfRows DEF PageBelow
  <2> HIDE DEF answer
  <2>2. StateOK(loaded) /\ loaded.generation = f.state.generation
    BY <1>3, <1>4, <2>1, LoadedKeeps
  <2> QED  BY <1>4, <2>2
<1> HIDE DEF loaded, failed
<1>7. StateOK(s) /\ s.generation = f.generation  BY <1>5, <1>6
<1> HIDE DEF s
<1>8. HookOK(new)  BY <1>1, <1>7, HookWithState
<1> HIDE DEF new
<1>9. HookOK(hook')  BY <1>2, <1>8, BecomesKeeps
<1>10. StateOK(view')
  <2>1. view' = hook'.state \/ view' = view  BY <1>2 DEF RenderedAtOnce
  <2> QED  BY <1>9, <2>1 DEF HookOK, FieldTypes, StateOK
<1> QED  BY <1>2, <1>9, <1>10 DEF FieldTypes, PropsOK

\* A call fails.
LEMMA FailStep ==
  ASSUME FieldTypes, NEW call \in hook.calls, FailField(call)
  PROVE  FieldTypes'
<1> DEFINE f == Finished(call)
           s == DispatchFailed(f.state, call.generation, call.asks.level, call.request)
           new == IF call.kind = "hit" THEN FailRoot(f, call.asks.back)
                  ELSE IF call.kind = "layer" THEN [f EXCEPT !.state = s]
                  ELSE FailRoot(f, <<>>)
<1>1. HookOK(f) /\ CallOK(call)  BY FinishedKeeps DEF FieldTypes, HookOK
<1>2. Becomes(new) /\ UNCHANGED <<edition, hostProps, view, rendered>>
  BY DEF FailField
<1> HIDE DEF f
<1>3. StateOK(s) /\ s.generation = f.generation  BY <1>1, FailedKeeps DEF HookOK
<1> HIDE DEF s
<1>4. HookOK([f EXCEPT !.state = s])  BY <1>1, <1>3, HookWithState
<1>5. HookOK(FailRoot(f, <<>>))  BY <1>1, EmptyPath, FailRootKeeps
<1>6. call.kind = "hit" => HookOK(FailRoot(f, call.asks.back))
  BY <1>1, FailRootKeeps DEF CallOK
<1>7. HookOK(new)  BY <1>4, <1>5, <1>6
<1> HIDE DEF new
<1>8. HookOK(hook')  BY <1>2, <1>7, BecomesKeeps
<1> QED  BY <1>2, <1>8 DEF FieldTypes, PropsOK, StateOK

\* Every step of the field, its host and its server keeps the types.
LEMMA FieldSteps == FieldTypes /\ [FieldNext]_fieldVars => FieldTypes'
<1> SUFFICES ASSUME FieldTypes, [FieldNext]_fieldVars  PROVE FieldTypes'
  OBVIOUS
<1>1. CASE UNCHANGED fieldVars
  BY <1>1 DEF fieldVars, FieldTypes, HookOK, PropsOK, StateOK
<1>2. CASE FieldNext
  <2>1. CASE \/ \E d \in Editions : Activate(d)
             \/ \E props \in HostProps : HostChanges(props)
             \/ Render \/ RunEffect
    BY <2>1, HostSteps
  <2>2. CASE RunMicrotask  BY <2>2, MicrotaskStep
  <2>3. CASE User
    <3>1. ASSUME NEW i \in DOMAIN view.layers, NEW n \in view.layers[i].items, Choose(i, n)
          PROVE  FieldTypes'
      BY <3>1, ChooseStep
    <3>2. ASSUME NEW i \in DOMAIN view.layers, LoadMore(i) \/ RetryLayer(i)
          PROVE  FieldTypes'
      BY <3>2, MoreSteps
    <3> QED  BY <2>3, <3>1, <3>2, ClearStep, SearchSteps DEF User
  <2>4. ASSUME NEW c \in hook.calls, AnswerField(c) \/ FailField(c)  PROVE FieldTypes'
    BY <2>4, AnswerSteps, AnswerHitStep, AnswerLayerStep, FailStep DEF AnswerField
  <2> QED  BY <1>2, <2>1, <2>2, <2>3, <2>4 DEF FieldNext
<1> QED  BY <1>1, <1>2

\* What the types say of the state a render shows.
LEMMA TypesGiveLayers == FieldTypes => LayersFollowPath
<1> SUFFICES ASSUME FieldTypes  PROVE LayersFollowPath
  OBVIOUS
<1> DEFINE s == hook.state
           n == Len(s.path)
<1>1. StateOK(s) /\ s.generation = hook.generation  BY DEF FieldTypes, HookOK
<1> HIDE DEF s
<1>2. /\ n \in Nat /\ DOMAIN s.path = 1 .. n
      /\ s.layers = [i \in 1 .. n + 1 |-> s.layers[i]]
      /\ \A i \in 1 .. n + 1 : s.layers[i].parent = ParentAt(s.path, i)
      /\ \A i \in 1 .. n : s.path[i].level = i /\ s.path[i].parent = ParentAt(s.path, i)
  BY <1>1 DEF StateOK, PathOK, NodeBelow, LayersOK, IsLayer
<1>3. Len(s.layers) = n + 1
  <2> DEFINE m == n + 1
  <2>1. m \in Nat /\ s.layers = [i \in 1 .. m |-> s.layers[i]]  BY <1>2
  <2> HIDE DEF m
  <2>2. Len(s.layers) = m  BY <2>1, SeqOfItsValues
  <2> QED  BY <2>2 DEF m
<1>4. \A i \in 1 .. n : s.path[i].code = s.layers[i + 1].parent
  <2> SUFFICES ASSUME NEW i \in 1 .. n  PROVE s.path[i].code = s.layers[i + 1].parent
    OBVIOUS
  <2>1. i + 1 \in 1 .. n + 1 /\ i + 1 # 1 /\ (i + 1) - 1 = i  BY <1>2
  <2> QED  BY <1>2, <2>1 DEF ParentAt
<1>5. \A i \in 1 .. n : s.path[i].parent = s.layers[i].parent
  <2>1. \A i \in 1 .. n : i \in 1 .. n + 1  BY <1>2
  <2> QED  BY <1>2, <2>1
<1>6. \A i \in DOMAIN s.layers : \A x \in s.layers[i].items :
        x.level = i /\ x.parent = s.layers[i].parent
  <2> SUFFICES ASSUME NEW i \in DOMAIN s.layers, NEW x \in s.layers[i].items
               PROVE  x.level = i /\ x.parent = s.layers[i].parent
    OBVIOUS
  <2>1. i \in 1 .. n + 1  BY <1>2
  <2>2. IsLayer(s.layers[i], ParentAt(s.path, i), i)  BY <1>1, <2>1 DEF StateOK, LayersOK
  <2> QED  BY <2>2 DEF IsLayer, NodeBelow
<1> QED  BY <1>1, <1>2, <1>3, <1>4, <1>5, <1>6 DEF LayersFollowPath, s

\* The layers of the field hang below the path it shows and offer what is below their
\* parents, whatever the snapshots, the host, the answers and their order.
THEOREM FieldIsCoherent == FieldSpec => []LayersFollowPath
<1>1. FieldSpec => []FieldTypes  BY FieldStarts, FieldSteps, PTL DEF FieldSpec
<1> QED  BY <1>1, TypesGiveLayers, PTL

-----------------------------------------------------------------------------
(* What a field shows, and what it tells its host.                          *)
(*                                                                          *)
(* FieldInv speaks of a field that has come to rest, so what is proved by    *)
(* induction says of every moment what is still under way.  FieldMeans says  *)
(* what the state of the hook and each of its calls are about: the value the *)
(* host holds and one dataset, or something the next reconciliation drops.   *)
(* FieldShows says that a field in line with its host shows what it should,  *)
(* or has called for it: every layer that loads waits for a call that will   *)
(* be answered, and a path that is missing is asked for.                     *)
(*                                                                          *)
(* Both are about a host that holds values of the dataset the field shows    *)
(* and does not disable the field from onChange (SteadyHost).                *)

\* Below its province, each region of a path is below the one before it in a snapshot.
RealPath(d, path) ==
    \A i \in 2 .. Len(path) :
        /\ path[i].code \in DOMAIN Library[d]
        /\ Library[d][path[i].code].parent = path[i - 1].code

\* What layers show below the provinces is in a snapshot as they show it.
RealLayers(d, layers) ==
    \A i \in DOMAIN layers \ {1} : \A n \in layers[i].items :
        n.code \in DOMAIN Library[d] /\ Library[d][n.code].parent = n.parent

\* A value that the path to its last code is the whole of, if that code is there.
Genuine(v) ==
    v = None \/ (Last(v.codes) \in DOMAIN Library[v.dataset] =>
                    PathTo(Library[v.dataset], Last(v.codes)) = v.codes)

\* What a state shows is of its dataset, and nothing when there is no value; unless the
\* field has yet to be brought in line with its host.
StateMeans(s, unsettled) ==
    /\ s.dataset = None => s.path = <<>>
    /\ RealPath(s.dataset, s.path) /\ RealLayers(s.dataset, s.layers)
    /\ s.value = None => unsettled \/ s.path = <<>>

\* What a call of the current generation is about.
CallMeans(c, s, unsettled) ==
    /\ c.kind = "dataset" =>
         /\ ~ unsettled /\ c.asks.value = s.value
         /\ c.dataset = IF s.value = None THEN None ELSE s.value.dataset
    /\ c.kind = "path" =>
         /\ s.value # None /\ c.asks.code = Last(s.value.codes)
         /\ c.dataset = s.value.dataset /\ c.dataset = s.dataset
    /\ c.kind = "validate" =>
         \/ unsettled
         \/ /\ s.value # None /\ c.asks.codes = s.value.codes
            /\ c.dataset = s.value.dataset /\ c.asks.target = s.target
    /\ c.kind = "layer" =>
         /\ c.asks.level # 1 => c.dataset = s.dataset
         /\ s.value = None => unsettled \/ c.asks.level = 1
    /\ c.kind = "hit" =>
         /\ ~ unsettled /\ c.dataset = s.dataset /\ RealPath(c.dataset, c.asks.back)
         /\ s.value = None => c.asks.back = <<>>

\* A verdict the host was told is about the value it holds.
ToldMeans(told, s, unsettled) ==
    told # None /\ told.accepted =>
        \/ unsettled
        \/ /\ s.value # None
           /\ Verdict(Library[s.value.dataset], s.value.codes, s.target) \in Accepting

\* A call of the generation the hook is in: its answer is not ignored.
IsNow(h, c) == c \in h.calls /\ c.generation = h.generation

\* The calls are those of this generation and of earlier ones; each of this one has a meaning,
\* and one hit is followed up at a time, once the dataset is known.
CallsMean(h, unsettled) ==
    /\ IsFiniteSet(h.calls)
    /\ \A c \in h.calls : c.generation \in Nat /\ c.generation <= h.generation
    /\ \A c \in h.calls : IsNow(h, c) => CallMeans(c, h.state, unsettled)
    /\ \A b, c \in h.calls : IsNow(h, b) /\ IsNow(h, c) /\ b.kind = "hit" =>
         c.kind # "dataset" /\ (c.kind = "hit" => b = c)

\* No hit is being followed up.
NoHits(h) == \A c \in h.calls : IsNow(h, c) => c.kind # "hit"

\* The hook, while the field is brought in line with its host or after that.
HookMeans(h, unsettled) ==
    /\ h.generation \in Nat
    /\ CallsMean(h, unsettled)
    /\ StateMeans(h.state, unsettled)
    /\ ToldMeans(h.told, h.state, unsettled)

\* What the calls of a hook depend on in its state.
Subject(s) == <<s.value, s.target, s.dataset>>

\* Calls a hook of some generation may add to its own.
Asked(added, h, unsettled) ==
    /\ IsFiniteSet(added)
    /\ \A a \in added : /\ a.generation = h.generation /\ CallMeans(a, h.state, unsettled)
                        /\ a.kind # "hit" /\ (a.kind = "dataset" => NoHits(h))

\* What a call means depends on these of a state.
LEMMA SameSubject ==
  ASSUME NEW s, NEW t, Subject(s) = Subject(t), NEW u
  PROVE  /\ \A c : CallMeans(c, s, u) <=> CallMeans(c, t, u)
         /\ \A told : ToldMeans(told, s, u) <=> ToldMeans(told, t, u)
  BY DEF Subject, CallMeans, ToldMeans

\* A call that is aborted, or not, is about what it was about.
Copy(c, b, gone) ==
    /\ c = IF b \in gone THEN [b EXCEPT !.aborted = TRUE] ELSE b
    /\ c.kind = b.kind /\ c.generation = b.generation /\ c.dataset = b.dataset
    /\ c.asks = b.asks /\ c.request = b.request

\* Aborting a call leaves what it is about.
LEMMA AbortMeans ==
  ASSUME NEW asked, \A c \in asked : CallOK(c), NEW gone
  PROVE  \A c \in Abort(asked, gone) : \E b \in asked : Copy(c, b, gone)
<1> SUFFICES ASSUME NEW b \in asked,
                    NEW c, c = IF b \in gone THEN [b EXCEPT !.aborted = TRUE] ELSE b
             PROVE  Copy(c, b, gone)
  BY DEF Abort
<1>1. DOMAIN b = {"kind", "generation", "request", "dataset", "asks", "aborted"}
  BY DEF CallOK
<1> QED  BY <1>1 DEF Copy

\* So it means the same.
LEMMA CopyMeans ==
  ASSUME NEW c, NEW b, NEW gone, Copy(c, b, gone), NEW s, NEW u
  PROVE  CallMeans(c, s, u) <=> CallMeans(b, s, u)
  BY DEF Copy, CallMeans

\* There are as many of them at most.
LEMMA AbortIsFinite ==
  ASSUME NEW asked, IsFiniteSet(asked), NEW gone
  PROVE  IsFiniteSet(Abort(asked, gone))
<1> DEFINE f == [c \in asked |-> IF c \in gone THEN [c EXCEPT !.aborted = TRUE] ELSE c]
           T == Abort(asked, gone)
<1>1. f \in [asked -> T] /\ \A x \in T : \E c \in asked : f[c] = x  BY DEF Abort
<1> HIDE DEF f, T
<1>2. f \in Surjection(asked, T)  BY <1>1 DEF Surjection
<1>3. IsFiniteSet(T)  BY <1>2, FS_Surjection
<1> QED  BY <1>3 DEF T

\* Calls that are aborted, dropped or joined by another one, in one generation.
LEMMA CallsChange ==
  ASSUME NEW h, HookOK(h), NEW u, CallsMean(h, u),
         NEW s, Subject(s) = Subject(h.state), NEW gone, NEW added, NEW k,
         k.generation = h.generation, h.generation \in Nat, k.state = s,
         k.calls \subseteq Abort(h.calls, gone) \cup added, IsFiniteSet(added),
         \A a \in added : /\ a.generation = h.generation /\ CallMeans(a, s, u)
                          /\ a.kind # "hit"
                          /\ a.kind = "dataset" => NoHits(h)
  PROVE  CallsMean(k, u) /\ (NoHits(h) => NoHits(k))
<1>1. \A c \in h.calls : CallOK(c)  BY DEF HookOK
<1>2. \A c \in Abort(h.calls, gone) : \E b \in h.calls : Copy(c, b, gone)
  BY <1>1, AbortMeans
<1>3. \A c : CallMeans(c, s, u) <=> CallMeans(c, h.state, u)  BY SameSubject
<1>4. \A c \in k.calls : c.generation \in Nat /\ c.generation <= k.generation
  <2> SUFFICES ASSUME NEW c \in k.calls, c \notin added
               PROVE  c.generation \in Nat /\ c.generation <= k.generation
    OBVIOUS
  <2>1. PICK b \in h.calls : Copy(c, b, gone)  BY <1>2
  <2> QED  BY <2>1 DEF CallsMean, Copy
<1>5. \A c \in k.calls : IsNow(k, c) => CallMeans(c, k.state, u)
  <2> SUFFICES ASSUME NEW c \in k.calls, IsNow(k, c), c \notin added
               PROVE  CallMeans(c, s, u)
    OBVIOUS
  <2>1. PICK b \in h.calls : Copy(c, b, gone)  BY <1>2
  <2>2. IsNow(h, b)  BY <2>1 DEF Copy, IsNow
  <2>3. CallMeans(b, h.state, u)  BY <2>2 DEF CallsMean
  <2>4. CallMeans(b, s, u)  BY <2>3, <1>3
  <2> QED  BY <2>1, <2>4, CopyMeans
<1>6. ASSUME NEW b \in k.calls, NEW c \in k.calls, IsNow(k, b), IsNow(k, c), b.kind = "hit"
      PROVE  c.kind # "dataset" /\ (c.kind = "hit" => b = c)
  <2>1. PICK b0 \in h.calls : Copy(b, b0, gone)
    <3>1. b \in Abort(h.calls, gone)  BY <1>6
    <3> QED  BY <1>2, <3>1
  <2>4. b0.kind = "hit" /\ IsNow(h, b0)  BY <1>6, <2>1 DEF IsNow, Copy
  <2>2. CASE c \in added  BY <2>2, <2>4 DEF NoHits
  <2>3. CASE c \in Abort(h.calls, gone)
    <3>1. PICK c0 \in h.calls : Copy(c, c0, gone)  BY <1>2, <2>3
    <3>2. IsNow(h, c0)  BY <1>6, <3>1 DEF IsNow, Copy
    <3>3. c0.kind # "dataset" /\ (c0.kind = "hit" => b0 = c0)  BY <2>4, <3>2 DEF CallsMean
    <3> QED  BY <2>1, <3>1, <3>3 DEF Copy
  <2> QED  BY <2>2, <2>3
<1>7. NoHits(h) => NoHits(k)
  <2> SUFFICES ASSUME NoHits(h), NEW c \in k.calls, IsNow(k, c), c \notin added
               PROVE  c.kind # "hit"
    BY DEF NoHits
  <2>1. PICK b \in h.calls : Copy(c, b, gone)  BY <1>2
  <2> QED  BY <2>1 DEF Copy, IsNow, NoHits
<1>8. IsFiniteSet(k.calls)
  <2>1. IsFiniteSet(Abort(h.calls, gone))  BY AbortIsFinite DEF CallsMean
  <2>2. IsFiniteSet(Abort(h.calls, gone) \cup added)  BY <2>1, FS_Union
  <2> QED  BY <2>2, FS_Subset
<1> QED  BY <1>4, <1>5, <1>6, <1>7, <1>8 DEF CallsMean

\* After a new generation has begun only the calls added to it are current.
LEMMA CallsOfNewGeneration ==
  ASSUME NEW h, HookOK(h), NEW u, CallsMean(h, u), h.generation \in Nat,
         NEW gone, NEW k, k.generation = h.generation + 1, NEW v,
         k.calls \subseteq Abort(h.calls, gone)
  PROVE  /\ CallsMean(k, v)
         /\ \A c \in k.calls : ~ IsNow(k, c)
<1>1. \A c \in h.calls : CallOK(c)  BY DEF HookOK
<1>2. \A c \in k.calls : \E b \in h.calls : Copy(c, b, gone)
  BY <1>1, AbortMeans
<1>3. \A c \in k.calls : c.generation \in Nat /\ c.generation <= h.generation
  BY <1>2 DEF CallsMean, Copy
<1>4. \A c \in k.calls : ~ IsNow(k, c)  BY <1>3 DEF IsNow
<1>5. IsFiniteSet(k.calls)
  <2>1. IsFiniteSet(Abort(h.calls, gone))  BY AbortIsFinite DEF CallsMean
  <2> QED  BY <2>1, FS_Subset
<1> QED  BY <1>3, <1>4, <1>5 DEF CallsMean

-----------------------------------------------------------------------------
(* The reducer keeps what a field means.                                    *)

\* A path of at most one region is real.
LEMMA NoPathIsReal == \A d : RealPath(d, <<>>)
  BY DEF RealPath

\* Layers that show nothing are real.
LEMMA FreshLayersAreReal ==
  ASSUME NEW path, PathOK(path), NEW d
  PROVE  RealLayers(d, LayersFor(path))
<1> DEFINE l == LayersFor(path)
           n == Len(path)
<1>1. n \in Nat /\ DOMAIN path = 1 .. n /\ path \in Seq(Nodes)  BY DEF PathOK
<1>2. \A i \in DOMAIN l : l[i].items = {}
  <2> DEFINE tail == [i \in DOMAIN path |-> Layer(path[i].code)]
             T == {Layer(path[i].code) : i \in 1 .. n} \cup {Layer(Root)}
  <2>1. tail \in [1 .. n -> T]  BY <1>1
  <2>2. tail \in Seq(T) /\ <<Layer(Root)>> \in Seq(T)
    <3> HIDE DEF n
    <3>1. Layer(Root) \in T  OBVIOUS
    <3> HIDE DEF T, tail
    <3> QED  BY <1>1, <2>1, <3>1
  <2>3. \A x \in T : x.items = {}  BY DEF Layer
  <2>4. l = <<Layer(Root)>> \o tail  BY DEF LayersFor
  <2> HIDE DEF l, tail, T
  <2>5. l \in Seq(T)  BY <2>2, <2>4
  <2> QED  BY <2>3, <2>5
<1> HIDE DEF l
<1> QED  BY <1>2 DEF RealLayers, l

\* dispatchStart
LEMMA StartMeans ==
  ASSUME NEW s, StateOK(s), NEW g, NEW requests, NEW u, StateMeans(s, u)
  PROVE  LET t == DispatchStart(s, g, requests) IN
         StateMeans(t, u) /\ Subject(t) = Subject(s)
<1> DEFINE n == Len(s.path) + 1
           new == [i \in DOMAIN s.layers |-> IF i \in DOMAIN requests
                     THEN [s.layers[i] EXCEPT !.phase = "loading", !.request = requests[i]]
                     ELSE s.layers[i]]
           t == DispatchStart(s, g, requests)
<1>1. CASE g # s.generation  BY <1>1 DEF DispatchStart
<1>2. CASE g = s.generation
  <2>1. t = [s EXCEPT !.layers = new]  BY <1>2 DEF DispatchStart
  <2>2. \A i \in DOMAIN new : new[i].items = s.layers[i].items
    <3>1. \A i \in DOMAIN s.layers :
            DOMAIN s.layers[i] = {"parent", "items", "phase", "request", "next"}
      BY DEF StateOK, LayersOK, IsLayer
    <3> QED  BY <3>1
  <2>3. DOMAIN new = DOMAIN s.layers  OBVIOUS
  <2> HIDE DEF new, t
  <2>4. /\ t.layers = new /\ t.path = s.path /\ t.dataset = s.dataset /\ t.value = s.value
        /\ t.target = s.target
    BY <2>1 DEF StateOK, StateFields
  <2>5. RealLayers(t.dataset, t.layers)
    BY <2>2, <2>3, <2>4 DEF StateMeans, RealLayers
  <2>6. StateMeans(t, u) /\ Subject(t) = Subject(s)  BY <2>4, <2>5 DEF StateMeans, Subject
  <2> QED  BY <2>6 DEF t
<1> QED  BY <1>1, <1>2

\* dispatchFailed
LEMMA FailedMeans ==
  ASSUME NEW s, StateOK(s), NEW g, NEW i, NEW request, NEW u, StateMeans(s, u)
  PROVE  LET t == DispatchFailed(s, g, i, request) IN
         StateMeans(t, u) /\ Subject(t) = Subject(s)
<1> DEFINE t == DispatchFailed(s, g, i, request)
           layer == [s.layers[i] EXCEPT !.phase = "error"]
           new == [s.layers EXCEPT ![i] = layer]
<1>1. CASE ~ Awaited(s, g, i, request)  BY <1>1 DEF DispatchFailed
<1>2. CASE Awaited(s, g, i, request)
  <2>1. i \in DOMAIN s.layers  BY <1>2 DEF Awaited
  <2>2. /\ DOMAIN s = StateFields
        /\ DOMAIN s.layers[i] = {"parent", "items", "phase", "request", "next"}
    BY <2>1 DEF StateOK, LayersOK, IsLayer
  <2>3. t = [s EXCEPT !.layers = new]
    BY <1>2, <2>1, <2>2 DEF DispatchFailed, StateFields
  <2>4. DOMAIN new = DOMAIN s.layers /\ \A j \in DOMAIN new : new[j].items = s.layers[j].items
    BY <2>1, <2>2
  <2> HIDE DEF new, t
  <2>5. /\ t.layers = new /\ t.path = s.path /\ t.dataset = s.dataset /\ t.value = s.value
        /\ t.target = s.target
    BY <2>2, <2>3 DEF StateFields
  <2>6. RealLayers(t.dataset, t.layers)  BY <2>4, <2>5 DEF StateMeans, RealLayers
  <2>7. StateMeans(t, u) /\ Subject(t) = Subject(s)  BY <2>5, <2>6 DEF StateMeans, Subject
  <2> QED  BY <2>7 DEF t
<1> QED  BY <1>1, <1>2

\* dispatchLoaded: a page of the dataset the state is about, or of provinces.
LEMMA LoadedMeans ==
  ASSUME NEW s, StateOK(s), NEW g, NEW i, NEW request, NEW parent, NEW d, NEW answer,
         PageBelow(answer, d, parent), i # 1 => d = s.dataset, NEW u, StateMeans(s, u)
  PROVE  LET t == DispatchLoaded(s, g, i, request, parent, answer) IN
         StateMeans(t, u) /\ Subject(t) = Subject(s)
<1> DEFINE t == DispatchLoaded(s, g, i, request, parent, answer)
           old == s.layers[i]
           others == {n \in old.items : \A p \in answer.items : p.code # n.code}
           layer == [old EXCEPT !.items = answer.items \cup others,
                                !.phase = "loaded", !.next = answer.next]
           new == [s.layers EXCEPT ![i] = layer]
<1>1. CASE ~ (Awaited(s, g, i, request) /\ s.layers[i].parent = parent)
  BY <1>1 DEF DispatchLoaded
<1>2. CASE Awaited(s, g, i, request) /\ s.layers[i].parent = parent
  <2>1. i \in DOMAIN s.layers  BY <1>2 DEF Awaited
  <2>2. /\ DOMAIN s = StateFields
        /\ DOMAIN s.layers[i] = {"parent", "items", "phase", "request", "next"}
    BY <2>1 DEF StateOK, LayersOK, IsLayer
  <2>3. t = [s EXCEPT !.layers = new]
    BY <1>2, <2>1, <2>2 DEF DispatchLoaded, StateFields
  <2>4. layer.items = answer.items \cup others  BY <2>2
  <2> HIDE DEF layer
  <2>5. DOMAIN new = DOMAIN s.layers /\ \A j \in DOMAIN new :
          new[j].items = IF j = i THEN answer.items \cup others ELSE s.layers[j].items
    BY <2>1, <2>4
  <2> HIDE DEF new, t
  <2>6. /\ t.layers = new /\ t.path = s.path /\ t.dataset = s.dataset /\ t.value = s.value
        /\ t.target = s.target
    BY <2>2, <2>3 DEF StateFields
  <2>7. \A n \in answer.items :
          n.code \in DOMAIN Library[d] /\ Library[d][n.code].parent = n.parent
    BY DEF PageBelow, ChildrenOf, Summary
  <2>8. RealLayers(s.dataset, new)
    <3> SUFFICES ASSUME NEW j \in DOMAIN new \ {1}, NEW n \in new[j].items
                 PROVE  /\ n.code \in DOMAIN Library[s.dataset]
                        /\ Library[s.dataset][n.code].parent = n.parent
      BY DEF RealLayers
    <3>1. j \in DOMAIN s.layers \ {1}  BY <2>5
    <3>2. n \in s.layers[j].items \/ (j = i /\ n \in answer.items)  BY <2>5
    <3> QED  BY <2>7, <3>1, <3>2 DEF StateMeans, RealLayers
  <2>9. StateMeans(t, u) /\ Subject(t) = Subject(s)  BY <2>6, <2>8 DEF StateMeans, Subject
  <2> QED  BY <2>9 DEF t
<1> QED  BY <1>1, <1>2

\* dispatchHydrate
LEMMA HydratedMeans ==
  ASSUME NEW s, StateOK(s), NEW path, PathOK(path), NEW u,
         RealPath(s.dataset, path), s.dataset = None => path = <<>>,
         s.value = None => u \/ path = <<>>
  PROVE  LET t == DispatchHydrate(s, s.generation, path) IN
         StateMeans(t, u) /\ Subject(t) = Subject(s) /\ t.path = path
         /\ t.layers = LayersFor(path)
<1> DEFINE l == LayersFor(path)
           t == DispatchHydrate(s, s.generation, path)
<1>1. RealLayers(s.dataset, l)  BY FreshLayersAreReal
<1> HIDE DEF l
<1>2. t = [s EXCEPT !.path = path, !.layers = l, !.status = None]
  BY DEF DispatchHydrate, l
<1> HIDE DEF t
<1>3. /\ t.layers = l /\ t.path = path /\ t.dataset = s.dataset /\ t.value = s.value
      /\ t.target = s.target
  BY <1>2 DEF StateOK, StateFields
<1>4. StateMeans(t, u) /\ Subject(t) = Subject(s)  BY <1>1, <1>3 DEF StateMeans, Subject
<1> QED  BY <1>3, <1>4 DEF t, l

\* dispatchClear
LEMMA ClearMeans ==
  ASSUME NEW s, StateOK(s), NEW u
  PROVE  LET t == DispatchClear(s) IN
         /\ StateMeans(t, u) /\ Subject(t) = Subject(s) /\ t.path = <<>>
         /\ t.layers = LayersFor(<<>>)
<1> DEFINE l == LayersFor(<<>>)
           t == DispatchClear(s)
<1>1. RealLayers(s.dataset, l)  BY FreshLayersAreReal, EmptyPath
<1> HIDE DEF l
<1>2. t = [s EXCEPT !.generation = @ + 1, !.path = <<>>, !.layers = l, !.status = None]
  BY DEF DispatchClear, l
<1> HIDE DEF t
<1>3. /\ t.layers = l /\ t.path = <<>> /\ t.dataset = s.dataset /\ t.value = s.value
      /\ t.target = s.target
  BY <1>2 DEF StateOK, StateFields
<1>4. StateMeans(t, u) /\ Subject(t) = Subject(s)
  BY <1>1, <1>3, NoPathIsReal DEF StateMeans, Subject
<1> QED  BY <1>3, <1>4 DEF t, l

\* dispatchProps: a value that is taken away takes its path along.
LEMMA PropsMean ==
  ASSUME NEW s, StateOK(s), NEW props, NEW u,
         StateMeans(s, u), props.value = None => s.value # None \/ s.path = <<>>
  PROVE  LET t == DispatchProps(s, props) IN
         /\ StateMeans(t, FALSE) /\ t.dataset = s.dataset
         /\ t.value = props.value /\ t.target = props.target
<1> DEFINE l == LayersFor(<<>>)
           t == DispatchProps(s, props)
           emptied == props.value = None /\ s.value # None
<1>1. RealLayers(s.dataset, l)  BY FreshLayersAreReal, EmptyPath
<1> HIDE DEF l
<1>2. t =
        [s EXCEPT !.generation = @ + 1, !.status = None, !.disabled = props.disabled,
                  !.target = props.target, !.value = props.value,
                  !.path = IF emptied THEN <<>> ELSE @, !.layers = IF emptied THEN l ELSE @]
  BY DEF DispatchProps, l
<1> HIDE DEF t
<1>3. /\ t.dataset = s.dataset /\ t.value = props.value /\ t.target = props.target
      /\ t.path = (IF emptied THEN <<>> ELSE s.path)
      /\ t.layers = (IF emptied THEN l ELSE s.layers)
  BY <1>2 DEF StateOK, StateFields
<1>4. StateMeans(t, FALSE)
  BY <1>1, <1>3, NoPathIsReal DEF StateMeans
<1> QED  BY <1>3, <1>4 DEF t

\* A region of a layer below the path continues the path.
LEMMA ChoiceIsReal ==
  ASSUME NEW s, StateOK(s), NEW u, StateMeans(s, u),
         NEW l \in DOMAIN s.layers, NEW node \in s.layers[l].items
  PROVE  RealPath(s.dataset, PathWith(s.path, node))
<1> DEFINE p == PathWith(s.path, node)
<1>1. /\ node.level = l /\ PathOK(p) /\ Len(p) = l /\ p[l] = node
      /\ \A i \in 1 .. l - 1 : p[i] = s.path[i]
  BY PathWithFacts
<1>2. l \in 1 .. Len(s.path) + 1 /\ Len(s.path) \in Nat /\ l \in Nat
  <2>1. l \in 1 .. Len(s.path) + 1 /\ Len(s.path) \in Nat  BY ParentOfLayer
  <2> QED  BY <2>1
<1> HIDE DEF p
<1>3. SUFFICES ASSUME NEW i \in 2 .. l
               PROVE  /\ p[i].code \in DOMAIN Library[s.dataset]
                      /\ Library[s.dataset][p[i].code].parent = p[i - 1].code
  BY <1>1 DEF RealPath, p
<1>4. CASE i = l
  <2>1. l \in DOMAIN s.layers \ {1}  BY <1>2, <1>4
  <2>2. node.code \in DOMAIN Library[s.dataset] /\ Library[s.dataset][node.code].parent = node.parent
    BY <2>1 DEF StateMeans, RealLayers
  <2>3. p[l].parent = ParentAt(p, l)  BY <1>1, <1>2 DEF PathOK, NodeBelow
  <2>4. l # 1  BY <1>4, <1>2
  <2> QED  BY <1>1, <1>4, <2>2, <2>3, <2>4 DEF ParentAt
<1>5. CASE i # l
  <2>1. i \in 2 .. Len(s.path) /\ i \in 1 .. l - 1 /\ i - 1 \in 1 .. l - 1  BY <1>2, <1>5
  <2> QED  BY <1>1, <2>1 DEF StateMeans, RealPath
<1> QED  BY <1>4, <1>5

\* dispatchChoose
LEMMA ChooseMeans ==
  ASSUME NEW s, StateOK(s), NEW u, StateMeans(s, u), s.dataset # None,
         NEW l \in DOMAIN s.layers, NEW node \in s.layers[l].items
  PROVE  LET t == DispatchChoose(s, node) IN
         StateMeans(t, TRUE) /\ Subject(t) = Subject(s)
<1> DEFINE p == PathWith(s.path, node)
           new == LayersAfterChoose(s, p, node)
           t == DispatchChoose(s, node)
           pa(i) == IF i = 1 \/ i - 1 >= Len(p) THEN Root ELSE p[i - 1].code
           retained(i) == IF i \in DOMAIN s.layers /\ s.layers[i].parent = pa(i)
                          THEN s.layers[i] ELSE Layer(pa(i))
           kept == [i \in 1 .. node.level |-> retained(i)]
<1>1. RealPath(s.dataset, p)  BY ChoiceIsReal
<1>2. node.level = l /\ l \in Nat
  <2>1. l \in 1 .. Len(s.path) + 1 /\ Len(s.path) \in Nat  BY ParentOfLayer
  <2>2. node.level = l  BY PathWithFacts
  <2> QED  BY <2>1, <2>2
<1> HIDE DEF p
<1>3. new = Append(kept, Layer(node.code))  BY DEF LayersAfterChoose
<1>4. \A i : retained(i).items = {} \/ (i \in DOMAIN s.layers /\ retained(i) = s.layers[i])
  BY DEF Layer
<1>5. kept = [i \in 1 .. l |-> retained(i)]  BY <1>2
<1> HIDE DEF retained
<1> DEFINE T == {retained(i) : i \in 1 .. l} \cup {Layer(node.code)}
<1>6. kept \in Seq(T) /\ Len(kept) = l /\ (\A i \in 1 .. l : kept[i] = retained(i))
  <2>1. kept \in [1 .. l -> T]  BY <1>5
  <2> QED  BY <1>2, <1>5, <2>1
<1>7. Layer(node.code) \in T /\ Layer(node.code).items = {}  BY DEF Layer
<1> HIDE DEF T, kept, new
<1>8. /\ DOMAIN new = 1 .. l + 1 /\ new[l + 1] = Layer(node.code)
      /\ \A i \in 1 .. l : new[i] = retained(i)
  BY <1>2, <1>3, <1>6, <1>7
<1>9. RealLayers(s.dataset, new)
  <2> SUFFICES ASSUME NEW i \in DOMAIN new \ {1}, NEW n \in new[i].items
               PROVE  n.code \in DOMAIN Library[s.dataset] /\ Library[s.dataset][n.code].parent = n.parent
    BY DEF RealLayers
  <2>1. i \in 1 .. l  BY <1>2, <1>7, <1>8
  <2>2. i \in DOMAIN s.layers /\ n \in s.layers[i].items  BY <1>4, <1>8, <2>1
  <2> QED  BY <2>2 DEF StateMeans, RealLayers
<1>10. t = [s EXCEPT !.generation = @ + 1, !.path = p, !.status = None, !.layers = new]
  BY DEF DispatchChoose, p, new
<1> HIDE DEF t
<1>11. /\ t.layers = new /\ t.path = p /\ t.dataset = s.dataset /\ t.value = s.value
       /\ t.target = s.target
  BY <1>10 DEF StateOK, StateFields
<1>12. StateMeans(t, TRUE) /\ Subject(t) = Subject(s)
  BY <1>1, <1>9, <1>11 DEF StateMeans, Subject
<1> QED  BY <1>12 DEF t

-----------------------------------------------------------------------------
(* The hook keeps what a field means.                                       *)

\* Nothing is aborted.
LEMMA AbortNone == \A asked : Abort(asked, {}) = asked
  BY DEF Abort

\* The calls, the state and what was told, of a hook of the same generation.
LEMMA HookChange ==
  ASSUME NEW h, HookOK(h), NEW u \in BOOLEAN, HookMeans(h, u),
         NEW k, k.generation = h.generation,
         StateMeans(k.state, u), Subject(k.state) = Subject(h.state),
         k.told = h.told \/ k.told = None, NEW gone, NEW added,
         k.calls \subseteq Abort(h.calls, gone) \cup added, Asked(added, h, u)
  PROVE  HookMeans(k, u) /\ (NoHits(h) => NoHits(k))
<1>1. \A a \in added : CallMeans(a, k.state, u)  BY SameSubject DEF Asked
<1>2. CallsMean(k, u) /\ (NoHits(h) => NoHits(k))
  <2> DEFINE s == k.state
  <2>1. Subject(s) = Subject(h.state) /\ k.state = s  OBVIOUS
  <2> HIDE DEF s
  <2>2. CallsMean(h, u) /\ h.generation \in Nat  BY DEF HookMeans
  <2> QED  BY <1>1, <2>1, <2>2, CallsChange DEF Asked
<1>3. ToldMeans(k.told, k.state, u)
  <2>1. ToldMeans(h.told, h.state, u)  BY DEF HookMeans
  <2>2. ToldMeans(h.told, k.state, u)  BY <2>1, SameSubject
  <2>3. ToldMeans(None, k.state, u)  BY DEF ToldMeans
  <2> QED  BY <2>2, <2>3
<1> QED  BY <1>2, <1>3 DEF HookMeans

\* load
LEMMA LoadMeans ==
  ASSUME NEW h, HookOK(h), NEW u \in BOOLEAN, HookMeans(h, u), NEW parents, NEW d, NEW cursor,
         IsFiniteSet(DOMAIN parents),
         \A i \in DOMAIN parents : /\ i # 1 => d = h.state.dataset
                                   /\ h.state.value = None => u \/ i = 1
  PROVE  LET k == Load(h, parents, d, cursor) IN
         /\ HookMeans(k, u) /\ k.generation = h.generation
         /\ Subject(k.state) = Subject(h.state) /\ (NoHits(h) => NoHits(k))
<1> DEFINE levels == DOMAIN parents
           requests == [i \in levels |-> FreshRequests(h, Cardinality({j \in levels : j <= i}))]
           call(i) == NewCall("layer", h.generation, requests[i], d,
                        [level |-> i, parent |-> parents[i], cursor |-> cursor])
           s == DispatchStart(h.state, h.generation, requests)
           gone == {c \in h.calls : c.kind = "layer" /\ c.asks.level \in levels}
           added == {call(i) : i \in levels}
           asked == Abort(h.calls, gone) \cup added
           k == Load(h, parents, d, cursor)
<1>1. k = [h EXCEPT !.state = s, !.calls = asked]  BY DEF Load
<1>2. StateMeans(s, u) /\ Subject(s) = Subject(h.state)
  <2> HIDE DEF requests
  <2> QED  BY StartMeans DEF HookOK, HookMeans
<1>3. \A a \in added : a.generation = h.generation /\ CallMeans(a, h.state, u) /\ a.kind = "layer"
  <2> SUFFICES ASSUME NEW i \in levels
               PROVE  LET a == call(i) IN
                      a.generation = h.generation /\ CallMeans(a, h.state, u) /\ a.kind = "layer"
    OBVIOUS
  <2> DEFINE a == call(i)
  <2> HIDE DEF requests
  <2>1. /\ a.kind = "layer" /\ a.generation = h.generation /\ a.dataset = d
        /\ a.asks.level = i
    BY DEF NewCall
  <2> HIDE DEF a
  <2>2. CallMeans(a, h.state, u)  BY <2>1 DEF CallMeans
  <2> QED  BY <2>1, <2>2 DEF a
<1>6. IsFiniteSet(added)
  <2> DEFINE f == [i \in levels |-> call(i)]
  <2>1. f \in [levels -> added] /\ \A x \in added : \E i \in levels : f[i] = x  OBVIOUS
  <2> HIDE DEF f, added
  <2>2. f \in Surjection(levels, added)  BY <2>1 DEF Surjection
  <2> QED  BY <2>2, FS_Surjection
<1> HIDE DEF s, added, gone, k
<1>4. /\ k.state = s /\ k.calls = asked /\ k.generation = h.generation /\ k.told = h.told
  BY <1>1 DEF HookOK
<1> HIDE DEF asked
<1>5. HookMeans(k, u) /\ (NoHits(h) => NoHits(k))
  <2>1. k.calls \subseteq Abort(h.calls, gone) \cup added  BY <1>4 DEF asked
  <2>2. Asked(added, h, u)  BY <1>3, <1>6 DEF Asked
  <2> QED  BY <1>2, <1>4, <2>1, <2>2, HookChange
<1> QED  BY <1>2, <1>4, <1>5 DEF k

\* loadLayer
LEMMA LoadLayerMeans ==
  ASSUME NEW h, HookOK(h), NEW u \in BOOLEAN, HookMeans(h, u), NEW i, NEW parent, NEW d, NEW cursor,
         i # 1 => d = h.state.dataset, h.state.value = None => u \/ i = 1
  PROVE  LET k == LoadLayer(h, i, parent, d, cursor) IN
         /\ HookMeans(k, u) /\ k.generation = h.generation
         /\ Subject(k.state) = Subject(h.state) /\ (NoHits(h) => NoHits(k))
<1> DEFINE parents == [j \in {i} |-> parent]
<1>1. LoadLayer(h, i, parent, d, cursor) = Load(h, parents, d, cursor)
  BY DEF LoadLayer
<1>2. DOMAIN parents = {i}  OBVIOUS
<1>3. IsFiniteSet(DOMAIN parents)  BY <1>2, FS_Singleton
<1> HIDE DEF parents
<1> QED  BY <1>1, <1>2, <1>3, LoadMeans

\* validate
LEMMA ValidateMeans ==
  ASSUME NEW h, HookOK(h), NEW u \in BOOLEAN, HookMeans(h, u), NEW d, NEW path,
         \/ u
         \/ /\ h.state.value # None /\ CodesOf(path) = h.state.value.codes
            /\ d = h.state.value.dataset
  PROVE  LET k == Validate(h, d, path) IN
         /\ HookMeans(k, u) /\ k.generation = h.generation /\ k.state = h.state
         /\ (NoHits(h) => NoHits(k))
<1> DEFINE codes == CodesOf(path)
           asks == [codes |-> codes, target |-> h.state.target]
           c == NewCall("validate", h.generation, 0, d, asks)
           gone == {x \in h.calls : x.kind = "validate"}
           asked == Abort(h.calls, gone) \cup {c}
           k == Validate(h, d, path)
<1>1. k = [h EXCEPT !.calls = asked]  BY DEF Validate
<1>2. c.generation = h.generation /\ CallMeans(c, h.state, u) /\ c.kind = "validate"
  <2> HIDE DEF codes
  <2>1. /\ c.kind = "validate" /\ c.generation = h.generation /\ c.dataset = d
        /\ c.asks.codes = codes /\ c.asks.target = h.state.target
    BY DEF NewCall
  <2> HIDE DEF c
  <2>2. CallMeans(c, h.state, u)  BY <2>1 DEF CallMeans, codes
  <2> QED  BY <2>1, <2>2
<1> HIDE DEF c, k
<1>3. /\ k.state = h.state /\ k.calls = asked /\ k.generation = h.generation /\ k.told = h.told
  BY <1>1 DEF HookOK
<1>4. HookMeans(k, u) /\ (NoHits(h) => NoHits(k))
  <2> DEFINE added == {c}
  <2>1. \A a \in added : a.generation = h.generation /\ CallMeans(a, h.state, u) /\ a.kind = "validate"
    BY <1>2
  <2>2. k.calls \subseteq Abort(h.calls, gone) \cup added  BY <1>3
  <2>3. StateMeans(k.state, u) /\ Subject(k.state) = Subject(h.state)  BY <1>3 DEF HookMeans
  <2>4. IsFiniteSet(added)  BY FS_Singleton
  <2> HIDE DEF added, gone
  <2>5. Asked(added, h, u)  BY <2>1, <2>4 DEF Asked
  <2> QED  BY <1>3, <2>2, <2>3, <2>5, HookChange
<1> QED  BY <1>3, <1>4 DEF k

\* The root layer is started, with one call more.
RootCall(h, r, gone, c) ==
    [h EXCEPT !.state = DispatchStart(@, h.generation, [i \in {1} |-> r]),
              !.calls = Abort(@, gone) \cup {c}]

\* It keeps what the hook means.
LEMMA RootCallMeans ==
  ASSUME NEW h, HookOK(h), NEW u \in BOOLEAN, HookMeans(h, u), NEW r, NEW gone, NEW c,
         c.generation = h.generation, CallMeans(c, h.state, u), c.kind # "hit",
         c.kind = "dataset" => NoHits(h),
         NEW k, k = RootCall(h, r, gone, c)
  PROVE  /\ HookMeans(k, u) /\ k.generation = h.generation
         /\ Subject(k.state) = Subject(h.state) /\ (NoHits(h) => NoHits(k))
<1> DEFINE requests == [i \in {1} |-> r]
           s == DispatchStart(h.state, h.generation, requests)
           added == {c}
           asked == Abort(h.calls, gone) \cup added
<1>1. StateMeans(s, u) /\ Subject(s) = Subject(h.state)
  <2> HIDE DEF requests
  <2> QED  BY StartMeans DEF HookOK, HookMeans
<1>2. k = [h EXCEPT !.state = s, !.calls = asked]  BY DEF RootCall
<1>3. \A a \in added : /\ a.generation = h.generation /\ CallMeans(a, h.state, u)
                       /\ a.kind # "hit"
                       /\ a.kind = "dataset" => NoHits(h)
  OBVIOUS
<1>7. IsFiniteSet(added)  BY FS_Singleton
<1> HIDE DEF s, added
<1>4. /\ k.state = s /\ k.calls = asked /\ k.generation = h.generation /\ k.told = h.told
  BY <1>2 DEF HookOK
<1> HIDE DEF asked
<1>5. k.calls \subseteq Abort(h.calls, gone) \cup added  BY <1>4 DEF asked
<1>6. HookMeans(k, u) /\ (NoHits(h) => NoHits(k))
  <2>1. Asked(added, h, u)  BY <1>3, <1>7 DEF Asked
  <2>2. StateMeans(k.state, u) /\ Subject(k.state) = Subject(h.state)  BY <1>1, <1>4
  <2> QED  BY <1>4, <1>5, <2>1, <2>2, HookChange
<1> QED  BY <1>1, <1>4, <1>6

\* hydrateValue
LEMMA HydrateValueMeans ==
  ASSUME NEW h, HookOK(h), NEW u \in BOOLEAN, HookMeans(h, u), NEW value, value # None,
         value = h.state.value, value.dataset = h.state.dataset
  PROVE  LET k == HydrateValue(h, value.dataset, value) IN
         /\ HookMeans(k, u) /\ k.generation = h.generation
         /\ Subject(k.state) = Subject(h.state) /\ (NoHits(h) => NoHits(k))
<1> DEFINE r == FreshRequest(h)
           gone == {c \in h.calls : c.kind \in {"path", "hit"}}
           last == Last(value.codes)
           c == NewCall("path", h.generation, r, value.dataset, [code |-> last])
           k == HydrateValue(h, value.dataset, value)
<1>1. c.generation = h.generation /\ CallMeans(c, h.state, u) /\ c.kind = "path"
  <2> HIDE DEF r, last
  <2>1. /\ c.kind = "path" /\ c.generation = h.generation /\ c.dataset = value.dataset
        /\ c.asks.code = last
    BY DEF NewCall
  <2> HIDE DEF c
  <2>2. CallMeans(c, h.state, u)  BY <2>1 DEF CallMeans, last
  <2> QED  BY <2>1, <2>2
<1>2. k = RootCall(h, r, gone, c)  BY DEF HydrateValue, RootCall
<1> HIDE DEF r, gone, c, k
<1>3. /\ HookMeans(k, u) /\ k.generation = h.generation /\ Subject(k.state) = Subject(h.state)
      /\ (NoHits(h) => NoHits(k))
  BY <1>1, <1>2, RootCallMeans
<1> QED  BY <1>3 DEF k

\* bootstrap
LEMMA BootstrapMeans ==
  ASSUME NEW h, HookOK(h), HookMeans(h, FALSE), NEW value, value = h.state.value, NoHits(h)
  PROVE  LET k == Bootstrap(h, value) IN
         /\ HookMeans(k, FALSE) /\ k.generation = h.generation
         /\ Subject(k.state) = Subject(h.state) /\ (NoHits(h) => NoHits(k))
<1> DEFINE r == FreshRequest(h)
           gone == {c \in h.calls : c.kind = "dataset"}
           d == IF value = None THEN None ELSE value.dataset
           c == NewCall("dataset", h.generation, r, d, [value |-> value])
           k == Bootstrap(h, value)
<1>1. c.generation = h.generation /\ CallMeans(c, h.state, FALSE) /\ c.kind = "dataset"
  <2> HIDE DEF r, d
  <2>1. /\ c.kind = "dataset" /\ c.generation = h.generation /\ c.dataset = d
        /\ c.asks.value = value
    BY DEF NewCall
  <2> HIDE DEF c
  <2>2. CallMeans(c, h.state, FALSE)  BY <2>1 DEF CallMeans, d
  <2> QED  BY <2>1, <2>2
<1>2. k = RootCall(h, r, gone, c)  BY DEF Bootstrap, RootCall
<1> HIDE DEF r, gone, c, k
<1>3. /\ HookMeans(k, FALSE) /\ k.generation = h.generation /\ Subject(k.state) = Subject(h.state)
      /\ (NoHits(h) => NoHits(k))
  <2>1. PICK u \in BOOLEAN : u = FALSE  OBVIOUS
  <2>2. HookMeans(h, u) /\ CallMeans(c, h.state, u)  BY <1>1, <2>1
  <2>3. c.kind # "hit" /\ c.generation = h.generation  BY <1>1
  <2>4. /\ HookMeans(k, u) /\ k.generation = h.generation /\ Subject(k.state) = Subject(h.state)
        /\ (NoHits(h) => NoHits(k))
    BY <1>2, <2>2, <2>3, RootCallMeans
  <2> QED  BY <2>1, <2>4
<1> QED  BY <1>3 DEF k

\* failRoot
LEMMA FailRootMeans ==
  ASSUME NEW h, HookOK(h), NEW u \in BOOLEAN, HookMeans(h, u), NEW path, PathOK(path),
         RealPath(h.state.dataset, path), h.state.dataset = None => path = <<>>,
         h.state.value = None => u \/ path = <<>>
  PROVE  LET k == FailRoot(h, path) IN
         /\ HookMeans(k, u) /\ k.generation = h.generation
         /\ Subject(k.state) = Subject(h.state) /\ k.calls = h.calls
<1> DEFINE r == FreshRequest(h)
           requests == [i \in {1} |-> r]
           hydrated == DispatchHydrate(h.state, h.generation, path)
           started == DispatchStart(hydrated, h.generation, requests)
           s == DispatchFailed(started, h.generation, 1, r)
           k == FailRoot(h, path)
<1>1. k = [h EXCEPT !.told = None, !.state = s]  BY DEF FailRoot
<1> HIDE DEF r, requests
<1>2. /\ StateOK(hydrated) /\ hydrated.generation = h.generation
      /\ StateMeans(hydrated, u) /\ Subject(hydrated) = Subject(h.state)
  <2>1. StateOK(h.state) /\ h.state.generation = h.generation /\ StateMeans(h.state, u)
    BY DEF HookOK, HookMeans
  <2>2. StateOK(hydrated) /\ hydrated.generation = h.generation  BY <2>1, HydratedState
  <2>3. StateMeans(hydrated, u) /\ Subject(hydrated) = Subject(h.state)
    <3> DEFINE s0 == h.state
    <3>1. hydrated = DispatchHydrate(s0, s0.generation, path)  BY <2>1
    <3>2. StateOK(s0) /\ StateMeans(s0, u) /\ RealPath(s0.dataset, path)
      BY <2>1
    <3>3. (s0.dataset = None => path = <<>>) /\ (s0.value = None => u \/ path = <<>>)
      OBVIOUS
    <3> HIDE DEF s0
    <3>4. StateMeans(DispatchHydrate(s0, s0.generation, path), u)
          /\ Subject(DispatchHydrate(s0, s0.generation, path)) = Subject(s0)
      BY <3>2, <3>3, HydratedMeans
    <3> QED  BY <3>1, <3>4 DEF s0
  <2> QED  BY <2>2, <2>3
<1> HIDE DEF hydrated
<1>3. /\ StateOK(started) /\ StateMeans(started, u) /\ Subject(started) = Subject(h.state)
  BY <1>2, StartKeeps, StartMeans
<1> HIDE DEF started
<1>4. StateMeans(s, u) /\ Subject(s) = Subject(h.state)  BY <1>3, FailedMeans
<1> HIDE DEF s, k
<1>5. /\ k.state = s /\ k.calls = h.calls /\ k.generation = h.generation /\ k.told = None
  BY <1>1 DEF HookOK
<1>6. HookMeans(k, u)
  <2> DEFINE none == {}
  <2>1. k.calls \subseteq Abort(h.calls, none) \cup none  BY <1>5, AbortNone
  <2>2. Asked(none, h, u)  BY FS_EmptySet DEF Asked
  <2> HIDE DEF none
  <2> QED  BY <1>4, <1>5, <2>1, <2>2, HookChange
<1> QED  BY <1>4, <1>5, <1>6 DEF k

\* A hook of which only calls have ended.
LEMMA FewerCalls ==
  ASSUME NEW h, HookOK(h), NEW u \in BOOLEAN, HookMeans(h, u), NEW k,
         k.generation = h.generation, k.state = h.state, k.told = h.told \/ k.told = None,
         k.calls \subseteq h.calls
  PROVE  HookMeans(k, u) /\ (NoHits(h) => NoHits(k))
<1> DEFINE none == {}
<1>1. k.calls \subseteq Abort(h.calls, none) \cup none  BY AbortNone
<1>2. Asked(none, h, u)  BY FS_EmptySet DEF Asked
<1> HIDE DEF none
<1>3. StateMeans(k.state, u) /\ Subject(k.state) = Subject(h.state)  BY DEF HookMeans
<1> QED  BY <1>1, <1>2, <1>3, HookChange

\* What becomes of a hook.
LEMMA BecomesMeans ==
  ASSUME NEW h, HookOK(h), NEW u \in BOOLEAN, HookMeans(h, u), Becomes(h)
  PROVE  /\ HookMeans(hook', u)
         /\ hook'.state = h.state /\ hook'.generation = h.generation /\ hook'.told = h.told
         /\ hook'.calls \subseteq h.calls /\ (NoHits(h) => NoHits(hook'))
<1>1. /\ hook'.state = h.state /\ hook'.generation = h.generation /\ hook'.told = h.told
      /\ hook'.calls \subseteq h.calls
  BY DEF Becomes, HookOK
<1> DEFINE k == hook'
<1> HIDE DEF k
<1>2. /\ k.state = h.state /\ k.generation = h.generation /\ k.told = h.told
      /\ k.calls \subseteq h.calls
  BY <1>1 DEF k
<1>3. HookMeans(k, u) /\ (NoHits(h) => NoHits(k))  BY <1>2, FewerCalls
<1> QED  BY <1>1, <1>3 DEF k

\* A generation that begins.
LEMMA GenerationMeans ==
  ASSUME NEW h, HookOK(h), NEW v, HookMeans(h, v), NEW u,
         NEW s, StateMeans(s, u), s.generation = h.generation + 1
  PROVE  LET k == [NextGeneration(h) EXCEPT !.state = s, !.told = None] IN
         /\ HookMeans(k, u) /\ k.state = s /\ k.generation = h.generation + 1
         /\ \A c \in k.calls : ~ IsNow(k, c)
         /\ NoHits(k)
<1> DEFINE up == [h EXCEPT !.generation = @ + 1]
           gone == {c \in up.calls : c.kind # "search"}
           asked == Abort(up.calls, gone)
           k == [NextGeneration(h) EXCEPT !.state = s, !.told = None]
<1>1. NextGeneration(h) = [up EXCEPT !.calls = asked]  BY DEF NextGeneration, AbortAll
<1>2. up.calls = h.calls /\ DOMAIN up = {"state", "generation", "calls", "told"}
      /\ up.generation = h.generation + 1
  BY DEF HookOK
<1> HIDE DEF up, gone, asked
<1>3. /\ k.state = s /\ k.told = None /\ k.generation = h.generation + 1 /\ k.calls = asked
  BY <1>1, <1>2
<1>4. asked = Abort(h.calls, gone)  BY <1>2 DEF asked
<1> HIDE DEF k
<1>5. CallsMean(h, v) /\ h.generation \in Nat  BY DEF HookMeans
<1>6. CallsMean(k, u) /\ \A c \in k.calls : ~ IsNow(k, c)
  BY <1>3, <1>4, <1>5, CallsOfNewGeneration
<1>7. HookMeans(k, u)  BY <1>3, <1>5, <1>6 DEF HookMeans, ToldMeans
<1> QED  BY <1>3, <1>6, <1>7 DEF k, NoHits

\* The answer to a path.
LEMMA PathFoundMeans ==
  ASSUME NEW h, HookOK(h), NEW u \in BOOLEAN, HookMeans(h, u), NEW d \in Editions,
         d = h.state.dataset, NEW path, PathOK(path), RealPath(d, path),
         \/ u
         \/ /\ h.state.value # None /\ CodesOf(path) = h.state.value.codes
            /\ d = h.state.value.dataset
  PROVE  LET k == Hydrated(h, d, path) IN
         /\ HookMeans(k, u) /\ k.generation = h.generation
         /\ Subject(k.state) = Subject(h.state) /\ (NoHits(h) => NoHits(k))
<1> DEFINE s == DispatchHydrate(h.state, h.generation, path)
           a == [h EXCEPT !.state = s]
           b == Validate(a, d, path)
           parents == Parents(path)
           k == Hydrated(h, d, path)
<1>1. /\ StateOK(s) /\ s.generation = h.generation /\ StateMeans(s, u)
      /\ Subject(s) = Subject(h.state)
  <2>1. d # None  BY AreaSelectionConstants
  <2> QED  BY <2>1, HydratedState, HydratedMeans DEF HookOK
<1> HIDE DEF s
<1>2. HookOK(a)  BY <1>1, HookWithState
<1>3. a.state = s /\ a.generation = h.generation /\ a.told = h.told /\ a.calls = h.calls
  BY DEF HookOK
<1> HIDE DEF a
<1>4. HookMeans(a, u) /\ (NoHits(h) => NoHits(a))
  <2> DEFINE none == {}
  <2>1. a.calls \subseteq Abort(h.calls, none) \cup none  BY <1>3, AbortNone
  <2>2. Asked(none, h, u)  BY FS_EmptySet DEF Asked
  <2> HIDE DEF none
  <2> QED  BY <1>1, <1>3, <2>1, <2>2, HookChange
<1>5. a.state.value = h.state.value /\ a.state.dataset = h.state.dataset
  BY <1>1, <1>3 DEF Subject
<1>6. HookOK(b) /\ HookMeans(b, u) /\ b.generation = h.generation /\ b.state = a.state
      /\ (NoHits(a) => NoHits(b))
  BY <1>2, <1>3, <1>4, <1>5, ValidateKeeps, ValidateMeans
<1> HIDE DEF b, parents
<1>7. k = Load(b, parents, d, NoCursor)  BY DEF k, Hydrated, b, a, s, parents
<1>8. \A i \in DOMAIN parents : /\ i # 1 => d = b.state.dataset
                                /\ b.state.value = None => u \/ i = 1
  BY <1>5, <1>6
<1> HIDE DEF k
<1>10. IsFiniteSet(DOMAIN parents)
  <2>1. Len(path) + 1 \in Nat  BY DEF PathOK
  <2> DEFINE m == Len(path) + 1
  <2>2. DOMAIN parents = 1 .. m  BY DEF parents, Parents
  <2> HIDE DEF m
  <2> QED  BY <2>1, <2>2, FS_Interval DEF m
<1>9. /\ HookMeans(k, u) /\ k.generation = b.generation
      /\ Subject(k.state) = Subject(b.state) /\ (NoHits(b) => NoHits(k))
  BY <1>6, <1>7, <1>8, <1>10, LoadMeans
<1> QED  BY <1>1, <1>3, <1>4, <1>6, <1>9 DEF k

-----------------------------------------------------------------------------
(* The host, React and the reconciliation.                                  *)

\* A reconciliation that will still do something.
Live ==
    /\ microtask # None /\ microtask.generation = hook.generation
    /\ microtask.value = rendered.value

\* The hook has yet to be brought in line with the props of its host.
Unsettled == rendered # hostProps \/ effect # "none" \/ Live

\* How what is queued and what is rendered lag behind the host.
PropsFollow ==
    /\ effect \in {"none", "mount", "changed"}
    /\ effect # "none" => rendered = hostProps
    /\ rendered # hostProps => rendered.value # hostProps.value
    /\ effect # "changed" => /\ hook.state.value = rendered.value
                             /\ hook.state.target = rendered.target
    /\ effect = "changed" => hook.state.value # rendered.value /\ ~ Live
    /\ effect = "mount" => /\ hook.calls = {} /\ hook.told = None /\ hook.state.path = <<>>
                           /\ microtask = None

\* A reconciliation is of a generation that has begun, and for what was rendered last.
QueuedForThis ==
    microtask # None =>
        /\ microtask.generation \in Nat /\ microtask.generation <= hook.generation
        /\ microtask.generation = hook.generation /\ effect # "changed"
              => microtask.value = rendered.value

\* What the user has acted on is still what the hook is about.
ShownIsMeant ==
    /\ view.dataset # None => hook.state.dataset # None
    /\ Live \/ ~ NoHits(hook) => view.dataset # None /\ view.dataset = hook.state.dataset

\* The values the host holds, those on their way and the datasets shown go together.
OneDataset ==
    \A v \in {hostProps.value, rendered.value, hook.state.value} :
        /\ Genuine(v)
        /\ v # None => /\ hook.state.dataset \in {None, v.dataset}
                       /\ view.dataset \in {None, v.dataset}

\* What a field means while it is used.
FieldMeans ==
    HookMeans(hook, Unsettled) /\ PropsFollow /\ QueuedForThis /\ ShownIsMeant /\ OneDataset

\* After a step that leaves generation, host and queue alone.
LEMMA QuietStep ==
  ASSUME FieldMeans, NEW k, HookOK(k), HookMeans(k, Unsettled), Becomes(k),
         k.generation = hook.generation, Subject(k.state) = Subject(hook.state),
         NoHits(hook) => NoHits(k), view'.dataset = view.dataset,
         UNCHANGED <<hostProps, rendered, effect, microtask>>, effect # "mount"
  PROVE  FieldMeans'
<1>1. Unsettled \in BOOLEAN  BY DEF Unsettled, Live
<1>2. /\ HookMeans(hook', Unsettled)
      /\ hook'.state = k.state /\ hook'.generation = hook.generation
      /\ NoHits(hook) => NoHits(hook')
  BY <1>1, BecomesMeans
<1>3. Live' = Live /\ Unsettled' = Unsettled  BY <1>2 DEF Live, Unsettled
<1>4. HookMeans(hook, Unsettled)'  BY <1>2, <1>3
<1>5. /\ hook'.state.value = hook.state.value /\ hook'.state.target = hook.state.target
      /\ hook'.state.dataset = hook.state.dataset
  BY <1>2 DEF Subject
<1>6. PropsFollow'  BY <1>3, <1>5 DEF FieldMeans, PropsFollow
<1>7. QueuedForThis'  BY <1>2 DEF FieldMeans, QueuedForThis
<1>8. ShownIsMeant'  BY <1>2, <1>3, <1>5 DEF FieldMeans, ShownIsMeant
<1>9. OneDataset'  BY <1>5 DEF FieldMeans, OneDataset
<1> QED  BY <1>4, <1>6, <1>7, <1>8, <1>9 DEF FieldMeans

\* A step that leaves the hook and what it depends on alone.
LEMMA IdleStep ==
  ASSUME FieldMeans, UNCHANGED <<hook, hostProps, view, rendered, effect, microtask>>
  PROVE  FieldMeans'
<1>1. Live' = Live /\ Unsettled' = Unsettled  BY DEF Live, Unsettled
<1>2. HookMeans(hook, Unsettled)'  BY <1>1 DEF FieldMeans
<1>3. PropsFollow' /\ QueuedForThis' /\ OneDataset'
  BY <1>1 DEF FieldMeans, PropsFollow, QueuedForThis, OneDataset
<1>4. ShownIsMeant'
  BY <1>1 DEF FieldMeans, ShownIsMeant
<1> QED  BY <1>2, <1>3, <1>4 DEF FieldMeans

\* Nothing that is up to date is unsettled.
LEMMA UpToDateIsSettled ==
  ASSUME UpToDate, FieldMeans
  PROVE  /\ Unsettled = FALSE /\ ~ Live /\ microtask = None /\ view = hook.state /\ effect = "none"
         /\ hook.state.value = rendered.value /\ hook.state.target = rendered.target
         /\ rendered = hostProps
  BY DEF UpToDate, Unsettled, Live, FieldMeans, PropsFollow

\* An effect brings the hook in line with the props.
LEMMA EffectMeans ==
  ASSUME HookOK(hook), NEW v, HookMeans(hook, v), NEW props, PropsOK(props),
         props.value = None => hook.state.value # None \/ hook.state.path = <<>>
  PROVE  LET k == EffectOf(props, TRUE) IN
         /\ HookMeans(k, FALSE) /\ k.generation = hook.generation + 1 /\ NoHits(k)
         /\ k.state.value = props.value /\ k.state.target = props.target
         /\ k.state.dataset = hook.state.dataset
<1> DEFINE s == DispatchProps(hook.state, props)
           g == NextGeneration(hook)
           h == [g EXCEPT !.state = s, !.told = None]
           k == EffectOf(props, TRUE)
<1>1. StateOK(s) /\ s.generation = hook.generation + 1  BY PropsKeep DEF HookOK
<1>2. StateMeans(s, FALSE) /\ s.dataset = hook.state.dataset /\ s.value = props.value
      /\ s.target = props.target
  BY PropsMean DEF HookOK, HookMeans
<1>3. g.state = hook.state
  <2> HIDE DEF s
  <2> QED  BY <1>1, NextGenerationWith
<1>4. k = IF props.disabled THEN h ELSE Bootstrap(h, props.value)
  BY <1>3 DEF EffectOf
<1> HIDE DEF s, g
<1>5. HookOK(h)  BY <1>1, NextGenerationWith DEF g
<1>6. /\ HookMeans(h, FALSE) /\ h.state = s /\ h.generation = hook.generation + 1 /\ NoHits(h)
  BY <1>1, <1>2, GenerationMeans DEF g
<1> HIDE DEF h, k
<1>7. LET b == Bootstrap(h, props.value) IN
      /\ HookMeans(b, FALSE) /\ b.generation = h.generation
      /\ Subject(b.state) = Subject(h.state) /\ NoHits(b)
  BY <1>2, <1>5, <1>6, BootstrapMeans
<1>8. /\ HookMeans(k, FALSE) /\ k.generation = h.generation
      /\ Subject(k.state) = Subject(h.state) /\ NoHits(k)
  BY <1>4, <1>6, <1>7
<1>9. k.state.value = props.value /\ k.state.target = props.target
      /\ k.state.dataset = hook.state.dataset
  BY <1>2, <1>6, <1>8 DEF Subject
<1> QED  BY <1>6, <1>8, <1>9 DEF k

\* The hosts this is about: they set genuine values, of the dataset shown, and leave the
\* field enabled when they answer onChange.
SteadyHost ==
    ~ SwitchesDataset /\ ~ DisablesOnChange /\ \A v \in HostValues : Genuine(v)

\* The host changes its props.
LEMMA HostMeans ==
  ASSUME SteadyHost, FieldTypes, FieldMeans, NEW props \in HostProps, HostChanges(props)
  PROVE  FieldMeans'
<1> DEFINE k == EffectOf(props, TRUE)
<1>1. /\ UpToDate /\ hostProps' = props /\ rendered' = props /\ Becomes(k)
      /\ UNCHANGED <<edition, view, effect, microtask>>
      /\ ~ SwitchesDataset /\ props.value \notin {hostProps.value, None}
           => props.value.dataset = view.dataset
  BY DEF HostChanges
<1>2. /\ Unsettled = FALSE /\ microtask = None /\ view = hook.state /\ effect = "none"
      /\ hook.state.value = rendered.value /\ rendered = hostProps
  BY <1>1, UpToDateIsSettled
<1>3. PropsOK(props) /\ props.value \in HostValues \cup {None}
  BY AreaSelectionConstants DEF HostProps, PropsOK
<1>4. HookOK(hook) /\ HookMeans(hook, FALSE)  BY <1>2 DEF FieldTypes, FieldMeans
<1>5. props.value = None => hook.state.value # None \/ hook.state.path = <<>>
  BY <1>4 DEF HookMeans, StateMeans
<1>6. HookOK(k)
  <2>1. TRUE \in BOOLEAN  OBVIOUS
  <2> QED  BY <1>3, <1>4, <2>1, EffectKeeps
<1>7. /\ HookMeans(k, FALSE) /\ k.generation = hook.generation + 1 /\ NoHits(k)
      /\ k.state.value = props.value /\ k.state.target = props.target
      /\ k.state.dataset = hook.state.dataset
  BY <1>3, <1>4, <1>5, EffectMeans
<1> HIDE DEF k
<1>8. PICK u \in BOOLEAN : u = FALSE  OBVIOUS
<1>9. HookMeans(k, u)  BY <1>7, <1>8
<1>10. /\ HookMeans(hook', u) /\ hook'.state = k.state /\ hook'.generation = k.generation
       /\ NoHits(hook')
  BY <1>1, <1>6, <1>7, <1>8, <1>9, BecomesMeans
<1>11. Unsettled' = FALSE /\ ~ Live'  BY <1>1, <1>2 DEF Unsettled, Live
<1>12. HookMeans(hook, Unsettled)'  BY <1>8, <1>10, <1>11
<1>13. PropsFollow'  BY <1>1, <1>2, <1>7, <1>10, <1>11 DEF PropsFollow
<1>14. QueuedForThis'  BY <1>1, <1>2 DEF QueuedForThis
<1>15. ShownIsMeant'
  BY <1>1, <1>2, <1>7, <1>10, <1>11 DEF FieldMeans, ShownIsMeant
<1>16. OneDataset'
  <2>1. Genuine(props.value)  BY <1>3 DEF SteadyHost, Genuine
  <2>2. props.value # None => /\ hook.state.dataset \in {None, props.value.dataset}
                              /\ view.dataset \in {None, props.value.dataset}
    <3>1. CASE props.value = hostProps.value  BY <3>1 DEF FieldMeans, OneDataset
    <3>2. CASE props.value # hostProps.value  BY <1>1, <1>2, <3>2 DEF SteadyHost
    <3> QED  BY <3>1, <3>2
  <2>3. /\ hostProps'.value = props.value /\ rendered'.value = props.value
        /\ hook'.state.value = props.value /\ view' = view
        /\ hook'.state.dataset = hook.state.dataset
    BY <1>1, <1>7, <1>10
  <2> QED  BY <2>1, <2>2, <2>3 DEF OneDataset
<1> QED  BY <1>12, <1>13, <1>14, <1>15, <1>16 DEF FieldMeans

\* React renders.
LEMMA RenderMeans ==
  ASSUME FieldTypes, FieldMeans, Render
  PROVE  FieldMeans'
<1>1. /\ effect = "none" /\ view' = hook.state /\ rendered' = hostProps
      /\ effect' = (IF rendered = hostProps THEN "none" ELSE "changed")
      /\ UNCHANGED <<edition, hostProps, hook, microtask, budget>>
  BY DEF Render
<1>2. Live' => Live
  BY <1>1 DEF Live, FieldMeans, PropsFollow, QueuedForThis
<1>3. rendered # hostProps => ~ Live'
  BY <1>1 DEF Live, FieldMeans, PropsFollow, QueuedForThis
<1>4. rendered = hostProps => Live' = Live  BY <1>1 DEF Live
<1>5. Unsettled' = Unsettled  BY <1>1, <1>4 DEF Unsettled
<1>6. HookMeans(hook, Unsettled)'  BY <1>1, <1>5 DEF FieldMeans
<1>7. PropsFollow'  BY <1>1, <1>3 DEF FieldMeans, PropsFollow
<1>8. QueuedForThis'
  BY <1>1 DEF FieldMeans, QueuedForThis
<1>9. ShownIsMeant'
  <2>1. NoHits(hook)' <=> NoHits(hook)  BY <1>1
  <2> QED  BY <1>1, <1>2, <2>1 DEF FieldMeans, ShownIsMeant
<1>10. OneDataset'  BY <1>1 DEF FieldMeans, OneDataset
<1> QED  BY <1>6, <1>7, <1>8, <1>9, <1>10 DEF FieldMeans

\* The effect a render left.
LEMMA EffectStepMeans ==
  ASSUME FieldTypes, FieldMeans, RunEffect
  PROVE  FieldMeans'
<1> DEFINE k == EffectOf(rendered, effect = "changed")
<1>1. /\ effect # "none" /\ effect' = "none" /\ Becomes(k) /\ rendered = hostProps
      /\ UNCHANGED <<edition, hostProps, view, rendered, microtask, panel, budget>>
  BY DEF RunEffect, FieldMeans, PropsFollow
<1>2. HookOK(hook) /\ PropsOK(rendered) /\ HookMeans(hook, Unsettled) /\ Unsettled
  BY <1>1 DEF FieldTypes, FieldMeans, Unsettled
<1>3. HookOK(k)
  <2>1. (effect = "changed") \in BOOLEAN  OBVIOUS
  <2> DEFINE changed == effect = "changed"
  <2>2. k = EffectOf(rendered, changed) /\ changed \in BOOLEAN  OBVIOUS
  <2> HIDE DEF changed, k
  <2> QED  BY <1>2, <2>2, EffectKeeps
<1>4. /\ HookMeans(k, FALSE) /\ NoHits(k) /\ k.state.dataset = hook.state.dataset
      /\ k.state.value = rendered.value /\ k.state.target = rendered.target
      /\ \/ effect = "changed" /\ k.generation = hook.generation + 1
         \/ effect = "mount" /\ k.generation = hook.generation /\ microtask = None
  <2>1. CASE effect = "changed"
    <3>1. k = EffectOf(rendered, TRUE)  BY <2>1
    <3>2. hook.state.value # rendered.value  BY <2>1 DEF FieldMeans, PropsFollow
    <3> DEFINE v == Unsettled
    <3>3. HookMeans(hook, v)  BY <1>2
    <3> HIDE DEF v, k
    <3>4. rendered.value = None => hook.state.value # None \/ hook.state.path = <<>>
      BY <3>2
    <3> QED  BY <1>2, <2>1, <3>1, <3>3, <3>4, EffectMeans
  <2>2. CASE effect = "mount"
    <3>1. k = IF rendered.disabled THEN hook ELSE Bootstrap(hook, rendered.value)
      BY <2>2 DEF EffectOf
    <3>2. /\ hook.calls = {} /\ hook.told = None /\ hook.state.path = <<>> /\ microtask = None
          /\ hook.state.value = rendered.value /\ hook.state.target = rendered.target
      BY <2>2 DEF FieldMeans, PropsFollow
    <3>3. HookMeans(hook, FALSE) /\ NoHits(hook)
      BY <1>2, <3>2 DEF HookMeans, CallsMean, StateMeans, ToldMeans, NoHits
    <3>4. LET b == Bootstrap(hook, rendered.value) IN
          /\ HookMeans(b, FALSE) /\ b.generation = hook.generation
          /\ Subject(b.state) = Subject(hook.state) /\ NoHits(b)
      BY <1>2, <3>2, <3>3, BootstrapMeans
    <3> HIDE DEF k
    <3>5. /\ HookMeans(k, FALSE) /\ k.generation = hook.generation
          /\ Subject(k.state) = Subject(hook.state) /\ NoHits(k)
      BY <3>1, <3>3, <3>4
    <3> QED  BY <2>2, <3>2, <3>5 DEF Subject
  <2> QED  BY <1>1, <2>1, <2>2 DEF FieldMeans, PropsFollow
<1> HIDE DEF k
<1>5. PICK u \in BOOLEAN : u = FALSE  OBVIOUS
<1>6. HookMeans(k, u)  BY <1>4, <1>5
<1>7. /\ HookMeans(hook', u) /\ hook'.state = k.state /\ hook'.generation = k.generation
      /\ NoHits(hook')
  BY <1>1, <1>3, <1>4, <1>5, <1>6, BecomesMeans
<1>8. ~ Live' /\ QueuedForThis'
  <2>1. CASE microtask = None  BY <1>1, <2>1 DEF Live, QueuedForThis
  <2>2. CASE hook'.generation = hook.generation + 1
    <3>1. hook.generation \in Nat  BY DEF FieldMeans, HookMeans
    <3>2. microtask # None => microtask.generation \in Nat /\ microtask.generation <= hook.generation
      BY DEF FieldMeans, QueuedForThis
    <3> QED  BY <1>1, <2>2, <3>1, <3>2 DEF Live, QueuedForThis
  <2> QED  BY <1>4, <1>7, <2>1, <2>2
<1>9. Unsettled' = FALSE  BY <1>1, <1>8 DEF Unsettled
<1>10. HookMeans(hook, Unsettled)'  BY <1>5, <1>7, <1>9
<1>11. PropsFollow'  BY <1>1, <1>4, <1>7, <1>8 DEF PropsFollow
<1>12. ShownIsMeant'  BY <1>1, <1>4, <1>7, <1>8 DEF FieldMeans, ShownIsMeant
<1>13. OneDataset'  BY <1>1, <1>4, <1>7 DEF FieldMeans, OneDataset
<1> QED  BY <1>8, <1>10, <1>11, <1>12, <1>13 DEF FieldMeans

\* After a step that may begin a generation and leaves the value and the dataset as they are.
LEMMA GenerationStep ==
  ASSUME FieldTypes, FieldMeans, NEW k, HookOK(k), NEW u \in BOOLEAN, HookMeans(k, u), Becomes(k),
         k.generation \in {hook.generation, hook.generation + 1},
         Subject(k.state) = Subject(hook.state),
         effect = "none", effect' = effect, view' = view, rendered' = rendered,
         Unsettled' = u, rendered # hostProps' => rendered.value # hostProps'.value,
         Genuine(hostProps'.value),
         hostProps'.value # None => /\ hook.state.dataset \in {None, hostProps'.value.dataset}
                                    /\ view.dataset \in {None, hostProps'.value.dataset},
         \/ microtask' = None
         \/ microtask' = [generation |-> k.generation, value |-> rendered.value],
         Live' \/ ~ NoHits(k) => view.dataset # None /\ view.dataset = hook.state.dataset
  PROVE  FieldMeans'
<1>1. /\ HookMeans(hook', u) /\ hook'.state = k.state /\ hook'.generation = k.generation
      /\ NoHits(k) => NoHits(hook')
  BY BecomesMeans
<1>2. HookMeans(hook, Unsettled)'  BY <1>1
<1>3. /\ hook'.state.value = hook.state.value /\ hook'.state.target = hook.state.target
      /\ hook'.state.dataset = hook.state.dataset
  BY <1>1 DEF Subject
<1>4. /\ hook.state.value = rendered.value /\ hook.state.target = rendered.target
  BY DEF FieldMeans, PropsFollow
<1>5. PropsFollow'  BY <1>3, <1>4 DEF PropsFollow
<1>6. hook.generation \in Nat  BY DEF FieldMeans, HookMeans
<1>7. QueuedForThis'
  <2> SUFFICES ASSUME microtask' # None  PROVE QueuedForThis'
    BY DEF QueuedForThis
  <2>1. microtask'.generation = k.generation /\ microtask'.value = rendered.value
    OBVIOUS
  <2> QED  BY <1>1, <1>6, <2>1 DEF QueuedForThis
<1>8. ShownIsMeant'  BY <1>1, <1>3 DEF FieldMeans, ShownIsMeant
<1>9. OneDataset'  BY <1>3 DEF FieldMeans, OneDataset
<1> QED  BY <1>2, <1>5, <1>7, <1>8, <1>9 DEF FieldMeans

\* reconcileControlledValue.
LEMMA MicrotaskMeans ==
  ASSUME FieldTypes, FieldMeans, RunMicrotask
  PROVE  FieldMeans'
<1> DEFINE stale == microtask.generation # hook.generation \/ microtask.value # rendered.value
           next == NextGeneration(hook)
           s == DispatchLifecycle(next.state, next.generation)
           h == [next EXCEPT !.state = s, !.told = None]
           shown == DispatchHydrate(h.state, h.generation, <<>>)
           k == [h EXCEPT !.state = shown]
           first == LoadLayer(k, 1, Root, view.dataset, NoCursor)
           path == HydrateValue(h, view.dataset, rendered.value)
           new == IF stale THEN hook
                  ELSE IF view.dataset = None THEN Bootstrap(h, rendered.value)
                  ELSE IF rendered.value = None THEN first ELSE path
<1>1. /\ Becomes(new) /\ UNCHANGED <<edition, hostProps, view, rendered, effect>>
      /\ microtask # None /\ microtask' = None
  BY DEF RunMicrotask
<1>2. HookOK(hook) /\ Unsettled \in BOOLEAN  BY DEF FieldTypes, Unsettled, Live
<1>3. CASE stale
  <2>1. new = hook  BY <1>3
  <2>2. ~ Live  BY <1>3 DEF Live
  <2>3. ~ Live' /\ Unsettled' = Unsettled  BY <1>1, <2>2 DEF Unsettled, Live
  <2> HIDE DEF new
  <2>4. /\ HookMeans(hook', Unsettled) /\ hook'.state = hook.state
        /\ hook'.generation = hook.generation /\ (NoHits(hook) => NoHits(hook'))
        /\ hook'.calls \subseteq hook.calls
    <3> DEFINE v == Unsettled
    <3>1. HookMeans(hook, v) /\ v \in BOOLEAN  BY <1>2 DEF FieldMeans
    <3> HIDE DEF v
    <3>2. /\ HookMeans(hook', v) /\ hook'.state = hook.state
          /\ hook'.generation = hook.generation /\ (NoHits(hook) => NoHits(hook'))
          /\ hook'.calls \subseteq hook.calls
      BY <1>1, <1>2, <2>1, <3>1, BecomesMeans
    <3> QED  BY <3>2 DEF v
  <2>5. HookMeans(hook, Unsettled)'  BY <2>3, <2>4
  <2>6. effect # "mount"  BY <1>1 DEF FieldMeans, PropsFollow
  <2>7. PropsFollow'  BY <1>1, <2>3, <2>4, <2>6 DEF FieldMeans, PropsFollow
  <2>8. QueuedForThis'  BY <1>1 DEF QueuedForThis
  <2>9. ShownIsMeant'  BY <1>1, <2>3, <2>4 DEF FieldMeans, ShownIsMeant
  <2>10. OneDataset'  BY <1>1, <2>4 DEF FieldMeans, OneDataset
  <2> QED  BY <2>5, <2>7, <2>8, <2>9, <2>10 DEF FieldMeans
<1>4. CASE ~ stale
  <2>1. Live  BY <1>1, <1>4 DEF Live
  <2>2. /\ effect = "none" /\ view.dataset # None /\ view.dataset = hook.state.dataset
        /\ hook.state.value = rendered.value
    BY <1>1, <2>1 DEF FieldMeans, PropsFollow, ShownIsMeant
  <2>3. new = IF rendered.value = None THEN first ELSE path  BY <1>4, <2>2
  <2>4. view.dataset \in Editions  BY <2>2 DEF FieldTypes, StateOK
  <2> DEFINE s0 == DispatchLifecycle(hook.state, hook.state.generation + 1)
             s1 == DispatchHydrate(s0, s0.generation, <<>>)
             u == rendered # hostProps
  <2>5. StateOK(s0) /\ s0.generation = hook.generation + 1
        /\ s0.path = hook.state.path /\ s0.layers = hook.state.layers
        /\ Subject(s0) = Subject(hook.state)
    BY <1>2, LifecycleKeeps DEF HookOK, DispatchLifecycle, StateOK, StateFields, Subject
  <2>6. next.state = hook.state /\ next.generation = hook.state.generation + 1
    <3> HIDE DEF s0
    <3> QED  BY <1>2, <2>5, NextGenerationWith DEF HookOK
  <2>7. s = s0  BY <2>6
  <2> HIDE DEF s, s0, stale, next
  <2>8. StateMeans(hook.state, Unsettled)  BY DEF FieldMeans, HookMeans
  <2>9. StateMeans(s0, TRUE) /\ s0.value = rendered.value /\ s0.dataset = view.dataset
    BY <2>2, <2>5, <2>8 DEF StateMeans, Subject
  <2>10. HookMeans(hook, Unsettled)  BY DEF FieldMeans
  <2>11. CASE rendered.value # None
    <3>1. StateMeans(s0, u)  BY <2>9, <2>11 DEF StateMeans
    <3>2. HookOK(h) /\ HookMeans(h, u) /\ h.state = s0 /\ h.generation = hook.generation + 1
          /\ NoHits(h)
      <4> HIDE DEF u
      <4>1. h = [NextGeneration(hook) EXCEPT !.state = s0, !.told = None]
        BY <2>7 DEF next
      <4> DEFINE v == Unsettled
      <4>2. HookMeans(hook, v)  BY <2>10
      <4> HIDE DEF v, h
      <4>3. HookOK(h)  BY <1>2, <2>5, <4>1, NextGenerationWith
      <4>4. /\ HookMeans(h, u) /\ h.state = s0 /\ h.generation = hook.generation + 1
            /\ NoHits(h)
        BY <1>2, <2>5, <3>1, <4>1, <4>2, GenerationMeans
      <4> QED  BY <4>3, <4>4
    <3>3. view.dataset = rendered.value.dataset
      BY <2>2, <2>11 DEF FieldMeans, OneDataset
    <3> HIDE DEF h
    <3>4. path = HydrateValue(h, rendered.value.dataset, rendered.value) /\ new = path
      BY <2>3, <2>11, <3>3
    <3>5. HookOK(path)  BY <2>4, <3>2, HydrateKeeps
    <3>6. u \in BOOLEAN  OBVIOUS
    <3> HIDE DEF u
    <3>7. /\ HookMeans(path, u) /\ path.generation = h.generation
          /\ Subject(path.state) = Subject(h.state) /\ NoHits(path)
      <4>1. rendered.value = h.state.value /\ rendered.value.dataset = h.state.dataset
        BY <2>9, <3>2, <3>3
      <4> HIDE DEF path
      <4> QED  BY <2>11, <3>2, <3>4, <3>6, <4>1, HydrateValueMeans
    <3> HIDE DEF path, new
    <3>8. Unsettled' = u /\ ~ Live'
      BY <1>1, <2>2 DEF Unsettled, Live, u
    <3>9. /\ Becomes(path) /\ path.generation = hook.generation + 1
          /\ Subject(path.state) = Subject(hook.state)
      BY <1>1, <2>5, <3>2, <3>4, <3>7
    <3>10. /\ rendered # hostProps => rendered.value # hostProps.value
           /\ Genuine(hostProps.value)
           /\ hostProps.value # None => /\ hook.state.dataset \in {None, hostProps.value.dataset}
                                        /\ view.dataset \in {None, hostProps.value.dataset}
      BY DEF FieldMeans, PropsFollow, OneDataset
    <3> QED  BY <1>1, <2>2, <3>5, <3>6, <3>7, <3>8, <3>9, <3>10, GenerationStep
  <2>12. CASE rendered.value = None
    <3>1. StateOK(s1) /\ s1.generation = s0.generation
      BY <2>5, EmptyPath, HydratedState
    <3>2. StateMeans(s1, FALSE) /\ Subject(s1) = Subject(s0) /\ s1.path = <<>>
      <4>1. StateMeans(s0, TRUE) /\ RealPath(s0.dataset, <<>>)  BY <2>9, NoPathIsReal
      <4> DEFINE v == TRUE
      <4>2. StateMeans(s0, v)  BY <4>1
      <4> HIDE DEF v
      <4>3. StateMeans(s1, v) /\ Subject(s1) = Subject(s0) /\ s1.path = <<>>
        BY <2>5, <4>1, <4>2, EmptyPath, HydratedMeans
      <4> QED  BY <4>3 DEF StateMeans, v
    <3>3. StateMeans(s1, u)  BY <3>2 DEF StateMeans
    <3>4. h.state = s0 /\ h.generation = s0.generation
      <4>1. DOMAIN next = {"state", "generation", "calls", "told"}
            /\ next.generation = hook.generation + 1
        BY <1>2, <2>5, NextGenerationWith DEF next, HookOK, NextGeneration, AbortAll
      <4> QED  BY <2>5, <2>7, <4>1
    <3>5. shown = s1  BY <3>4
    <3> HIDE DEF s1, shown
    <3>6. k = [NextGeneration(hook) EXCEPT !.state = s1, !.told = None]
      BY <3>5 DEF next
    <3> HIDE DEF h, k
    <3>7. HookOK(k) /\ HookMeans(k, u) /\ k.state = s1 /\ k.generation = hook.generation + 1
          /\ NoHits(k)
      <4> HIDE DEF u
      <4> DEFINE v == Unsettled
      <4>2. HookMeans(hook, v)  BY <2>10
      <4> HIDE DEF v
      <4>1. s1.generation = hook.generation + 1  BY <2>5, <3>1
      <4>3. HookOK(k)  BY <1>2, <3>1, <3>6, <4>1, NextGenerationWith
      <4>4. /\ HookMeans(k, u) /\ k.state = s1 /\ k.generation = hook.generation + 1
            /\ NoHits(k)
        BY <1>2, <3>3, <3>6, <4>1, <4>2, GenerationMeans
      <4> QED  BY <4>3, <4>4
    <3>8. u \in BOOLEAN  OBVIOUS
    <3> HIDE DEF u
    <3>9. HookOK(first)  BY <2>4, <3>7, LoadLayerKeeps
    <3>10. /\ HookMeans(first, u) /\ first.generation = k.generation
           /\ Subject(first.state) = Subject(k.state) /\ NoHits(first)
      BY <3>7, <3>8, LoadLayerMeans
    <3>11. new = first  BY <2>3, <2>12
    <3> HIDE DEF first, new
    <3>12. Unsettled' = u /\ ~ Live'
      BY <1>1, <2>2 DEF Unsettled, Live, u
    <3>13. /\ Becomes(first) /\ first.generation = hook.generation + 1
           /\ Subject(first.state) = Subject(hook.state)
      BY <1>1, <2>5, <3>2, <3>7, <3>10, <3>11
    <3>14. /\ rendered # hostProps => rendered.value # hostProps.value
           /\ Genuine(hostProps.value)
           /\ hostProps.value # None => /\ hook.state.dataset \in {None, hostProps.value.dataset}
                                        /\ view.dataset \in {None, hostProps.value.dataset}
      BY DEF FieldMeans, PropsFollow, OneDataset
    <3> QED  BY <1>1, <2>2, <3>8, <3>9, <3>10, <3>12, <3>13, <3>14, GenerationStep
  <2> QED  BY <2>11, <2>12
<1> QED  BY <1>3, <1>4

-----------------------------------------------------------------------------
(* The paths of the server, and the props of the host.                      *)

\* A path of a snapshot is the whole of the path to its last region there.
LEMMA RealPathIsWhole ==
  ASSUME NEW d \in Editions, NEW p, PathOK(p), p # <<>>, RealPath(d, p)
  PROVE  /\ AsValue(d, p).dataset = d /\ AsValue(d, p).codes = CodesOf(p)
         /\ Last(CodesOf(p)) = Last(p).code
         /\ Genuine(AsValue(d, p))
<1> DEFINE t == Library[d]
           n == Len(p)
           e == p[n].code
           codes == CodesOf(p)
<1>1. n \in Nat \ {0} /\ DOMAIN p = 1 .. n /\ \A i \in 1 .. n : AtLevel(p[i].code, i)
  BY DEF PathOK, NodeBelow
<1>2. codes = [i \in 1 .. n |-> p[i].code]  BY <1>1 DEF CodesOf
<1>3. Len(codes) = n /\ codes[n] = e
  <2> HIDE DEF codes, n, e
  <2>1. Len(codes) = n /\ codes[n] = p[n].code  BY <1>1, <1>2
  <2> QED  BY <2>1 DEF e
<1>4. Last(codes) = e /\ Last(p) = p[n]  BY <1>3 DEF Last
<1>5. AsValue(d, p).dataset = d /\ AsValue(d, p).codes = codes  BY DEF AsValue
<1>6. ASSUME e \in DOMAIN t  PROVE PathTo(t, e) = codes
  <2>1. IsTree(t)  BY AreaSelectionConstants
  <2>2. t[e].level = n /\ n \in 1 .. 5
    <3>1. AtLevel(e, n)  BY <1>1
    <3>2. PICK x \in Editions : e \in DOMAIN Library[x] /\ Library[x][e].level = n
      BY <3>1 DEF AtLevel
    <3>3. t[e].level = n  BY <1>6, <3>2, AreaSelectionConstants DEF SameLevels
    <3> QED  BY <1>6, <2>1, <3>3 DEF IsTree
  <2>3. \A i \in 2 .. n : p[i].code \in DOMAIN t /\ t[p[i].code].parent = p[i - 1].code
    BY DEF RealPath
  <2> HIDE DEF t, codes
  <2>4. PathTo(t, e) = [i \in 1 .. n |-> Above(t, e, n - i)]  BY <2>2 DEF PathTo, LevelOf
  <2>5. \A i \in 1 .. n : Above(t, e, n - i) = p[i].code
    <3> SUFFICES ASSUME NEW i \in 1 .. n  PROVE Above(t, e, n - i) = p[i].code
      OBVIOUS
    <3>1. CASE n - i = 0
      <4>1. n = i  BY <2>2, <3>1
      <4> QED  BY <4>1, <3>1 DEF Above
    <3>2. CASE n - i = 1
      <4>1. n = i + 1 /\ n - 1 = i /\ n \in 2 .. n  BY <2>2, <3>2
      <4> HIDE DEF n
      <4>2. t[e].parent = p[i].code  BY <2>3, <4>1 DEF e
      <4> QED  BY <3>2, <4>2 DEF Above
    <3>3. CASE n - i = 2
      <4>1. n - 1 \in 2 .. n /\ n \in 2 .. n /\ (n - 1) - 1 = i  BY <2>2, <3>3
      <4> HIDE DEF n
      <4>2. t[e].parent = p[n - 1].code  BY <2>3, <4>1 DEF e
      <4>3. t[p[n - 1].code].parent = p[i].code  BY <2>3, <4>1
      <4> QED  BY <3>3, <4>2, <4>3 DEF Above
    <3>4. CASE n - i = 3
      <4>1. /\ n - 1 \in 2 .. n /\ n \in 2 .. n /\ (n - 1) - 1 = n - 2 /\ n - 2 \in 2 .. n
            /\ (n - 2) - 1 = i
        BY <2>2, <3>4
      <4> HIDE DEF n
      <4>2. t[e].parent = p[n - 1].code  BY <2>3, <4>1 DEF e
      <4>3. t[p[n - 1].code].parent = p[n - 2].code  BY <2>3, <4>1
      <4>4. t[p[n - 2].code].parent = p[i].code  BY <2>3, <4>1
      <4> QED  BY <3>4, <4>2, <4>3, <4>4 DEF Above
    <3>5. CASE n - i = 4
      <4>1. /\ n - 1 \in 2 .. n /\ n \in 2 .. n /\ (n - 1) - 1 = n - 2 /\ n - 2 \in 2 .. n
            /\ (n - 2) - 1 = n - 3 /\ n - 3 \in 2 .. n /\ (n - 3) - 1 = i
        BY <2>2, <3>5
      <4> HIDE DEF n
      <4>2. t[e].parent = p[n - 1].code  BY <2>3, <4>1 DEF e
      <4>3. t[p[n - 1].code].parent = p[n - 2].code  BY <2>3, <4>1
      <4>4. t[p[n - 2].code].parent = p[n - 3].code  BY <2>3, <4>1
      <4>5. t[p[n - 3].code].parent = p[i].code  BY <2>3, <4>1
      <4> QED  BY <3>5, <4>2, <4>3, <4>4, <4>5 DEF Above
    <3>6. n - i \in 0 .. 4  BY <2>2
    <3> QED  BY <3>1, <3>2, <3>3, <3>4, <3>5, <3>6
  <2> HIDE DEF n, e
  <2> QED  BY <1>2, <2>4, <2>5
<1>7. Genuine(AsValue(d, p))
  <2> DEFINE v == AsValue(d, p)
  <2> HIDE DEF v, codes, t, e
  <2>1. v.dataset = d /\ v.codes = codes  BY <1>5 DEF v
  <2>2. Last(v.codes) = e /\ Library[v.dataset] = t  BY <1>4, <2>1 DEF t
  <2> QED  BY <1>6, <2>1, <2>2 DEF Genuine, v
<1> QED  BY <1>4, <1>5, <1>7

\* The nodes to a code are its path.
LEMMA NodesToMeans ==
  ASSUME NEW d \in Editions, NEW code \in DOMAIN Library[d]
  PROVE  LET p == NodesTo(d, code) IN
         /\ PathOK(p) /\ p # <<>> /\ RealPath(d, p)
         /\ CodesOf(p) = PathTo(Library[d], code)
         /\ Last(p).code = code
<1> DEFINE t == Library[d]
           c == PathTo(t, code)
           n == t[code].level
           p == NodesTo(d, code)
<1>1. IsTree(t)  BY AreaSelectionConstants
<1>2. /\ n \in 1 .. 5 /\ Len(c) = n /\ DOMAIN c = 1 .. n
      /\ \A i \in 1 .. n : /\ c[i] \in DOMAIN t /\ t[c[i]].level = i
                           /\ t[c[i]].parent = IF i = 1 THEN Root ELSE c[i - 1]
  BY <1>1, PathFacts
<1>3. c[n] = code
  <2>1. c = [i \in 1 .. n |-> Above(t, code, n - i)]  BY DEF PathTo, LevelOf
  <2>2. n \in 1 .. n /\ n - n = 0  BY <1>2
  <2> HIDE DEF c, t, n
  <2> QED  BY <2>1, <2>2 DEF Above
<1>4. p = [i \in 1 .. n |-> Summary(t, c[i])]  BY <1>2 DEF NodesTo
<1>5. PathOK(p)  BY NodesToOK
<1> HIDE DEF p, c, t, n
<1>6. DOMAIN p = 1 .. n /\ \A i \in 1 .. n : p[i].code = c[i]  BY <1>4 DEF Summary
<1>7. Len(p) = n /\ p # <<>>
  <2>1. Len(p) \in Nat /\ DOMAIN p = 1 .. Len(p)  BY <1>5 DEF PathOK
  <2> QED  BY <1>2, <1>6, <2>1
<1>8. RealPath(d, p)
  <2> SUFFICES ASSUME NEW i \in 2 .. n
               PROVE  /\ p[i].code \in DOMAIN t
                      /\ t[p[i].code].parent = p[i - 1].code
    BY <1>7 DEF RealPath, t
  <2>1. i \in 1 .. n /\ i # 1 /\ i - 1 \in 1 .. n  BY <1>2
  <2> QED  BY <1>2, <1>6, <2>1
<1>9. CodesOf(p) = c
  <2>1. CodesOf(p) = [i \in 1 .. n |-> p[i].code]  BY <1>6 DEF CodesOf
  <2>2. c = [i \in 1 .. n |-> c[i]]  BY <1>2 DEF c, PathTo
  <2> QED  BY <1>6, <2>1, <2>2
<1>10. Last(p).code = code
  <2>1. n \in 1 .. n  BY <1>2
  <2> QED  BY <1>3, <1>6, <1>7, <2>1 DEF Last
<1> QED  BY <1>5, <1>7, <1>8, <1>9, <1>10 DEF p, c, t

\* Props are a value, whether the field is disabled, and a target level.
IsProps(props) ==
    \E v, t : \E b \in BOOLEAN : props = [value |-> v, disabled |-> b, target |-> t]

\* What the host may answer onChange with, if it leaves the field enabled.
LEMMA SteadyReply ==
  ASSUME SteadyHost, IsProps(hostProps), NEW value, OnChange(value)
  PROVE  /\ IsProps(hostProps')
         /\ hostProps'.value \in {value, hostProps.value}
         /\ hostProps' # hostProps => hostProps.value # hostProps'.value
<1>1. PICK reply \in Replies :
        hostProps' = [hostProps EXCEPT !.value = IF reply = "adopt" THEN value ELSE @,
                             !.disabled = @ \/ reply = "disable"]
  BY DEF OnChange
<1>2. reply # "disable"  BY DEF Replies, SteadyHost
<1>3. PICK v, t : \E b \in BOOLEAN :
        hostProps = [value |-> v, disabled |-> b, target |-> t]
  BY DEF IsProps
<1>4. PICK b \in BOOLEAN : hostProps = [value |-> v, disabled |-> b, target |-> t]
  BY <1>3
<1> DEFINE w == IF reply = "adopt" THEN value ELSE v
           off == b \/ reply = "disable"
<1>5. off = b  BY <1>2, <1>4
<1>6. hostProps' = [value |-> w, disabled |-> off, target |-> t]  BY <1>1, <1>4
<1>7. w \in {value, v}  OBVIOUS
<1> HIDE DEF w, off
<1>8. hostProps' = [value |-> w, disabled |-> b, target |-> t]  BY <1>5, <1>6
<1>9. IsProps(hostProps')  BY <1>4, <1>8 DEF IsProps
<1> QED  BY <1>4, <1>7, <1>8, <1>9

\* The props the host sets have that shape.
LEMMA HostPropsShaped ==
  ASSUME NEW props \in HostProps  PROVE IsProps(props)
  BY DEF HostProps, IsProps

\* The props the host holds have it at all times.
LEMMA PropsStayShaped ==
  ASSUME IsProps(hostProps), [FieldNext]_fieldVars  PROVE IsProps(hostProps')
<1>1. ASSUME NEW value, OnChange(value)  PROVE IsProps(hostProps')
  <2>1. PICK reply \in Replies :
          hostProps' = [hostProps EXCEPT !.value = IF reply = "adopt" THEN value ELSE @,
                               !.disabled = @ \/ reply = "disable"]
    BY <1>1 DEF OnChange
  <2>2. PICK v, t : \E b \in BOOLEAN :
          hostProps = [value |-> v, disabled |-> b, target |-> t]
    BY DEF IsProps
  <2>3. PICK b \in BOOLEAN : hostProps = [value |-> v, disabled |-> b, target |-> t]
    BY <2>2
  <2> DEFINE w == IF reply = "adopt" THEN value ELSE v
             off == b \/ reply = "disable"
  <2>4. hostProps' = [value |-> w, disabled |-> off, target |-> t]  BY <2>1, <2>3
  <2>5. off \in BOOLEAN  OBVIOUS
  <2> HIDE DEF w, off
  <2> QED  BY <2>4, <2>5 DEF IsProps
<1>2. hostProps' = hostProps \/ (\E value : OnChange(value)) \/ hostProps' \in HostProps
  BY DEF FieldNext, fieldVars, Activate, HostChanges, Render, RunEffect, RunMicrotask, User,
         Choose, Clear, Search, CloseSearch, LoadMore, RetryLayer, PickHit, AnswerField,
         Ignore, AnswerDataset, AnswerPath, AnswerHit, AnswerLayer, AnswerValidate,
         AnswerSearch, FailField
<1> QED  BY <1>1, <1>2, HostPropsShaped

-----------------------------------------------------------------------------
(* The user.                                                                *)

\* null is not an object.
NoneIsNull == \A g, v : [generation |-> g, value |-> v] # None

\* A reconciliation queued for the generation that has begun will do something.
LEMMA QueuedIsLive ==
  ASSUME NoneIsNull, NEW g, microtask' = [generation |-> g, value |-> rendered.value],
         hook'.generation = g, rendered' = rendered
  PROVE  Live' /\ Unsettled' = TRUE
<1>1. microtask' # None  BY DEF NoneIsNull
<1>2. microtask'.generation = g /\ microtask'.value = rendered.value  OBVIOUS
<1>3. Live'  BY <1>1, <1>2 DEF Live
<1> QED  BY <1>3 DEF Unsettled

\* The user chooses a region.
LEMMA ChoosingMeans ==
  ASSUME SteadyHost, NoneIsNull, IsProps(hostProps), FieldTypes, FieldMeans,
         NEW i \in DOMAIN view.layers, NEW node \in view.layers[i].items, Choose(i, node)
  PROVE  FieldMeans' /\ Unsettled'
<1> DEFINE path == PathWith(view.path, node)
           g == NextGeneration(hook)
           s == DispatchChoose(hook.state, node)
           chosen == [g EXCEPT !.state = s, !.told = None]
           checked == Validate(chosen, view.dataset, path)
           new == LoadLayer(checked, node.level + 1, node.code, view.dataset, NoCursor)
           value == AsValue(view.dataset, path)
<1>1. UpToDate  BY DEF Choose
<1>2. /\ Unsettled = FALSE /\ view = hook.state /\ effect = "none" /\ rendered = hostProps
  BY <1>1, UpToDateIsSettled
<1>3. HookOK(hook) /\ StateOK(hook.state) /\ HookMeans(hook, FALSE)
  BY <1>2 DEF FieldTypes, FieldMeans, HookOK
<1>4. StateOK(s) /\ s.generation = hook.generation + 1
  BY <1>2, <1>3, ChooseKeeps DEF HookOK
<1>5. g.state = hook.state
  <2> HIDE DEF s
  <2> QED  BY <1>3, <1>4, NextGenerationWith
<1>6. Becomes(new) /\ OnChange(value) /\ view.dataset # None
      /\ microtask' = Reconciliation(chosen) /\ UNCHANGED <<edition, view, rendered, effect>>
  BY <1>5 DEF Choose
<1>7. view.dataset \in Editions  BY <1>6 DEF FieldTypes, StateOK
<1>8. StateMeans(s, TRUE) /\ Subject(s) = Subject(hook.state)
  <2>1. StateMeans(hook.state, FALSE)  BY <1>3 DEF HookMeans
  <2> DEFINE v == FALSE
  <2>2. StateMeans(hook.state, v)  BY <2>1
  <2> HIDE DEF v
  <2> QED  BY <1>2, <1>3, <1>6, <2>2, ChooseMeans
<1>9. PathOK(path) /\ path # <<>> /\ RealPath(view.dataset, path)
  <2>1. StateMeans(hook.state, FALSE)  BY <1>3 DEF HookMeans
  <2> DEFINE v == FALSE
  <2>2. StateMeans(hook.state, v)  BY <2>1
  <2> HIDE DEF v
  <2>3. RealPath(view.dataset, path)  BY <1>2, <1>3, <2>2, ChoiceIsReal
  <2>4. PathOK(path) /\ Len(path) = i  BY <1>2, <1>3, PathWithFacts
  <2>5. i \in 1 .. Len(hook.state.path) + 1 /\ Len(hook.state.path) \in Nat
    BY <1>2, <1>3, ParentOfLayer
  <2>6. Len(path) # 0  BY <2>4, <2>5
  <2> HIDE DEF path
  <2> QED  BY <2>3, <2>4, <2>6
<1>10. Genuine(value) /\ value.dataset = view.dataset  BY <1>7, <1>9, RealPathIsWhole
<1> HIDE DEF s, path, value
<1>15. PICK u \in BOOLEAN : u = TRUE  OBVIOUS
<1>11. u \in BOOLEAN /\ StateMeans(s, u)  BY <1>8, <1>15
<1>12. HookOK(chosen)  BY <1>3, <1>4, GenerationKeeps
<1>13. /\ HookMeans(chosen, u) /\ chosen.state = s /\ chosen.generation = hook.generation + 1
       /\ NoHits(chosen)
  <2> DEFINE v == FALSE
  <2>1. HookMeans(hook, v)  BY <1>3
  <2> HIDE DEF v
  <2> QED  BY <1>3, <1>4, <1>11, <2>1, GenerationMeans
<1> HIDE DEF chosen
<1>14. HookOK(checked)  BY <1>7, <1>12, ValidateKeeps
<1>16. /\ HookMeans(checked, u) /\ checked.generation = hook.generation + 1
       /\ checked.state = s /\ NoHits(checked)
  <2>1. \/ u
        \/ /\ chosen.state.value # None /\ CodesOf(path) = chosen.state.value.codes
           /\ view.dataset = chosen.state.value.dataset
    BY <1>15
  <2> HIDE DEF checked
  <2>2. checked = Validate(chosen, view.dataset, path)  BY DEF checked
  <2> QED  BY <1>11, <1>12, <1>13, <2>1, <2>2, ValidateMeans
<1> HIDE DEF checked
<1>17. HookOK(new)  BY <1>7, <1>14, LoadLayerKeeps
<1>18. view.dataset = checked.state.dataset  BY <1>2, <1>8, <1>16 DEF Subject
<1>19. /\ HookMeans(new, u) /\ new.generation = hook.generation + 1
       /\ Subject(new.state) = Subject(hook.state) /\ NoHits(new)
  <2> DEFINE l == node.level + 1
  <2>1. new = LoadLayer(checked, l, node.code, view.dataset, NoCursor)  OBVIOUS
  <2> HIDE DEF l, new
  <2>3. l # 1 => view.dataset = checked.state.dataset  BY <1>18
  <2>4. checked.state.value = None => u \/ l = 1  BY <1>15
  <2>2. /\ HookMeans(new, u) /\ new.generation = checked.generation
        /\ Subject(new.state) = Subject(checked.state) /\ (NoHits(checked) => NoHits(new))
    BY <1>11, <1>14, <1>16, <2>1, <2>3, <2>4, LoadLayerMeans
  <2> QED  BY <1>8, <1>16, <2>2
<1> HIDE DEF new
<1>20. hook'.generation = new.generation
  BY <1>6, <1>11, <1>17, <1>19, BecomesMeans
<1>21. microtask' = [generation |-> new.generation, value |-> rendered.value]
  BY <1>6, <1>13, <1>19 DEF Reconciliation
<1>22. Live' /\ Unsettled' = u  BY <1>6, <1>15, <1>20, <1>21, QueuedIsLive
<1>23. /\ hostProps'.value \in {value, hostProps.value}
       /\ hostProps' # hostProps => hostProps.value # hostProps'.value
  BY <1>6, SteadyReply
<1>24. /\ Genuine(hostProps'.value)
       /\ hostProps'.value # None => /\ hook.state.dataset \in {None, hostProps'.value.dataset}
                                     /\ view.dataset \in {None, hostProps'.value.dataset}
  BY <1>2, <1>10, <1>23 DEF FieldMeans, OneDataset
<1>25. rendered # hostProps' => rendered.value # hostProps'.value  BY <1>2, <1>23
<1>26. view' = view /\ rendered' = rendered /\ effect' = effect  BY <1>6
<1>27. view.dataset # None /\ view.dataset = hook.state.dataset  BY <1>2, <1>6
<1>28. Becomes(new)  BY <1>6
<1>29. FieldMeans'
  BY <1>2, <1>11, <1>17, <1>19, <1>21, <1>22, <1>24, <1>25, <1>26, <1>27, <1>28, GenerationStep
<1> QED  BY <1>15, <1>22, <1>29

\* The user clears the field.
LEMMA ClearingMeans ==
  ASSUME SteadyHost, NoneIsNull, IsProps(hostProps), FieldTypes, FieldMeans, Clear
  PROVE  FieldMeans' /\ Unsettled'
<1> DEFINE g == NextGeneration(hook)
           s == DispatchClear(hook.state)
           new == [g EXCEPT !.state = s, !.told = None]
<1>1. UpToDate  BY DEF Clear
<1>2. /\ Unsettled = FALSE /\ view = hook.state /\ effect = "none" /\ rendered = hostProps
  BY <1>1, UpToDateIsSettled
<1>3. HookOK(hook) /\ StateOK(hook.state) /\ HookMeans(hook, FALSE)
  BY <1>2 DEF FieldTypes, FieldMeans, HookOK
<1>4. StateOK(s) /\ s.generation = hook.generation + 1
  BY <1>3, ClearKeeps DEF HookOK
<1>5. g.state = hook.state
  <2> HIDE DEF s
  <2> QED  BY <1>3, <1>4, NextGenerationWith
<1>6. Becomes(new) /\ OnChange(None) /\ view.path # <<>>
      /\ microtask' = Reconciliation(new) /\ UNCHANGED <<edition, view, rendered, effect>>
  BY <1>5 DEF Clear
<1> DEFINE u == TRUE
<1>7. u \in BOOLEAN /\ u = TRUE  OBVIOUS
<1> HIDE DEF u
<1>8. StateMeans(s, u) /\ Subject(s) = Subject(hook.state)  BY <1>3, ClearMeans
<1> HIDE DEF s
<1>9. HookOK(new)  BY <1>3, <1>4, GenerationKeeps
<1>10. /\ HookMeans(new, u) /\ new.state = s /\ new.generation = hook.generation + 1
       /\ NoHits(new)
  <2> DEFINE v == FALSE
  <2>1. HookMeans(hook, v)  BY <1>3
  <2> HIDE DEF v
  <2> QED  BY <1>3, <1>4, <1>8, <2>1, GenerationMeans
<1> HIDE DEF new
<1>11. hook'.generation = new.generation
  BY <1>6, <1>7, <1>9, <1>10, BecomesMeans
<1>12. microtask' = [generation |-> new.generation, value |-> rendered.value]
  BY <1>6 DEF Reconciliation
<1>13. Live' /\ Unsettled' = u  BY <1>6, <1>7, <1>11, <1>12, QueuedIsLive
<1>14. /\ hostProps'.value \in {None, hostProps.value}
       /\ hostProps' # hostProps => hostProps.value # hostProps'.value
  BY <1>6, SteadyReply
<1>15. /\ Genuine(hostProps'.value)
       /\ hostProps'.value # None => /\ hook.state.dataset \in {None, hostProps'.value.dataset}
                                     /\ view.dataset \in {None, hostProps'.value.dataset}
  BY <1>14 DEF FieldMeans, OneDataset, Genuine
<1>16. rendered # hostProps' => rendered.value # hostProps'.value  BY <1>2, <1>14
<1>17. view' = view /\ rendered' = rendered /\ effect' = effect  BY <1>6
<1>18. view.dataset # None /\ view.dataset = hook.state.dataset
  BY <1>2, <1>3, <1>6 DEF HookMeans, StateMeans
<1>19. Becomes(new) /\ Subject(new.state) = Subject(hook.state)  BY <1>6, <1>8, <1>10
<1>20. FieldMeans'
  BY <1>2, <1>7, <1>9, <1>10, <1>12, <1>13, <1>15, <1>16, <1>17, <1>18, <1>19, GenerationStep
<1> QED  BY <1>7, <1>13, <1>20

\* The user asks for the next page of a layer, or for one that failed again.
LEMMA MoreMeans ==
  ASSUME FieldTypes, FieldMeans, NEW i \in DOMAIN view.layers, LoadMore(i) \/ RetryLayer(i)
  PROVE  FieldMeans'
<1> DEFINE current == view.layers[i]
           more == LoadLayer(hook, i, current.parent, view.dataset, current.next)
           again == HydrateValue(hook, view.dataset, rendered.value)
           boot == Bootstrap(hook, rendered.value)
<1>1. /\ UpToDate /\ UNCHANGED <<hostProps, view, rendered, effect, microtask>>
      /\ \/ view.dataset # None /\ Becomes(more)
         \/ view.dataset = None /\ Becomes(boot)
         \/ view.dataset # None /\ rendered.value # None /\ Becomes(again)
  BY DEF LoadMore, RetryLayer
<1>2. /\ Unsettled = FALSE /\ view = hook.state /\ effect = "none" /\ rendered = hostProps
      /\ hook.state.value = rendered.value
  BY <1>1, UpToDateIsSettled
<1>3. HookOK(hook) /\ StateOK(hook.state)  BY DEF FieldTypes, HookOK
<1>4. view.dataset # None => view.dataset \in Editions  BY DEF FieldTypes, StateOK
<1>5. PICK u \in BOOLEAN : u = FALSE  OBVIOUS
<1>6. HookMeans(hook, u) /\ HookMeans(hook, FALSE) /\ Unsettled = u
  BY <1>2, <1>5 DEF FieldMeans
<1>7. SUFFICES ASSUME NEW k, Becomes(k), HookOK(k), HookMeans(k, u),
                      k.generation = hook.generation,
                      Subject(k.state) = Subject(hook.state), NoHits(hook) => NoHits(k)
               PROVE  FieldMeans'
  <2>0. ASSUME NEW k, Becomes(k), HookOK(k), HookMeans(k, u),
               k.generation = hook.generation,
               Subject(k.state) = Subject(hook.state), NoHits(hook) => NoHits(k)
        PROVE  FieldMeans'
    <3>1. effect # "mount" /\ view'.dataset = view.dataset
          /\ UNCHANGED <<hostProps, rendered, effect, microtask>>
      BY <1>1, <1>2
    <3>2. HookMeans(k, Unsettled)  BY <1>6, <2>0
    <3> QED  BY <2>0, <3>1, <3>2, QuietStep
  <2>1. CASE view.dataset # None /\ Becomes(more)
    <3>1. i # 1 => view.dataset = hook.state.dataset  BY <1>2
    <3>2. hook.state.value = None => u \/ i = 1
      <4>1. i \in 1 .. Len(hook.state.path) + 1  BY <1>2, <1>3, ParentOfLayer
      <4>2. hook.state.value = None => hook.state.path = <<>>
        BY <1>6 DEF HookMeans, StateMeans
      <4>3. hook.state.path = <<>> => Len(hook.state.path) = 0  OBVIOUS
      <4> QED  BY <4>1, <4>2, <4>3
    <3>3. HookOK(more)  BY <1>3, <1>4, <2>1, LoadLayerKeeps
    <3>4. /\ HookMeans(more, u) /\ more.generation = hook.generation
          /\ Subject(more.state) = Subject(hook.state) /\ (NoHits(hook) => NoHits(more))
      BY <1>3, <1>6, <3>1, <3>2, LoadLayerMeans
    <3> HIDE DEF more
    <3> QED  BY <2>0, <2>1, <3>3, <3>4
  <2>2. CASE view.dataset = None /\ Becomes(boot)
    <3>1. NoHits(hook)  BY <2>2 DEF FieldMeans, ShownIsMeant
    <3>2. HookOK(boot)
      <4>1. rendered.value = None \/ rendered.value.dataset \in Editions
        BY DEF FieldTypes, PropsOK
      <4> QED  BY <1>3, <4>1, BootstrapKeeps
    <3>3. /\ HookMeans(boot, FALSE) /\ boot.generation = hook.generation
          /\ Subject(boot.state) = Subject(hook.state) /\ (NoHits(hook) => NoHits(boot))
      BY <1>2, <1>3, <1>6, <3>1, BootstrapMeans
    <3> HIDE DEF boot
    <3>4. HookMeans(boot, u)  BY <1>5, <3>3
    <3> QED  BY <2>0, <2>2, <3>2, <3>3, <3>4
  <2>3. CASE view.dataset # None /\ rendered.value # None /\ Becomes(again)
    <3>1. view.dataset = rendered.value.dataset /\ rendered.value.dataset = hook.state.dataset
      BY <1>2, <2>3 DEF FieldMeans, OneDataset
    <3>2. HookOK(again)  BY <1>3, <1>4, <2>3, HydrateKeeps
    <3>3. again = HydrateValue(hook, rendered.value.dataset, rendered.value)  BY <3>1
    <3> HIDE DEF again
    <3>4. /\ HookMeans(again, u) /\ again.generation = hook.generation
          /\ Subject(again.state) = Subject(hook.state) /\ (NoHits(hook) => NoHits(again))
      BY <1>2, <1>3, <1>6, <2>3, <3>1, <3>3, HydrateValueMeans
    <3> QED  BY <2>0, <2>3, <3>2, <3>4
  <2> QED  BY <1>1, <2>1, <2>2, <2>3
<1> QED
  <2>1. effect # "mount" /\ view'.dataset = view.dataset
        /\ UNCHANGED <<hostProps, rendered, effect, microtask>>
    BY <1>1, <1>2
  <2>2. HookMeans(k, Unsettled)  BY <1>6, <1>7
  <2> QED  BY <1>7, <2>1, <2>2, QuietStep

\* The user searches.
LEMMA SearchMeans ==
  ASSUME FieldTypes, FieldMeans, Search
  PROVE  FieldMeans'
<1> DEFINE r == FreshRequest(hook)
           asks == [context |-> SearchContext(view, rendered)]
           c == NewCall("search", hook.generation, r, view.dataset, asks)
           gone == {x \in hook.calls : x.kind = "search"}
           asked == Abort(hook.calls, gone) \cup {c}
           new == [hook EXCEPT !.calls = asked]
<1>1. UpToDate /\ Becomes(new) /\ UNCHANGED <<hostProps, view, rendered, effect, microtask>>
  BY DEF Search
<1>2. Unsettled = FALSE /\ effect = "none"  BY <1>1, UpToDateIsSettled
<1>3. HookOK(hook)  BY DEF FieldTypes
<1>4. PICK u \in BOOLEAN : u = FALSE  OBVIOUS
<1>5. HookMeans(hook, u) /\ Unsettled = u  BY <1>2, <1>4 DEF FieldMeans
<1>6. CallOK(c) /\ c.kind = "search" /\ c.generation = hook.generation
  <2> HIDE DEF asks, r
  <2>1. /\ DOMAIN c = {"kind", "generation", "request", "dataset", "asks", "aborted"}
        /\ c.kind = "search" /\ c.generation = hook.generation
    BY DEF NewCall
  <2> HIDE DEF c
  <2> QED  BY <2>1 DEF CallOK
<1> HIDE DEF c
<1>7. \A x \in asked : CallOK(x)  BY <1>3, <1>6, AbortKeeps DEF HookOK
<1>8. HookOK(new)
  <2> HIDE DEF asked
  <2> QED  BY <1>3, <1>7, HookWithCalls
<1>9. /\ new.calls = asked /\ new.state = hook.state /\ new.generation = hook.generation
      /\ new.told = hook.told
  BY <1>3 DEF HookOK
<1> HIDE DEF new
<1> DEFINE added == {c}
<1>10. Asked(added, hook, u)
  <2>1. IsFiniteSet(added)  BY FS_Singleton
  <2> QED  BY <1>6, <2>1 DEF Asked, CallMeans
<1>11. new.calls \subseteq Abort(hook.calls, gone) \cup added  BY <1>9
<1> HIDE DEF added, gone, asked
<1>12. StateMeans(new.state, u) /\ Subject(new.state) = Subject(hook.state)
  BY <1>5, <1>9 DEF HookMeans
<1>13. HookMeans(new, u) /\ (NoHits(hook) => NoHits(new))
  BY <1>3, <1>5, <1>9, <1>10, <1>11, <1>12, HookChange
<1>14. HookMeans(new, Unsettled)  BY <1>5, <1>13
<1>15. effect # "mount" /\ view'.dataset = view.dataset /\ Becomes(new)
       /\ UNCHANGED <<hostProps, rendered, effect, microtask>>
  BY <1>1, <1>2
<1> QED  BY <1>8, <1>9, <1>12, <1>13, <1>14, <1>15, QuietStep

\* The user picks a hit of a search.
LEMMA PickMeans ==
  ASSUME FieldTypes, FieldMeans, NEW hit, PickHit(hit)
  PROVE  FieldMeans'
<1> DEFINE g == NextGeneration(hook)
           s == DispatchClear(hook.state)
           k == [g EXCEPT !.state = s, !.told = None]
           asks == [code |-> hit.code, back |-> view.path]
           c == NewCall("hit", g.generation, 0, view.dataset, asks)
           new == [k EXCEPT !.calls = @ \cup {c}]
<1>1. UpToDate /\ UNCHANGED <<hostProps, view, rendered, effect, microtask>>
  BY DEF PickHit
<1>2. /\ Unsettled = FALSE /\ view = hook.state /\ effect = "none" /\ rendered = hostProps
      /\ microtask = None
  BY <1>1, UpToDateIsSettled
<1>3. HookOK(hook) /\ StateOK(hook.state)  BY DEF FieldTypes, HookOK
<1>4. StateOK(s) /\ s.generation = hook.generation + 1
  BY <1>3, ClearKeeps DEF HookOK
<1>5. g.state = hook.state /\ g.generation = hook.generation + 1
  <2> HIDE DEF s
  <2> QED  BY <1>3, <1>4, NextGenerationWith
<1>6. CASE UNCHANGED hook  BY <1>1, <1>6, IdleStep
<1>7. CASE Becomes([g EXCEPT !.state = DispatchClear(@), !.told = None, !.calls = @ \cup {c}])
           /\ view.dataset # None
  <2>1. [g EXCEPT !.state = DispatchClear(@), !.told = None, !.calls = @ \cup {c}] = new
    <3>1. DispatchClear(g.state) = s  BY <1>5
    <3> HIDE DEF g, s, c
    <3> QED  BY <3>1
  <2>2. Becomes(new)  BY <1>7, <2>1
  <2>3. PICK u \in BOOLEAN : u = FALSE  OBVIOUS
  <2>4. HookMeans(hook, u) /\ HookMeans(hook, FALSE)  BY <1>2, <2>3 DEF FieldMeans
  <2>5. StateMeans(s, u) /\ Subject(s) = Subject(hook.state)  BY <1>3, ClearMeans
  <2>6. view.dataset \in Editions  BY <1>7 DEF FieldTypes, StateOK
  <2>7. /\ DOMAIN c = {"kind", "generation", "request", "dataset", "asks", "aborted"}
        /\ c.kind = "hit" /\ c.dataset = view.dataset /\ c.asks.back = view.path
        /\ c.generation = hook.generation + 1
    <3> HIDE DEF g
    <3> QED  BY <1>5 DEF NewCall
  <2> HIDE DEF s, c
  <2>8. HookOK(k)  BY <1>3, <1>4, GenerationKeeps
  <2>9. /\ HookMeans(k, u) /\ k.state = s /\ k.generation = hook.generation + 1
        /\ \A x \in k.calls : ~ IsNow(k, x)
    BY <1>3, <1>4, <2>4, <2>5, GenerationMeans
  <2> HIDE DEF k
  <2>10. PathOK(view.path)  BY DEF FieldTypes, StateOK
  <2>11. CallOK(c)  BY <2>6, <2>7, <2>10 DEF CallOK
  <2> DEFINE asked == k.calls \cup {c}
  <2>12. \A x \in asked : CallOK(x)  BY <2>8, <2>11 DEF HookOK
  <2>13. new = [k EXCEPT !.calls = asked]  OBVIOUS
  <2> HIDE DEF asked, new
  <2>14. HookOK(new)  BY <2>8, <2>12, <2>13, HookWithCalls
  <2>15. /\ new.calls = asked /\ new.state = s /\ new.generation = hook.generation + 1
         /\ new.told = k.told
    BY <2>8, <2>9, <2>13 DEF HookOK
  <2>16. CallMeans(c, s, u)
    <3>1. StateMeans(hook.state, FALSE)  BY <2>4 DEF HookMeans
    <3>2. /\ s.value = hook.state.value /\ s.dataset = hook.state.dataset
      BY <2>5 DEF Subject
    <3>3. RealPath(view.dataset, view.path) /\ (s.value = None => view.path = <<>>)
      BY <1>2, <3>1, <3>2 DEF StateMeans
    <3> QED  BY <1>2, <2>3, <2>7, <3>2, <3>3 DEF CallMeans
  <2>17. hook.generation \in Nat  BY DEF FieldMeans, HookMeans
  <2>18. \A x \in new.calls : IsNow(new, x) => x = c
    BY <2>9, <2>15 DEF IsNow, asked
  <2>19. CallsMean(new, u)
    <3>1. IsFiniteSet(new.calls)
      <4>1. IsFiniteSet(k.calls) /\ IsFiniteSet({c})  BY <2>9, FS_Singleton DEF HookMeans, CallsMean
      <4>2. IsFiniteSet(k.calls \cup {c})  BY <4>1, FS_Union
      <4> QED  BY <2>15, <4>2 DEF asked
    <3>2. \A x \in new.calls : x.generation \in Nat /\ x.generation <= new.generation
      BY <2>7, <2>9, <2>15, <2>17 DEF asked, HookMeans, CallsMean
    <3> QED  BY <2>7, <2>15, <2>16, <2>18, <3>1, <3>2 DEF CallsMean
  <2>20. HookMeans(new, u)
    BY <2>5, <2>9, <2>15, <2>17, <2>19 DEF HookMeans
  <2>21. Unsettled' = u
    BY <1>1, <1>2, <2>3 DEF Unsettled, Live
  <2>22. /\ Genuine(hostProps'.value)
         /\ hostProps'.value # None => /\ hook.state.dataset \in {None, hostProps'.value.dataset}
                                       /\ view.dataset \in {None, hostProps'.value.dataset}
         /\ rendered # hostProps' => rendered.value # hostProps'.value
    BY <1>1, <1>2 DEF FieldMeans, OneDataset
  <2>23. view' = view /\ rendered' = rendered /\ effect' = effect /\ microtask' = None
    BY <1>1, <1>2
  <2>24. view.dataset # None /\ view.dataset = hook.state.dataset  BY <1>2, <1>7
  <2>25. new.generation = hook.generation + 1 /\ Subject(new.state) = Subject(hook.state)
    BY <2>5, <2>15
  <2> QED  BY <1>2, <2>2, <2>14, <2>20, <2>21, <2>22, <2>23, <2>24, <2>25, GenerationStep
<1> QED  BY <1>6, <1>7 DEF PickHit

-----------------------------------------------------------------------------
(* The answers.                                                             *)

\* A call that is over.
LEMMA FinishedMeans ==
  ASSUME HookOK(hook), NEW u \in BOOLEAN, HookMeans(hook, u), NEW call
  PROVE  LET f == Finished(call) IN
         /\ HookOK(f) /\ HookMeans(f, u) /\ f.state = hook.state
         /\ f.generation = hook.generation /\ f.told = hook.told
         /\ f.calls = hook.calls \ {call}
         /\ NoHits(hook) => NoHits(f)
<1> DEFINE f == Finished(call)
<1>1. /\ HookOK(f) /\ f.state = hook.state /\ f.generation = hook.generation
      /\ f.told = hook.told /\ f.calls = hook.calls \ {call}
  BY FinishedKeeps DEF Finished, HookOK
<1> HIDE DEF f
<1>2. HookMeans(f, u) /\ (NoHits(hook) => NoHits(f))
  <2>1. f.calls \subseteq hook.calls  BY <1>1
  <2> QED  BY <1>1, <2>1, FewerCalls
<1> QED  BY <1>1, <1>2 DEF f

\* A state of the same meaning, or something else that was told.
LEMMA StateChange ==
  ASSUME NEW h, HookOK(h), NEW u \in BOOLEAN, HookMeans(h, u),
         NEW k, k.generation = h.generation, k.calls = h.calls,
         StateMeans(k.state, u), Subject(k.state) = Subject(h.state),
         k.told = h.told \/ ToldMeans(k.told, h.state, u)
  PROVE  HookMeans(k, u) /\ (NoHits(h) => NoHits(k))
<1> DEFINE none == {}
<1>1. k.calls \subseteq Abort(h.calls, none) \cup none  BY AbortNone
<1>2. Asked(none, h, u)  BY FS_EmptySet DEF Asked
<1>3. CallsMean(k, u) /\ (NoHits(h) => NoHits(k))
  <2> DEFINE s == k.state
  <2>1. Subject(s) = Subject(h.state) /\ k.state = s  OBVIOUS
  <2> HIDE DEF s, none
  <2>2. CallsMean(h, u) /\ h.generation \in Nat  BY DEF HookMeans
  <2>3. \A a \in none : CallMeans(a, s, u)  BY <1>2, <2>1, SameSubject DEF Asked
  <2> QED  BY <1>1, <1>2, <2>1, <2>2, <2>3, CallsChange DEF Asked
<1>4. ToldMeans(k.told, k.state, u)
  <2>1. ToldMeans(k.told, h.state, u)  BY DEF HookMeans
  <2> QED  BY <2>1, SameSubject
<1> QED  BY <1>3, <1>4 DEF HookMeans

\* While there is a call the field has been mounted.
LEMMA Mounted ==
  ASSUME FieldMeans, NEW call \in hook.calls
  PROVE  effect # "mount"
  BY DEF FieldMeans, PropsFollow

\* What a current call is about.
LEMMA CurrentMeans ==
  ASSUME FieldMeans, NEW call \in hook.calls, Current(call)
  PROVE  CallMeans(call, hook.state, Unsettled)
<1> DEFINE v == Unsettled
<1>1. CallsMean(hook, v)  BY DEF FieldMeans, HookMeans
<1> HIDE DEF v
<1>2. CallMeans(call, hook.state, v)  BY <1>1 DEF CallsMean, Current, IsNow
<1> QED  BY <1>2 DEF v

\* A call of an older generation, or a search, is over.
LEMMA IgnoreMeans ==
  ASSUME FieldTypes, FieldMeans, NEW call \in hook.calls, Ignore(call) \/ AnswerSearch(call)
  PROVE  FieldMeans'
<1> DEFINE f == Finished(call)
<1>1. /\ Becomes(f) /\ UNCHANGED <<hostProps, rendered, effect, microtask>>
      /\ view' = view \/ (view = hook.state /\ view' = hook'.state)
  BY DEF Ignore, AnswerSearch, RenderedAtOnce
<1>2. HookOK(hook) /\ effect # "mount"  BY Mounted DEF FieldTypes
<1>3. PICK u \in BOOLEAN : u = Unsettled  BY DEF Unsettled, Live
<1>4. HookMeans(hook, u)  BY <1>3 DEF FieldMeans
<1>5. /\ HookOK(f) /\ HookMeans(f, u) /\ f.state = hook.state
      /\ f.generation = hook.generation
      /\ NoHits(hook) => NoHits(f)
  BY <1>2, <1>4, FinishedMeans
<1> HIDE DEF f
<1>6. hook'.state = f.state  BY <1>1, <1>5, BecomesKeeps
<1>7. view'.dataset = view.dataset  BY <1>1, <1>5, <1>6
<1>8. Subject(f.state) = Subject(hook.state)  BY <1>5
<1>9. HookMeans(f, Unsettled)  BY <1>3, <1>5
<1> QED  BY <1>1, <1>2, <1>5, <1>7, <1>8, <1>9, QuietStep

\* The answer to a path that is asked for.
LEMMA AnswerPathMeans ==
  ASSUME FieldTypes, FieldMeans, NEW call \in hook.calls, AnswerPath(call)
  PROVE  FieldMeans'
<1> DEFINE f == Finished(call)
           path == NodesTo(call.dataset, call.asks.code)
           found == Hydrated(f, call.dataset, path)
           failed == FailRoot(f, <<>>)
           new == IF Known(call) THEN found ELSE failed
<1>1. /\ Becomes(new) /\ UNCHANGED <<hostProps, view, rendered, effect, microtask>>
      /\ call.kind = "path" /\ Current(call)
  BY DEF AnswerPath
<1>2. HookOK(hook) /\ effect # "mount"  BY Mounted DEF FieldTypes
<1>3. PICK u \in BOOLEAN : u = Unsettled  BY DEF Unsettled, Live
<1>4. HookMeans(hook, u)  BY <1>3 DEF FieldMeans
<1>5. /\ HookOK(f) /\ HookMeans(f, u) /\ f.state = hook.state
      /\ f.generation = hook.generation
      /\ NoHits(hook) => NoHits(f)
  BY <1>2, <1>4, FinishedMeans
<1> HIDE DEF f
<1>6. /\ hook.state.value # None /\ call.asks.code = Last(hook.state.value.codes)
      /\ call.dataset = hook.state.value.dataset /\ call.dataset = hook.state.dataset
  BY <1>1, CurrentMeans DEF CallMeans
<1>7. call.dataset \in Editions  BY <1>1, <1>2 DEF HookOK, CallOK
<1>8. CASE Known(call)
  <2>1. /\ PathOK(path) /\ RealPath(call.dataset, path)
        /\ CodesOf(path) = PathTo(Library[call.dataset], call.asks.code)
    BY <1>7, <1>8, NodesToMeans DEF Known
  <2> HIDE DEF path
  <2>2. CodesOf(path) = hook.state.value.codes
    BY <1>6, <1>8, <2>1 DEF FieldMeans, OneDataset, Genuine, Known
  <2>3. HookOK(found)  BY <1>5, <1>7, <2>1, HydratedKeeps
  <2>4. /\ HookMeans(found, u) /\ found.generation = f.generation
        /\ Subject(found.state) = Subject(f.state) /\ (NoHits(f) => NoHits(found))
    <3> HIDE DEF found
    <3>1. found = Hydrated(f, call.dataset, path)  BY DEF found
    <3>2. \/ u
          \/ /\ f.state.value # None /\ CodesOf(path) = f.state.value.codes
             /\ call.dataset = f.state.value.dataset
      BY <1>5, <1>6, <2>2
    <3>3. call.dataset = f.state.dataset  BY <1>5, <1>6
    <3> QED  BY <1>5, <1>7, <2>1, <3>1, <3>2, <3>3, PathFoundMeans
  <2>5. Becomes(found)  BY <1>1, <1>8
  <2> HIDE DEF found
  <2>6. HookMeans(found, Unsettled)  BY <1>3, <2>4
  <2>7. view'.dataset = view.dataset  BY <1>1
  <2> QED  BY <1>1, <1>2, <1>5, <2>3, <2>4, <2>5, <2>6, <2>7, QuietStep
<1>9. CASE ~ Known(call)
  <2>1. HookOK(failed)  BY <1>5, EmptyPath, FailRootKeeps
  <2>2. /\ HookMeans(failed, u) /\ failed.generation = f.generation
        /\ Subject(failed.state) = Subject(f.state) /\ failed.calls = f.calls
    BY <1>5, EmptyPath, NoPathIsReal, FailRootMeans
  <2>3. Becomes(failed)  BY <1>1, <1>9
  <2> HIDE DEF failed
  <2>4. HookMeans(failed, Unsettled)  BY <1>3, <2>2
  <2>5. NoHits(f) => NoHits(failed)  BY <2>2 DEF NoHits, IsNow
  <2>6. view'.dataset = view.dataset  BY <1>1
  <2> QED  BY <1>1, <1>2, <1>5, <2>1, <2>2, <2>3, <2>4, <2>5, <2>6, QuietStep
<1> QED  BY <1>8, <1>9

\* The verdict about a value.
LEMMA AnswerValidateMeans ==
  ASSUME FieldTypes, FieldMeans, NEW call \in hook.calls, AnswerValidate(call)
  PROVE  FieldMeans'
<1> DEFINE f == Finished(call)
           reason == Verdict(Library[call.dataset], call.asks.codes, call.asks.target)
           result == [dataset |-> call.dataset, codes |-> call.asks.codes,
                      target |-> call.asks.target,
                      reason |-> reason, accepted |-> reason \in Accepting]
           s == DispatchStatus(f.state, call.generation, result)
           new == [f EXCEPT !.told = result, !.state = s]
<1>1. /\ Becomes(new) /\ UNCHANGED <<hostProps, rendered, effect, microtask>>
      /\ call.kind = "validate" /\ Current(call)
      /\ view' = view \/ (view = hook.state /\ view' = hook'.state)
  BY DEF AnswerValidate, RenderedAtOnce
<1>2. HookOK(hook) /\ effect # "mount"  BY Mounted DEF FieldTypes
<1>3. PICK u \in BOOLEAN : u = Unsettled  BY DEF Unsettled, Live
<1>4. HookMeans(hook, u)  BY <1>3 DEF FieldMeans
<1>5. /\ HookOK(f) /\ HookMeans(f, u) /\ f.state = hook.state
      /\ f.generation = hook.generation
      /\ NoHits(hook) => NoHits(f)
  BY <1>2, <1>4, FinishedMeans
<1> HIDE DEF f
<1>6. result.accepted = (reason \in Accepting)  OBVIOUS
<1>7. CallMeans(call, hook.state, u)  BY <1>1, <1>3, CurrentMeans
<1>8. ToldMeans(result, hook.state, u)
  <2> HIDE DEF result
  <2> QED  BY <1>1, <1>6, <1>7 DEF ToldMeans, CallMeans
<1> HIDE DEF result
<1>9. /\ StateOK(s) /\ s.generation = hook.generation
      /\ StateMeans(s, u) /\ Subject(s) = Subject(hook.state)
  <2>1. StateOK(f.state) /\ StateMeans(f.state, u) /\ f.state.generation = f.generation
    BY <1>5 DEF HookOK, HookMeans
  <2> QED  BY <1>5, <2>1
           DEF DispatchStatus, StateOK, StateFields, StateMeans, Subject
<1> HIDE DEF s
<1>10. HookOK(new)  BY <1>5, <1>9 DEF HookOK
<1>11. /\ new.state = s /\ new.calls = f.calls /\ new.generation = f.generation
       /\ new.told = result
  BY <1>5 DEF HookOK
<1> HIDE DEF new
<1>12. HookMeans(new, u) /\ (NoHits(f) => NoHits(new))
  <2>1. Subject(new.state) = Subject(f.state) /\ ToldMeans(new.told, f.state, u)
        /\ StateMeans(new.state, u)
    BY <1>5, <1>8, <1>9, <1>11
  <2> QED  BY <1>5, <1>11, <2>1, StateChange
<1>13. hook'.state = s  BY <1>1, <1>10, <1>11, BecomesKeeps
<1>14. view'.dataset = view.dataset  BY <1>1, <1>9, <1>13 DEF Subject
<1>15. HookMeans(new, Unsettled)  BY <1>3, <1>12
<1>16. /\ new.generation = hook.generation /\ Subject(new.state) = Subject(hook.state)
       /\ NoHits(hook) => NoHits(new)
  BY <1>5, <1>9, <1>11, <1>12
<1> QED  BY <1>1, <1>2, <1>10, <1>14, <1>15, <1>16, QuietStep

\* A page, or that there is none.
LEMMA AnswerLayerMeans ==
  ASSUME FieldTypes, FieldMeans, NEW call \in hook.calls, AnswerLayer(call)
  PROVE  FieldMeans'
<1> DEFINE f == Finished(call)
           asks == call.asks
           d == call.dataset
           query == PageQueried(call)
           answer == PageOf(Library[d], d, query, ChildrenOf(Library[d], asks.parent), asks.cursor)
           served == /\ asks.parent \in DOMAIN Library[d] \cup {Root}
                     /\ CursorFits(asks.cursor, d, query)
           loaded == DispatchLoaded(f.state, call.generation, asks.level, call.request,
                                    asks.parent, answer)
           failed == DispatchFailed(f.state, call.generation, asks.level, call.request)
           s == IF served THEN loaded ELSE failed
           new == [f EXCEPT !.state = s]
<1>1. /\ Becomes(new) /\ UNCHANGED <<hostProps, rendered, effect, microtask>>
      /\ call.kind = "layer" /\ Current(call)
      /\ view' = view \/ (view = hook.state /\ view' = hook'.state)
  BY DEF AnswerLayer, RenderedAtOnce
<1>2. HookOK(hook) /\ effect # "mount" /\ CallOK(call)  BY Mounted DEF FieldTypes, HookOK
<1>3. PICK u \in BOOLEAN : u = Unsettled  BY DEF Unsettled, Live
<1>4. HookMeans(hook, u)  BY <1>3 DEF FieldMeans
<1>5. /\ HookOK(f) /\ HookMeans(f, u) /\ f.state = hook.state
      /\ f.generation = hook.generation
      /\ NoHits(hook) => NoHits(f)
  BY <1>2, <1>4, FinishedMeans
<1>6. d \in Editions  BY <1>1, <1>2 DEF CallOK
<1>7. asks.level # 1 => d = hook.state.dataset  BY <1>1, CurrentMeans DEF CallMeans
<1> HIDE DEF f, query, asks, d
<1>8. StateOK(f.state) /\ f.state.generation = f.generation /\ StateMeans(f.state, u)
  BY <1>5 DEF HookOK, HookMeans
<1>9. /\ StateOK(failed) /\ failed.generation = f.generation
      /\ StateMeans(failed, u) /\ Subject(failed) = Subject(f.state)
  BY <1>8, FailedKeeps, FailedMeans
<1>10. ASSUME asks.parent \in DOMAIN Library[d] \cup {Root}
       PROVE  /\ StateOK(loaded) /\ loaded.generation = f.generation
              /\ StateMeans(loaded, u) /\ Subject(loaded) = Subject(f.state)
  <2>1. PageBelow(answer, d, asks.parent)
    BY <1>10, PageIsOfRows DEF PageBelow
  <2> HIDE DEF answer
  <2>2. StateOK(loaded) /\ loaded.generation = f.state.generation
    BY <1>6, <1>8, <2>1, LoadedKeeps
  <2>3. StateMeans(loaded, u) /\ Subject(loaded) = Subject(f.state)
    BY <1>5, <1>7, <1>8, <2>1, LoadedMeans
  <2> QED  BY <1>8, <2>2, <2>3
<1> HIDE DEF loaded, failed
<1>11. /\ StateOK(s) /\ s.generation = f.generation
       /\ StateMeans(s, u) /\ Subject(s) = Subject(f.state)
  BY <1>9, <1>10
<1> HIDE DEF s
<1>12. HookOK(new)  BY <1>5, <1>11, HookWithState
<1>13. /\ new.state = s /\ new.calls = f.calls /\ new.generation = f.generation
       /\ new.told = f.told
  BY <1>5 DEF HookOK
<1> HIDE DEF new
<1>14. HookMeans(new, u) /\ (NoHits(f) => NoHits(new))
  BY <1>5, <1>11, <1>13, StateChange
<1>15. hook'.state = s  BY <1>1, <1>12, <1>13, BecomesKeeps
<1>16. view'.dataset = view.dataset  BY <1>1, <1>5, <1>11, <1>15 DEF Subject
<1>17. HookMeans(new, Unsettled)  BY <1>3, <1>14
<1>18. /\ new.generation = hook.generation /\ Subject(new.state) = Subject(hook.state)
       /\ NoHits(hook) => NoHits(new)
  BY <1>5, <1>11, <1>13, <1>14
<1> QED  BY <1>1, <1>2, <1>12, <1>16, <1>17, <1>18, QuietStep

\* A call fails.
LEMMA FailMeans ==
  ASSUME FieldTypes, FieldMeans, NEW call \in hook.calls, FailField(call)
  PROVE  FieldMeans'
<1> DEFINE f == Finished(call)
           s == DispatchFailed(f.state, call.generation, call.asks.level, call.request)
           failed == [f EXCEPT !.state = s]
           back == IF call.kind = "hit" THEN call.asks.back ELSE <<>>
           root == FailRoot(f, back)
<1>1. /\ UNCHANGED <<hostProps, view, rendered, effect, microtask>> /\ Current(call)
      /\ \/ call.kind = "layer" /\ Becomes(failed)
         \/ call.kind # "layer" /\ Becomes(root)
  BY DEF FailField
<1>2. HookOK(hook) /\ effect # "mount" /\ CallOK(call)  BY Mounted DEF FieldTypes, HookOK
<1>3. PICK u \in BOOLEAN : u = Unsettled  BY DEF Unsettled, Live
<1>4. HookMeans(hook, u)  BY <1>3 DEF FieldMeans
<1>5. /\ HookOK(f) /\ HookMeans(f, u) /\ f.state = hook.state
      /\ f.generation = hook.generation
      /\ NoHits(hook) => NoHits(f)
  BY <1>2, <1>4, FinishedMeans
<1> HIDE DEF f
<1>6. CASE call.kind = "layer"
  <2>1. StateOK(f.state) /\ f.state.generation = f.generation /\ StateMeans(f.state, u)
    BY <1>5 DEF HookOK, HookMeans
  <2>2. /\ StateOK(s) /\ s.generation = f.generation
        /\ StateMeans(s, u) /\ Subject(s) = Subject(f.state)
    BY <2>1, FailedKeeps, FailedMeans
  <2> HIDE DEF s
  <2>3. HookOK(failed)  BY <1>5, <2>2, HookWithState
  <2>4. /\ failed.state = s /\ failed.calls = f.calls /\ failed.generation = f.generation
        /\ failed.told = f.told
    BY <1>5 DEF HookOK
  <2>5. Becomes(failed)  BY <1>1, <1>6
  <2> HIDE DEF failed
  <2>6. HookMeans(failed, u) /\ (NoHits(f) => NoHits(failed))
    BY <1>5, <2>2, <2>4, StateChange
  <2>7. HookMeans(failed, Unsettled)  BY <1>3, <2>6
  <2>8. /\ failed.generation = hook.generation /\ Subject(failed.state) = Subject(hook.state)
        /\ NoHits(hook) => NoHits(failed) /\ view'.dataset = view.dataset
    BY <1>1, <1>5, <2>2, <2>4, <2>6
  <2> QED  BY <1>1, <1>2, <2>3, <2>5, <2>7, <2>8, QuietStep
<1>7. CASE call.kind # "layer"
  <2>1. /\ PathOK(back) /\ RealPath(f.state.dataset, back)
        /\ f.state.dataset = None => back = <<>>
        /\ f.state.value = None => u \/ back = <<>>
    <3>1. CASE call.kind # "hit"  BY <3>1, EmptyPath, NoPathIsReal
    <3>2. CASE call.kind = "hit"
      <4>1. call.dataset \in Editions /\ PathOK(call.asks.back)  BY <1>2, <3>2 DEF CallOK
      <4>2. call.dataset = hook.state.dataset /\ RealPath(call.dataset, call.asks.back)
            /\ (hook.state.value = None => call.asks.back = <<>>)
        BY <1>1, <3>2, CurrentMeans DEF CallMeans
      <4>3. call.dataset # None  BY <4>1, AreaSelectionConstants
      <4> QED  BY <1>5, <3>2, <4>1, <4>2, <4>3
    <3> QED  BY <3>1, <3>2
  <2>2. Becomes(root)  BY <1>1, <1>7
  <2> HIDE DEF back
  <2>3. HookOK(root)  BY <1>5, <2>1, FailRootKeeps
  <2>4. /\ HookMeans(root, u) /\ root.generation = f.generation
        /\ Subject(root.state) = Subject(f.state) /\ root.calls = f.calls
    BY <1>5, <2>1, FailRootMeans
  <2> HIDE DEF root
  <2>5. NoHits(f) => NoHits(root)  BY <2>4 DEF NoHits, IsNow
  <2>6. HookMeans(root, Unsettled)  BY <1>3, <2>4
  <2>7. /\ root.generation = hook.generation /\ Subject(root.state) = Subject(hook.state)
        /\ NoHits(hook) => NoHits(root) /\ view'.dataset = view.dataset
    BY <1>1, <1>5, <2>4, <2>5
  <2> QED  BY <1>1, <1>2, <2>2, <2>3, <2>6, <2>7, QuietStep
<1> QED  BY <1>6, <1>7

\* dispatchDataset: the dataset of the value, or one for a field without a path.
LEMMA DatasetMeans ==
  ASSUME NEW h, HookOK(h), HookMeans(h, FALSE), NoHits(h), NEW d \in Editions,
         h.state.value # None => /\ d = h.state.value.dataset
                                 /\ h.state.dataset \in {None, h.state.value.dataset}
  PROVE  LET s == DispatchDataset(h.state, h.generation, d)
             k == [h EXCEPT !.state = s]
         IN /\ HookOK(k) /\ HookMeans(k, FALSE) /\ NoHits(k) /\ k.generation = h.generation
            /\ k.state.value = h.state.value /\ k.state.target = h.state.target
            /\ k.state.dataset = d
<1> DEFINE t == h.state
           s == DispatchDataset(t, h.generation, d)
           k == [h EXCEPT !.state = s]
<1>1. StateOK(t) /\ t.generation = h.generation /\ StateMeans(t, FALSE)
  BY DEF HookOK, HookMeans
<1>2. s = [t EXCEPT !.dataset = d]  BY <1>1 DEF DispatchDataset
<1> HIDE DEF t, s
<1>3. /\ StateOK(s) /\ s.generation = h.generation /\ s.value = t.value /\ s.target = t.target
      /\ s.dataset = d /\ s.path = t.path /\ s.layers = t.layers
  BY <1>1, <1>2 DEF StateOK, StateFields
<1>4. HookOK(k)  BY <1>3, HookWithState
<1>5. k.state = s /\ k.calls = h.calls /\ k.generation = h.generation /\ k.told = h.told
  BY DEF HookOK
<1> HIDE DEF k
<1>6. d # None  BY AreaSelectionConstants
<1>7. d = t.dataset \/ t.path = <<>>
  <2>1. CASE t.value = None  BY <1>1, <2>1 DEF StateMeans
  <2>2. CASE t.value # None
    <3>1. t.dataset = None \/ t.dataset = d  BY <2>2 DEF t
    <3> QED  BY <1>1, <3>1 DEF StateMeans
  <2> QED  BY <2>1, <2>2
<1>8. StateMeans(s, FALSE)
  <2>1. CASE d = t.dataset
    BY <1>1, <1>3, <1>6, <2>1 DEF StateMeans
  <2>2. CASE t.path = <<>>
    <3>1. Len(t.path) = 0  BY <2>2
    <3>2. DOMAIN t.layers = 1 .. 1
      <4>1. t.layers = [i \in 1 .. Len(t.path) + 1 |-> t.layers[i]]
        BY <1>1 DEF StateOK, LayersOK
      <4> QED  BY <3>1, <4>1
    <3>3. DOMAIN t.layers \ {1} = {}  BY <3>2
    <3>4. RealLayers(d, t.layers)  BY <3>3 DEF RealLayers
    <3> QED  BY <1>1, <1>3, <1>6, <2>2, <3>4, NoPathIsReal DEF StateMeans
  <2> QED  BY <1>7, <2>1, <2>2
<1>9. CallsMean(k, FALSE)
  <2>1. CallsMean(h, FALSE)  BY DEF HookMeans
  <2>2. ASSUME NEW c \in k.calls, IsNow(k, c)  PROVE CallMeans(c, s, FALSE)
    <3>1. IsNow(h, c) /\ CallOK(c)  BY <1>5, <2>2 DEF IsNow, HookOK
    <3>2. CallMeans(c, t, FALSE)  BY <2>1, <3>1 DEF CallsMean, IsNow, t
    <3>3. c.kind # "hit"  BY <1>5, <2>2, <3>1 DEF NoHits
    <3>4. c.kind \in {"layer", "path"} => c.dataset \in Editions /\ c.dataset # None
      BY <3>1, AreaSelectionConstants DEF CallOK
    <3>5. t.value # None => d = t.value.dataset /\ t.dataset \in {None, d}
      BY DEF t
    <3>6. c.kind = "layer" /\ c.asks.level # 1 => c.dataset = d
      <4> SUFFICES ASSUME c.kind = "layer", c.asks.level # 1  PROVE c.dataset = d
        OBVIOUS
      <4>1. c.dataset = t.dataset /\ t.value # None  BY <3>2 DEF CallMeans
      <4> QED  BY <3>4, <3>5, <4>1
    <3>7. c.kind = "path" => c.dataset = d
      BY <3>2, <3>5 DEF CallMeans
    <3> QED  BY <1>3, <3>2, <3>3, <3>6, <3>7 DEF CallMeans
  <2> QED  BY <1>5, <2>1, <2>2 DEF CallsMean, IsNow
<1>10. ToldMeans(k.told, s, FALSE)
  <2>1. ToldMeans(h.told, t, FALSE)  BY DEF HookMeans, t
  <2> QED  BY <1>3, <1>5, <2>1 DEF ToldMeans
<1>11. HookMeans(k, FALSE) /\ NoHits(k)
  BY <1>5, <1>8, <1>9, <1>10 DEF HookMeans, NoHits, IsNow
<1> QED  BY <1>3, <1>4, <1>5, <1>11 DEF k, s, t

\* The dataset a field is about.
LEMMA AnswerDatasetMeans ==
  ASSUME FieldTypes, FieldMeans, NEW call \in hook.calls, AnswerDataset(call)
  PROVE  FieldMeans'
<1> DEFINE f == Finished(call)
           d == IF call.dataset = None THEN edition ELSE call.dataset
           s == DispatchDataset(f.state, f.generation, d)
           h == [f EXCEPT !.state = s]
           first == LoadLayer(h, 1, Root, d, NoCursor)
           path == HydrateValue(h, d, call.asks.value)
           new == IF call.asks.value = None THEN first ELSE path
<1>1. /\ UNCHANGED <<hostProps, view, rendered, effect, microtask>>
      /\ call.kind = "dataset" /\ Current(call)
  BY DEF AnswerDataset
<1>2. /\ HookOK(hook) /\ effect \in {"none", "changed"} /\ CallOK(call)
      /\ HookMeans(hook, Unsettled)
  BY Mounted DEF FieldTypes, HookOK, FieldMeans, PropsFollow
<1>3. /\ Unsettled = FALSE /\ call.asks.value = hook.state.value
      /\ call.dataset = IF hook.state.value = None THEN None ELSE hook.state.value.dataset
  BY <1>1, CurrentMeans DEF CallMeans, Unsettled, Live
<1>4. PICK u \in BOOLEAN : u = FALSE  OBVIOUS
<1>5. HookMeans(hook, u)  BY <1>2, <1>3, <1>4
<1>6. /\ HookOK(f) /\ HookMeans(f, u) /\ f.state = hook.state
      /\ f.generation = hook.generation
      /\ NoHits(hook) => NoHits(f)
  BY <1>2, <1>5, FinishedMeans
<1>7. call.generation = f.generation  BY <1>1, <1>6 DEF Current
<1>8. Becomes(new)  BY <1>7 DEF AnswerDataset
<1>9. NoHits(hook)
  <2>1. CallsMean(hook, u) /\ IsNow(hook, call)  BY <1>1, <1>5 DEF HookMeans, IsNow, Current
  <2> QED  BY <1>1, <2>1 DEF CallsMean, NoHits
<1>10. d \in Editions  BY <1>1, <1>2 DEF CallOK, FieldTypes
<1>11. /\ rendered = hostProps /\ effect = "none" /\ ~ Live
       /\ hook.state.value = rendered.value /\ hook.state.target = rendered.target
  BY <1>3 DEF Unsettled, FieldMeans, PropsFollow
<1>12. hook.state.value # None => /\ d = hook.state.value.dataset
                                  /\ hook.state.dataset \in {None, hook.state.value.dataset}
                                  /\ view.dataset \in {None, hook.state.value.dataset}
  <2> SUFFICES ASSUME hook.state.value # None
               PROVE  /\ d = hook.state.value.dataset
                      /\ hook.state.dataset \in {None, hook.state.value.dataset}
                      /\ view.dataset \in {None, hook.state.value.dataset}
    OBVIOUS
  <2>1. /\ hook.state.value.dataset \in Editions
        /\ hook.state.dataset \in {None, hook.state.value.dataset}
        /\ view.dataset \in {None, hook.state.value.dataset}
    BY <1>11 DEF FieldTypes, PropsOK, FieldMeans, OneDataset
  <2>2. hook.state.value.dataset # None  BY <2>1, AreaSelectionConstants
  <2> QED  BY <1>3, <2>1, <2>2
<1> HIDE DEF f, d
<1>13. /\ HookOK(h) /\ HookMeans(h, FALSE) /\ NoHits(h) /\ h.generation = hook.generation
       /\ h.state.value = hook.state.value /\ h.state.target = hook.state.target
       /\ h.state.dataset = d
  <2>1. HookMeans(f, FALSE)  BY <1>4, <1>6
  <2>2. NoHits(f) /\ HookOK(f)  BY <1>6, <1>9
  <2>3. f.state.value # None => /\ d = f.state.value.dataset
                                /\ f.state.dataset \in {None, f.state.value.dataset}
    BY <1>6, <1>12
  <2> HIDE DEF h
  <2>4. h = [f EXCEPT !.state = DispatchDataset(f.state, f.generation, d)]  BY DEF h
  <2>5. /\ HookOK(h) /\ HookMeans(h, FALSE) /\ NoHits(h) /\ h.generation = f.generation
        /\ h.state.value = f.state.value /\ h.state.target = f.state.target
        /\ h.state.dataset = d
    BY <1>10, <2>1, <2>2, <2>3, <2>4, DatasetMeans
  <2> QED  BY <1>6, <2>5
<1> HIDE DEF h
<1>14. HookMeans(h, u)  BY <1>4, <1>13
<1>15. HookOK(first) /\ HookOK(path)  BY <1>10, <1>13, LoadLayerKeeps, HydrateKeeps
<1>16. /\ HookMeans(first, u) /\ first.generation = h.generation
       /\ Subject(first.state) = Subject(h.state) /\ NoHits(first)
  BY <1>13, <1>14, LoadLayerMeans
<1>17. call.asks.value # None =>
       /\ HookMeans(path, u) /\ path.generation = h.generation
       /\ Subject(path.state) = Subject(h.state) /\ NoHits(path)
  <2> SUFFICES ASSUME call.asks.value # None
               PROVE  /\ HookMeans(path, u) /\ path.generation = h.generation
                      /\ Subject(path.state) = Subject(h.state) /\ NoHits(path)
    OBVIOUS
  <2> DEFINE value == hook.state.value
  <2>1. value # None /\ value = h.state.value /\ value.dataset = h.state.dataset
    BY <1>3, <1>12, <1>13
  <2>2. path = HydrateValue(h, value.dataset, value)  BY <1>3, <1>12, <2>1
  <2> HIDE DEF path, value
  <2> QED  BY <1>13, <1>14, <2>1, <2>2, HydrateValueMeans
<1> HIDE DEF first, path
<1>18. /\ HookOK(new) /\ HookMeans(new, u) /\ new.generation = h.generation
       /\ Subject(new.state) = Subject(h.state) /\ NoHits(new)
  BY <1>15, <1>16, <1>17
<1> HIDE DEF new
<1>19. /\ HookMeans(hook', u) /\ hook'.state = new.state /\ hook'.generation = hook.generation
       /\ NoHits(hook')
  BY <1>8, <1>13, <1>18, BecomesMeans
<1>20. ~ Live' /\ Unsettled' = u
  BY <1>1, <1>4, <1>11, <1>19 DEF Live, Unsettled
<1>21. HookMeans(hook, Unsettled)'  BY <1>19, <1>20
<1>22. /\ hook'.state.value = hook.state.value /\ hook'.state.target = hook.state.target
       /\ hook'.state.dataset = d
  BY <1>13, <1>18, <1>19 DEF Subject
<1>23. PropsFollow'  BY <1>1, <1>11, <1>20, <1>22 DEF PropsFollow
<1>24. QueuedForThis'  BY <1>1, <1>19 DEF FieldMeans, QueuedForThis
<1>25. d # None  BY <1>10, AreaSelectionConstants
<1>26. ShownIsMeant'  BY <1>1, <1>19, <1>20, <1>22, <1>25 DEF ShownIsMeant
<1>27. OneDataset'
  <2>1. \A v \in {hostProps.value, rendered.value, hook.state.value} :
          v = hook.state.value /\ Genuine(v)
    BY <1>11 DEF FieldMeans, OneDataset
  <2>2. \A v \in {hostProps'.value, rendered'.value, hook'.state.value} :
          v = hook.state.value /\ Genuine(v)
    BY <1>1, <1>22, <2>1
  <2> QED  BY <1>1, <1>12, <1>22, <2>2 DEF OneDataset
<1> QED  BY <1>21, <1>23, <1>24, <1>26, <1>27 DEF FieldMeans

-----------------------------------------------------------------------------
(* The hit of a search, and every step.                                     *)

\* When the field is brought in line again less is known of it.
LEMMA LessIsMeant ==
  ASSUME NEW h, HookMeans(h, FALSE), NoHits(h),
         \A c \in h.calls : IsNow(h, c) => c.kind # "dataset",
         NEW k, k.state = h.state, k.calls = h.calls, k.generation = h.generation,
         k.told = None
  PROVE  HookMeans(k, TRUE) /\ NoHits(k)
<1>1. CallsMean(h, FALSE) /\ StateMeans(h.state, FALSE)  BY DEF HookMeans
<1>2. StateMeans(k.state, TRUE)  BY <1>1 DEF StateMeans
<1>3. ASSUME NEW c \in k.calls, IsNow(k, c)  PROVE CallMeans(c, k.state, TRUE)
  <2>1. IsNow(h, c)  BY <1>3 DEF IsNow
  <2>2. CallMeans(c, h.state, FALSE) /\ c.kind # "dataset" /\ c.kind # "hit"
    BY <1>1, <2>1 DEF CallsMean, NoHits, IsNow
  <2> QED  BY <2>2 DEF CallMeans
<1>4. CallsMean(k, TRUE)  BY <1>1, <1>3 DEF CallsMean, IsNow
<1>5. NoHits(k)  BY DEF NoHits, IsNow
<1>6. ToldMeans(k.told, k.state, TRUE)  BY DEF ToldMeans
<1> QED  BY <1>2, <1>4, <1>5, <1>6 DEF HookMeans

\* The path of a hit.
LEMMA AnswerHitMeans ==
  ASSUME SteadyHost, NoneIsNull, IsProps(hostProps), FieldTypes, FieldMeans,
         NEW call \in hook.calls, AnswerHit(call)
  PROVE  FieldMeans' /\ Unsettled'
<1> DEFINE f == Finished(call)
           g == [f EXCEPT !.told = None]
           path == NodesTo(call.dataset, call.asks.code)
           new == Hydrated(g, call.dataset, path)
           value == AsValue(call.dataset, path)
<1>1. /\ Becomes(new) /\ OnChange(value) /\ microtask' = Reconciliation(new)
      /\ call.kind = "hit" /\ Current(call) /\ Known(call)
      /\ view' = view /\ rendered' = rendered /\ effect' = effect
  BY DEF AnswerHit
<1>2. HookOK(hook) /\ CallOK(call) /\ HookMeans(hook, Unsettled)
  BY DEF FieldTypes, HookOK, FieldMeans
<1>3. Unsettled = FALSE /\ call.dataset = hook.state.dataset
  BY <1>1, CurrentMeans DEF CallMeans, Unsettled, Live
<1>4. rendered = hostProps /\ effect = "none" /\ ~ Live  BY <1>3 DEF Unsettled
<1>5. HookMeans(hook, FALSE)  BY <1>2, <1>3
<1>6. call.dataset \in Editions  BY <1>1, <1>2 DEF CallOK
<1>7. /\ HookOK(f) /\ HookMeans(f, FALSE) /\ f.state = hook.state
      /\ f.generation = hook.generation /\ f.calls = hook.calls \ {call}
  <2>1. PICK u \in BOOLEAN : u = FALSE  OBVIOUS
  <2>2. HookMeans(hook, u)  BY <1>5, <2>1
  <2>3. /\ HookOK(f) /\ HookMeans(f, u) /\ f.state = hook.state
        /\ f.generation = hook.generation /\ f.calls = hook.calls \ {call}
    BY <1>2, <2>2, FinishedMeans
  <2> QED  BY <2>1, <2>3
<1> HIDE DEF f
<1>8. NoHits(f) /\ \A c \in f.calls : IsNow(f, c) => c.kind # "dataset"
  <2>1. CallsMean(hook, FALSE) /\ IsNow(hook, call)
    BY <1>1, <1>5 DEF HookMeans, IsNow, Current
  <2>2. ASSUME NEW c \in f.calls, IsNow(f, c)  PROVE c.kind # "dataset" /\ c.kind # "hit"
    <3>1. c \in hook.calls /\ IsNow(hook, c) /\ c # call  BY <1>7, <2>2 DEF IsNow
    <3> QED  BY <1>1, <2>1, <3>1 DEF CallsMean
  <2> QED  BY <2>2 DEF NoHits
<1>9. HookOK(g)  BY <1>7, HookWithTold
<1>10. g.state = f.state /\ g.calls = f.calls /\ g.generation = f.generation /\ g.told = None
  BY <1>7 DEF HookOK
<1> HIDE DEF g
<1>11. HookMeans(g, TRUE) /\ NoHits(g)  BY <1>7, <1>8, <1>10, LessIsMeant
<1>12. PICK u \in BOOLEAN : u = TRUE  OBVIOUS
<1>13. HookMeans(g, u)  BY <1>11, <1>12
<1>14. /\ PathOK(path) /\ path # <<>> /\ RealPath(call.dataset, path)
  BY <1>1, <1>6, NodesToMeans DEF Known
<1> HIDE DEF path
<1>15. Genuine(value) /\ value.dataset = call.dataset  BY <1>6, <1>14, RealPathIsWhole
<1> HIDE DEF value
<1>16. HookOK(new)  BY <1>6, <1>9, <1>14, HydratedKeeps
<1>17. /\ HookMeans(new, u) /\ new.generation = g.generation
       /\ Subject(new.state) = Subject(g.state) /\ NoHits(new)
  <2> HIDE DEF new
  <2>1. new = Hydrated(g, call.dataset, path)  BY DEF new
  <2>2. \/ u
        \/ /\ g.state.value # None /\ CodesOf(path) = g.state.value.codes
           /\ call.dataset = g.state.value.dataset
    BY <1>12
  <2>3. call.dataset = g.state.dataset  BY <1>3, <1>7, <1>10
  <2> QED  BY <1>6, <1>9, <1>11, <1>13, <1>14, <2>1, <2>2, <2>3, PathFoundMeans
<1> HIDE DEF new
<1>18. hook'.generation = new.generation /\ new.generation = hook.generation
  <2>1. hook'.generation = new.generation  BY <1>1, <1>16, <1>17, BecomesMeans
  <2> QED  BY <1>7, <1>10, <1>17, <2>1
<1>19. microtask' = [generation |-> new.generation, value |-> rendered.value]
  BY <1>1 DEF Reconciliation
<1>20. Live' /\ Unsettled' = u  BY <1>1, <1>12, <1>18, <1>19, QueuedIsLive
<1>21. /\ hostProps'.value \in {value, hostProps.value}
       /\ hostProps' # hostProps => hostProps.value # hostProps'.value
  BY <1>1, SteadyReply
<1>22. call.dataset # None  BY <1>6, AreaSelectionConstants
<1>23. view.dataset # None /\ view.dataset = hook.state.dataset
  <2>1. ~ NoHits(hook)  BY <1>1 DEF NoHits, IsNow, Current
  <2> QED  BY <2>1 DEF FieldMeans, ShownIsMeant
<1>24. /\ Genuine(hostProps'.value)
       /\ hostProps'.value # None => /\ hook.state.dataset \in {None, hostProps'.value.dataset}
                                     /\ view.dataset \in {None, hostProps'.value.dataset}
  BY <1>3, <1>15, <1>21, <1>23 DEF FieldMeans, OneDataset
<1>25. rendered # hostProps' => rendered.value # hostProps'.value  BY <1>4, <1>21
<1>26. Subject(new.state) = Subject(hook.state)  BY <1>7, <1>10, <1>17
<1>27. FieldMeans'
  BY <1>1, <1>4, <1>12, <1>16, <1>17, <1>18, <1>19, <1>20, <1>23, <1>24, <1>25, <1>26,
     GenerationStep
<1> QED  BY <1>12, <1>20, <1>27

\* A field begins with nothing asked and nothing told.
LEMMA FieldBegins ==
  ASSUME SteadyHost, FieldInit
  PROVE  FieldMeans /\ IsProps(hostProps)
<1>1. PICK bounds \in Bounds, value \in HostValues \cup {None} :
        \E target \in bounds.targets :
          LET props == [value |-> value, disabled |-> FALSE, target |-> target] IN
          /\ hostProps = props /\ rendered = props
          /\ hook = [state |-> InitialState(props), generation |-> 0, calls |-> {}, told |-> None]
          /\ view = InitialState(props) /\ effect = "mount" /\ microtask = None
  BY DEF FieldInit
<1>2. PICK target \in bounds.targets :
          LET props == [value |-> value, disabled |-> FALSE, target |-> target] IN
          /\ hostProps = props /\ rendered = props
          /\ hook = [state |-> InitialState(props), generation |-> 0, calls |-> {}, told |-> None]
          /\ view = InitialState(props) /\ effect = "mount" /\ microtask = None
  BY <1>1
<1> DEFINE props == [value |-> value, disabled |-> FALSE, target |-> target]
           s == InitialState(props)
           l == LayersFor(<<>>)
<1>3. IsProps(props) /\ props.value = value /\ props.target = target  BY DEF IsProps
<1>4. Genuine(value)  BY DEF SteadyHost, Genuine
<1> HIDE DEF props
<1>5. RealLayers(None, l)  BY EmptyPath, FreshLayersAreReal
<1> HIDE DEF l
<1>6. s = [generation |-> 0, dataset |-> None, path |-> <<>>, layers |-> l,
           status |-> None, disabled |-> props.disabled, target |-> props.target,
           value |-> props.value]
  BY DEF InitialState, l
<1> HIDE DEF s
<1>7. /\ s.dataset = None /\ s.path = <<>> /\ s.layers = l /\ s.value = value
      /\ s.target = target
  BY <1>3, <1>6
<1>8. /\ hostProps = props /\ rendered = props
      /\ hook = [state |-> s, generation |-> 0, calls |-> {}, told |-> None]
      /\ view = s /\ effect = "mount" /\ microtask = None
  BY <1>2 DEF props, s
<1>9. hook.state = s /\ hook.generation = 0 /\ hook.calls = {} /\ hook.told = None  BY <1>8
<1>10. ~ Live /\ Unsettled = TRUE  BY <1>8 DEF Live, Unsettled
<1>11. HookMeans(hook, Unsettled)
  <2>1. CallsMean(hook, Unsettled)  BY <1>9, FS_EmptySet DEF CallsMean
  <2>2. StateMeans(s, Unsettled)  BY <1>5, <1>7, NoPathIsReal DEF StateMeans
  <2>3. ToldMeans(hook.told, s, Unsettled)  BY <1>9 DEF ToldMeans
  <2> QED  BY <1>9, <2>1, <2>2, <2>3 DEF HookMeans
<1>12. PropsFollow  BY <1>3, <1>7, <1>8, <1>9 DEF PropsFollow
<1>13. QueuedForThis  BY <1>8 DEF QueuedForThis
<1>14. ShownIsMeant
  <2>1. NoHits(hook)  BY <1>9 DEF NoHits
  <2> QED  BY <1>7, <1>8, <1>10, <2>1 DEF ShownIsMeant
<1>15. OneDataset  BY <1>3, <1>4, <1>7, <1>8, <1>9 DEF OneDataset
<1> QED  BY <1>3, <1>8, <1>11, <1>12, <1>13, <1>14, <1>15 DEF FieldMeans

\* Every step of the field, its host and its server keeps what it means.
LEMMA MeaningSteps ==
  ASSUME SteadyHost, NoneIsNull, IsProps(hostProps), FieldTypes, FieldMeans,
         [FieldNext]_fieldVars
  PROVE  FieldMeans'
<1>1. CASE UNCHANGED fieldVars  BY <1>1, IdleStep DEF fieldVars
<1>2. CASE FieldNext
  <2>1. ASSUME NEW d \in Editions, Activate(d)  PROVE FieldMeans'
    BY <2>1, IdleStep DEF Activate
  <2>2. ASSUME NEW props \in HostProps, HostChanges(props)  PROVE FieldMeans'
    BY <2>2, HostMeans
  <2>3. CASE Render \/ RunEffect \/ RunMicrotask
    BY <2>3, RenderMeans, EffectStepMeans, MicrotaskMeans
  <2>4. CASE User
    <3>1. ASSUME NEW i \in DOMAIN view.layers, NEW n \in view.layers[i].items, Choose(i, n)
          PROVE  FieldMeans'
      BY <3>1, ChoosingMeans
    <3>2. ASSUME NEW i \in DOMAIN view.layers, LoadMore(i) \/ RetryLayer(i)
          PROVE  FieldMeans'
      BY <3>2, MoreMeans
    <3>3. CASE CloseSearch  BY <3>3, IdleStep DEF CloseSearch
    <3>4. ASSUME NEW hit \in panel.hits, PickHit(hit)  PROVE FieldMeans'
      BY <3>4, PickMeans
    <3> QED  BY <2>4, <3>1, <3>2, <3>3, <3>4, ClearingMeans, SearchMeans DEF User
  <2>5. ASSUME NEW c \in hook.calls, AnswerField(c) \/ FailField(c)  PROVE FieldMeans'
    BY <2>5, IgnoreMeans, AnswerDatasetMeans, AnswerPathMeans, AnswerHitMeans,
       AnswerLayerMeans, AnswerValidateMeans, FailMeans DEF AnswerField
  <2> QED  BY <1>2, <2>1, <2>2, <2>3, <2>4, <2>5 DEF FieldNext
<1> QED  BY <1>1, <1>2

\* What it means for the status.
LEMMA MeaningAccepts == FieldMeans => AcceptedIsSelectable
<1> SUFFICES ASSUME FieldMeans, Still, hook.told # None, hook.told.accepted
             PROVE  /\ hostProps.value # None
                    /\ Verdict(Library[hostProps.value.dataset], hostProps.value.codes,
                               hostProps.target) \in Accepting
  BY DEF AcceptedIsSelectable
<1>1. /\ Unsettled = FALSE /\ rendered = hostProps
      /\ hook.state.value = rendered.value /\ hook.state.target = rendered.target
  BY DEF Still, Unsettled, Live, FieldMeans, PropsFollow
<1>2. ToldMeans(hook.told, hook.state, FALSE)  BY <1>1 DEF FieldMeans, HookMeans
<1> QED  BY <1>1, <1>2 DEF ToldMeans

-----------------------------------------------------------------------------
(* What a field shows.                                                      *)

\* A call that will be answered in this generation.
Open(h, c) == IsNow(h, c) /\ ~ c.aborted

\* The dataset or the path is still to come.
Pending(h) == \E c : Open(h, c) /\ c.kind \in {"dataset", "path"}

\* The page a layer waits for is still to come.
Awaiting(h, i) ==
    \E c : /\ Open(h, c) /\ c.kind = "layer" /\ c.asks.level = i
           /\ c.asks.parent = h.state.layers[i].parent
           /\ c.request = h.state.layers[i].request

\* Layers that load wait for something; one is left out.
Settling(h, except) ==
    \A i \in DOMAIN h.state.layers \ except :
        h.state.layers[i].phase = "loading" => Awaiting(h, i)

\* The provinces show an error that no answer takes away.
ErrorRoot(h) ==
    /\ h.state.layers[1].phase = "error" /\ h.state.layers[1].next = NoCursor
    /\ \A c \in h.calls : IsNow(h, c) => c.request # h.state.layers[1].request

\* The path ends at the value.
ShowsValue(s) == s.path # <<>> /\ Last(s.path).code = Last(s.value.codes)

\* What there is to show is there, or in the hands of the hit of a search.
Arrived(h) ==
    \/ h.state.value = None \/ ErrorRoot(h) \/ ShowsValue(h.state)
    \/ \E c : Open(h, c) /\ c.kind = "hit"

\* Once dataset and path are known each layer has, or waits for, its page.
HookShows(h) == Pending(h) \/ (Settling(h, {}) /\ Arrived(h))

\* A field that is in use and in line with its host shows its value, or will.
FieldShows == Unsettled \/ rendered.disabled \/ HookShows(hook)

-----------------------------------------------------------------------------
\* The requests in use are finitely many.
LEMMA RequestsAreFinite ==
  ASSUME NEW h, HookOK(h), IsFiniteSet(h.calls)
  PROVE  IsFiniteSet(Requests(h))
<1> DEFINE l == h.state.layers
           n == Len(h.state.path) + 1
           A == {l[i].request : i \in DOMAIN l}
           B == {c.request : c \in h.calls}
           f == [i \in DOMAIN l |-> l[i].request]
           g == [c \in h.calls |-> c.request]
<1>1. IsFiniteSet(DOMAIN l)
  <2>1. n \in Nat /\ DOMAIN l = 1 .. n  BY DEF HookOK, StateOK, LayersOK, PathOK
  <2> HIDE DEF n, l
  <2> QED  BY <2>1, FS_Interval
<1>2. f \in [DOMAIN l -> A] /\ \A x \in A : \E i \in DOMAIN l : f[i] = x  OBVIOUS
<1>3. g \in [h.calls -> B] /\ \A x \in B : \E c \in h.calls : g[c] = x  OBVIOUS
<1>4. Requests(h) = A \cup B  BY DEF Requests
<1> HIDE DEF l, A, B, f, g
<1>5. IsFiniteSet(A)
  <2>1. f \in Surjection(DOMAIN l, A)  BY <1>2 DEF Surjection
  <2> QED  BY <1>1, <2>1, FS_Surjection
<1>6. IsFiniteSet(B)
  <2>1. g \in Surjection(h.calls, B)  BY <1>3 DEF Surjection
  <2> QED  BY <2>1, FS_Surjection
<1> QED  BY <1>4, <1>5, <1>6, FS_Union

\* A fresh request is not in use.
LEMMA FreshIsNew ==
  ASSUME NEW h, HookOK(h), IsFiniteSet(h.calls)
  PROVE  FreshRequest(h) \notin Requests(h)
<1> DEFINE R == Requests(h)
           m == Cardinality(R) + 1
           at == (1 .. m) \ R
<1>1. IsFiniteSet(R)  BY RequestsAreFinite
<1> HIDE DEF R
<1>2. m \in Nat /\ IsFiniteSet(1 .. m) /\ Cardinality(1 .. m) = m
  <2>1. Cardinality(R) \in Nat  BY <1>1, FS_CardinalityType
  <2>2. m \in Nat  BY <2>1
  <2> HIDE DEF m
  <2> QED  BY <2>2, FS_Interval, Counting
<1>3. ~ (1 .. m \subseteq R)
  <2> SUFFICES ASSUME 1 .. m \subseteq R  PROVE FALSE
    OBVIOUS
  <2>1. Cardinality(1 .. m) <= Cardinality(R)  BY <1>1, FS_Subset
  <2>2. Cardinality(R) \in Nat /\ m = Cardinality(R) + 1  BY <1>1, FS_CardinalityType
  <2> QED  BY <1>2, <2>1, <2>2
<1>4. at \in SUBSET Nat /\ at # {}  BY <1>2, <1>3
<1>5. IsFiniteSet(at) /\ Cardinality(at) \in Nat /\ Cardinality(at) # 0
  <2>1. at \subseteq 1 .. m  OBVIOUS
  <2> HIDE DEF at, m
  <2>2. IsFiniteSet(at)  BY <1>2, <2>1, FS_Subset
  <2> QED  BY <1>4, <2>2, FS_CardinalityType, FS_EmptySet
<1> HIDE DEF m
<1>6. PICK i \in at : Rank(i, at) = 1
  <2> HIDE DEF at
  <2>1. 1 \in 1 .. Cardinality(at)  BY <1>5
  <2> DEFINE k == 1
  <2>2. k \in 1 .. Cardinality(at)  BY <2>1
  <2> HIDE DEF k
  <2>3. \E i \in at : Rank(i, at) = k  BY <1>4, <1>5, <2>2, RanksAreTaken
  <2> QED  BY <2>3 DEF k
<1>7. (1 .. i) \ R = {j \in at : j <= i}
  <2>1. i \in 1 .. m /\ m \in Nat  BY <1>2, <1>6
  <2> QED  BY <2>1
<1>8. Cardinality((1 .. i) \ R) = 1  BY <1>6, <1>7 DEF Rank
<1>9. \E r \in (1 .. m) \ R : Cardinality((1 .. r) \ R) = 1  BY <1>6, <1>8
<1>10. FreshRequest(h) = CHOOSE r \in (1 .. m) \ R : Cardinality((1 .. r) \ R) = 1
  BY DEF FreshRequest, FreshRequests, R, m
<1>11. FreshRequest(h) \in (1 .. m) \ R  BY <1>9, <1>10
<1> QED  BY <1>11 DEF R

\* So no layer and no call has it.
LEMMA FreshRequestIsNew ==
  ASSUME NEW h, HookOK(h), IsFiniteSet(h.calls)
  PROVE  /\ \A c \in h.calls : c.request # FreshRequest(h)
         /\ \A i \in DOMAIN h.state.layers : h.state.layers[i].request # FreshRequest(h)
  BY FreshIsNew DEF Requests

-----------------------------------------------------------------------------
\* Open calls that are about something to show.
Shown == {"dataset", "path", "layer", "hit"}

\* Calls of a hook that may be in place of those of another.
Spares(h, k) ==
    /\ \A c : Open(h, c) /\ c.kind \in Shown => Open(k, c)
    /\ \A c \in k.calls : IsNow(k, c) =>
         \/ \E b \in h.calls : IsNow(h, b) /\ c.request = b.request
         \/ c.request # h.state.layers[1].request

\* A hook that shows the same and still waits for the same.
LEMMA SparedShows ==
  ASSUME NEW h, NEW k, HookShows(h), Spares(h, k),
         k.state.layers = h.state.layers, k.state.path = h.state.path,
         k.state.value = h.state.value
  PROVE  HookShows(k)
<1>1. Pending(h) => Pending(k)  BY DEF Pending, Spares, Shown
<1>2. \A i : Awaiting(h, i) => Awaiting(k, i)  BY DEF Awaiting, Spares, Shown
<1>3. Settling(h, {}) => Settling(k, {})  BY <1>2 DEF Settling
<1>4. ErrorRoot(h) => ErrorRoot(k)  BY DEF ErrorRoot, Spares
<1>5. Arrived(h) => Arrived(k)  BY <1>4 DEF Arrived, ShowsValue, Spares, Shown
<1> QED  BY <1>1, <1>3, <1>5 DEF HookShows

\* Aborted calls may be gone.
LEMMA BecomesShows ==
  ASSUME NEW h, HookOK(h), Becomes(h), HookShows(h)
  PROVE  HookShows(hook')
<1> DEFINE k == hook'
<1>1. /\ k.state = h.state /\ k.generation = h.generation /\ k.calls \subseteq h.calls
      /\ \A c \in h.calls : ~ c.aborted => c \in k.calls
  BY DEF Becomes, HookOK
<1> HIDE DEF k
<1>2. Spares(h, k)  BY <1>1 DEF Spares, Open, IsNow
<1>3. HookShows(k)  BY <1>1, <1>2, SparedShows
<1> QED  BY <1>3 DEF k

\* A field whose host, queue and generation are as they were.
LEMMA QuietShows ==
  ASSUME FieldShows, NEW k, HookOK(k), Becomes(k), k.generation = hook.generation,
         UNCHANGED <<hostProps, rendered, effect, microtask>>,
         ~ Unsettled /\ HookShows(hook) => HookShows(k)
  PROVE  FieldShows'
<1>1. hook'.generation = hook.generation  BY DEF Becomes, HookOK
<1>2. Live' = Live /\ Unsettled' = Unsettled  BY <1>1 DEF Live, Unsettled
<1>3. HookShows(k) => HookShows(hook')  BY BecomesShows
<1>4. HookShows(hook') => HookShows(hook)'  OBVIOUS
<1> QED  BY <1>2, <1>3, <1>4 DEF FieldShows

-----------------------------------------------------------------------------
(* What is asked for is waited for.                                         *)

\* dispatchStart, layer by layer.
LEMMA StartedLayers ==
  ASSUME NEW s, StateOK(s), NEW requests
  PROVE  LET t == DispatchStart(s, s.generation, requests) IN
         /\ DOMAIN t.layers = DOMAIN s.layers /\ t.path = s.path /\ t.value = s.value
         /\ \A i \in DOMAIN s.layers \ DOMAIN requests : t.layers[i] = s.layers[i]
         /\ \A i \in DOMAIN s.layers \cap DOMAIN requests :
              /\ t.layers[i].parent = s.layers[i].parent /\ t.layers[i].phase = "loading"
              /\ t.layers[i].next = s.layers[i].next
              /\ t.layers[i].request = requests[i]
<1> DEFINE new == [i \in DOMAIN s.layers |-> IF i \in DOMAIN requests
                     THEN [s.layers[i] EXCEPT !.phase = "loading", !.request = requests[i]]
                     ELSE s.layers[i]]
           t == DispatchStart(s, s.generation, requests)
<1>1. t = [s EXCEPT !.layers = new]  BY DEF DispatchStart
<1>2. \A i \in DOMAIN s.layers :
        DOMAIN s.layers[i] = {"parent", "items", "phase", "request", "next"}
  BY DEF StateOK, LayersOK, IsLayer
<1>3. /\ DOMAIN new = DOMAIN s.layers
      /\ \A i \in DOMAIN s.layers \ DOMAIN requests : new[i] = s.layers[i]
      /\ \A i \in DOMAIN s.layers \cap DOMAIN requests :
           /\ new[i].parent = s.layers[i].parent /\ new[i].phase = "loading"
           /\ new[i].next = s.layers[i].next
           /\ new[i].request = requests[i]
  BY <1>2
<1> HIDE DEF new, t
<1>4. t.layers = new /\ t.path = s.path /\ t.value = s.value
  BY <1>1 DEF StateOK, StateFields
<1> QED  BY <1>3, <1>4 DEF t

\* The request load gives one of some levels.
LoadRequest(h, levels, i) == FreshRequests(h, Cardinality({j \in levels : j <= i}))

\* What a call of load asks, and the layer that waits for it.
LEMMA LoadShows ==
  ASSUME NEW h, HookOK(h), NEW parents, NEW d, NEW cursor
  PROVE  LET k == Load(h, parents, d, cursor)
         IN /\ DOMAIN k.state.layers = DOMAIN h.state.layers
            /\ k.state.path = h.state.path /\ k.state.value = h.state.value
            /\ k.generation = h.generation
            /\ \A i \in DOMAIN h.state.layers \cap DOMAIN parents :
                 parents[i] = h.state.layers[i].parent => Awaiting(k, i)
            /\ \A i \in DOMAIN h.state.layers \ DOMAIN parents :
                 /\ k.state.layers[i] = h.state.layers[i]
                 /\ Awaiting(h, i) => Awaiting(k, i)
            /\ \A c : Open(h, c) /\ c.kind # "layer" => Open(k, c)
            /\ \A c \in k.calls : IsNow(k, c) =>
                 \/ \E b \in h.calls : IsNow(h, b) /\ c.request = b.request
                 \/ \E i \in DOMAIN parents : c.request = LoadRequest(h, DOMAIN parents, i)
<1> DEFINE levels == DOMAIN parents
           requests == [i \in levels |-> FreshRequests(h, Cardinality({j \in levels : j <= i}))]
           call(i) == NewCall("layer", h.generation, requests[i], d,
                        [level |-> i, parent |-> parents[i], cursor |-> cursor])
           s == DispatchStart(h.state, h.state.generation, requests)
           gone == {c \in h.calls : c.kind = "layer" /\ c.asks.level \in levels}
           added == {call(i) : i \in levels}
           asked == Abort(h.calls, gone) \cup added
           k == Load(h, parents, d, cursor)
<1>1. StateOK(h.state) /\ h.state.generation = h.generation  BY DEF HookOK
<1>2. k = [h EXCEPT !.state = s, !.calls = asked]  BY <1>1 DEF Load
<1>3. DOMAIN requests = levels  OBVIOUS
<1>4. \A i \in levels :
        LET c == call(i) IN
        /\ c \in added /\ c.kind = "layer" /\ c.generation = h.generation
        /\ c.request = requests[i] /\ ~ c.aborted
        /\ c.asks.level = i /\ c.asks.parent = parents[i]
  <2> HIDE DEF requests
  <2> QED  BY DEF NewCall
<1>5. \A c \in added : \E i \in levels : c.request = requests[i]
  <2> HIDE DEF requests
  <2> QED  BY DEF NewCall
<1>13. \A i \in levels : requests[i] = LoadRequest(h, levels, i)  BY DEF LoadRequest
<1> HIDE DEF requests
<1>6. /\ DOMAIN s.layers = DOMAIN h.state.layers /\ s.path = h.state.path
      /\ s.value = h.state.value
      /\ \A i \in DOMAIN h.state.layers \ levels : s.layers[i] = h.state.layers[i]
      /\ \A i \in DOMAIN h.state.layers \cap levels :
           /\ s.layers[i].parent = h.state.layers[i].parent
           /\ s.layers[i].request = requests[i]
  BY <1>1, <1>3, StartedLayers, SMTT(40)
<1> HIDE DEF s, added, call
<1>7. /\ k.state = s /\ k.calls = asked /\ k.generation = h.generation
  BY <1>2 DEF HookOK
<1> HIDE DEF k
<1>8. \A c : Open(h, c) /\ c \notin gone => Open(k, c)
  <2> SUFFICES ASSUME NEW c, Open(h, c), c \notin gone  PROVE Open(k, c)
    OBVIOUS
  <2>1. c \in Abort(h.calls, gone)  BY DEF Open, IsNow, Abort
  <2> QED  BY <1>7, <2>1 DEF Open, IsNow
<1>9. \A c : Open(h, c) /\ c.kind # "layer" => Open(k, c)  BY <1>8
<1>10. ASSUME NEW i \in DOMAIN h.state.layers \cap levels,
              parents[i] = h.state.layers[i].parent
       PROVE  Awaiting(k, i)
  <2> DEFINE c == call(i)
  <2>1. /\ c \in added /\ c.kind = "layer" /\ c.generation = h.generation
        /\ c.request = requests[i] /\ ~ c.aborted
        /\ c.asks.level = i /\ c.asks.parent = parents[i]
    BY <1>4
  <2> HIDE DEF c
  <2>2. Open(k, c)  BY <1>7, <2>1 DEF Open, IsNow
  <2> QED  BY <1>6, <1>7, <1>10, <2>1, <2>2 DEF Awaiting
<1>11. ASSUME NEW i \in DOMAIN h.state.layers \ levels, Awaiting(h, i)
       PROVE  Awaiting(k, i)
  <2>1. PICK c : /\ Open(h, c) /\ c.kind = "layer" /\ c.asks.level = i
                 /\ c.asks.parent = h.state.layers[i].parent
                 /\ c.request = h.state.layers[i].request
    BY <1>11 DEF Awaiting
  <2>2. c \notin gone  BY <2>1
  <2> HIDE DEF gone
  <2> QED  BY <1>6, <1>7, <1>8, <2>1, <2>2 DEF Awaiting
<1>12. ASSUME NEW c \in k.calls, IsNow(k, c)
       PROVE  \/ \E b \in h.calls : IsNow(h, b) /\ c.request = b.request
              \/ \E i \in levels : c.request = requests[i]
  <2>1. CASE c \in added  BY <1>5, <2>1
  <2>2. CASE c \in Abort(h.calls, gone)
    <3> HIDE DEF gone
    <3>1. \A b \in h.calls : CallOK(b)  BY DEF HookOK
    <3>2. PICK b \in h.calls : Copy(c, b, gone)  BY <2>2, <3>1, AbortMeans
    <3> QED  BY <1>7, <1>12, <3>2 DEF Copy, IsNow
  <2> QED  BY <1>7, <2>1, <2>2
<1>14. \A c \in k.calls : IsNow(k, c) =>
         \/ \E b \in h.calls : IsNow(h, b) /\ c.request = b.request
         \/ \E i \in levels : c.request = LoadRequest(h, levels, i)
  BY <1>12, <1>13
<1> QED  BY <1>6, <1>7, <1>9, <1>10, <1>11, <1>14 DEF k

\* loadLayer: the layer waits for what is asked, and the others as they did.
LEMMA LoadLayerShows ==
  ASSUME NEW h, HookOK(h), IsFiniteSet(h.calls),
         NEW i \in DOMAIN h.state.layers, NEW parent, parent = h.state.layers[i].parent,
         NEW d, NEW cursor,
         Settling(h, {i}), Arrived(h),
         i = 1 /\ h.state.value # None => ~ ErrorRoot(h)
  PROVE  HookShows(LoadLayer(h, i, parent, d, cursor))
<1> DEFINE parents == [j \in {i} |-> parent]
           k == LoadLayer(h, i, parent, d, cursor)
           r == LoadRequest(h, {i}, i)
<1>1. k = Load(h, parents, d, cursor)  BY DEF LoadLayer
<1>2. DOMAIN parents = {i} /\ parents[i] = parent  OBVIOUS
<1>3. r = FreshRequest(h)
  <2>1. i \in Nat
    <3>1. i \in 1 .. Len(h.state.path) + 1 /\ Len(h.state.path) \in Nat
      BY ParentOfLayer DEF HookOK
    <3> QED  BY <3>1
  <2>2. {x \in {i} : x <= i} = {i}  BY <2>1
  <2>3. Cardinality({i}) = 1  BY FS_Singleton
  <2> QED  BY <2>2, <2>3 DEF FreshRequest, LoadRequest
<1>4. DOMAIN h.state.layers \cap {i} = {i}  OBVIOUS
<1> HIDE DEF parents, k
<1>9. /\ DOMAIN k.state.layers = DOMAIN h.state.layers
      /\ k.state.path = h.state.path /\ k.state.value = h.state.value
      /\ k.generation = h.generation
      /\ \A j \in DOMAIN h.state.layers \cap DOMAIN parents :
           parents[j] = h.state.layers[j].parent => Awaiting(k, j)
      /\ \A j \in DOMAIN h.state.layers \ DOMAIN parents :
           /\ k.state.layers[j] = h.state.layers[j]
           /\ Awaiting(h, j) => Awaiting(k, j)
      /\ \A c : Open(h, c) /\ c.kind # "layer" => Open(k, c)
      /\ \A c \in k.calls : IsNow(k, c) =>
           \/ \E b \in h.calls : IsNow(h, b) /\ c.request = b.request
           \/ \E j \in DOMAIN parents : c.request = LoadRequest(h, DOMAIN parents, j)
  BY <1>1, LoadShows
<1>5. /\ DOMAIN k.state.layers = DOMAIN h.state.layers
      /\ k.state.path = h.state.path /\ k.state.value = h.state.value
      /\ k.generation = h.generation
      /\ Awaiting(k, i)
      /\ \A j \in DOMAIN h.state.layers \ {i} :
           /\ k.state.layers[j] = h.state.layers[j]
           /\ Awaiting(h, j) => Awaiting(k, j)
      /\ \A c : Open(h, c) /\ c.kind # "layer" => Open(k, c)
      /\ \A c \in k.calls : IsNow(k, c) =>
           \/ \E b \in h.calls : IsNow(h, b) /\ c.request = b.request
           \/ c.request = r
  BY <1>2, <1>9
<1> HIDE DEF r
<1>6. Settling(k, {})  BY <1>5 DEF Settling
<1>7. ErrorRoot(h) /\ i # 1 => ErrorRoot(k)
  <2> SUFFICES ASSUME ErrorRoot(h), i # 1  PROVE ErrorRoot(k)
    OBVIOUS
  <2>1. 1 \in DOMAIN h.state.layers
    <3>1. Len(h.state.path) \in Nat /\ DOMAIN h.state.layers = 1 .. Len(h.state.path) + 1
      BY DEF HookOK, StateOK, LayersOK, PathOK
    <3> QED  BY <3>1
  <2>2. k.state.layers[1] = h.state.layers[1]  BY <1>5, <2>1
  <2>3. h.state.layers[1].request # r  BY <1>3, <2>1, FreshRequestIsNew
  <2> QED  BY <1>5, <2>2, <2>3 DEF ErrorRoot
<1>8. Arrived(k)  BY <1>5, <1>7 DEF Arrived, ShowsValue
<1> QED  BY <1>6, <1>8 DEF HookShows, k

\* hydrateValue and bootstrap: the path, or the dataset, is to come.
LEMMA PendingShows ==
  ASSUME NEW h, HookOK(h), NEW d, NEW value
  PROVE  HookShows(HydrateValue(h, d, value)) /\ HookShows(Bootstrap(h, value))
<1>1. ASSUME NEW c, c.generation = h.generation, ~ c.aborted, c.kind \in {"dataset", "path"},
             NEW s, NEW asked, NEW k, k = [h EXCEPT !.state = s, !.calls = asked \cup {c}]
      PROVE  HookShows(k)
  <2> DEFINE after == asked \cup {c}
  <2>3. c \in after  OBVIOUS
  <2> HIDE DEF after
  <2>4. k = [h EXCEPT !.state = s, !.calls = after]  BY <1>1 DEF after
  <2>1. c \in k.calls /\ k.generation = h.generation  BY <2>3, <2>4 DEF HookOK
  <2>2. Open(k, c)  BY <1>1, <2>1 DEF Open, IsNow
  <2> QED  BY <1>1, <2>2 DEF HookShows, Pending
<1> DEFINE r == FreshRequest(h)
           s == DispatchStart(h.state, h.generation, [i \in {1} |-> r])
<1>2. HookShows(HydrateValue(h, d, value))
  <2> DEFINE c == NewCall("path", h.generation, r, d, [code |-> Last(value.codes)])
             asked == Abort(h.calls, {x \in h.calls : x.kind \in {"path", "hit"}})
             k == HydrateValue(h, d, value)
  <2>1. k = [h EXCEPT !.state = s, !.calls = asked \cup {c}]  BY DEF HydrateValue
  <2>2. c.generation = h.generation /\ ~ c.aborted /\ c.kind = "path"
    <3> HIDE DEF r
    <3> QED  BY DEF NewCall
  <2> HIDE DEF s, c, asked, k
  <2>3. HookShows(k)  BY <1>1, <2>1, <2>2
  <2> QED  BY <2>3 DEF k
<1>3. HookShows(Bootstrap(h, value))
  <2> DEFINE e == IF value = None THEN None ELSE value.dataset
             c == NewCall("dataset", h.generation, r, e, [value |-> value])
             asked == Abort(h.calls, {x \in h.calls : x.kind = "dataset"})
             k == Bootstrap(h, value)
  <2>1. k = [h EXCEPT !.state = s, !.calls = asked \cup {c}]  BY DEF Bootstrap
  <2>2. c.generation = h.generation /\ ~ c.aborted /\ c.kind = "dataset"
    <3> HIDE DEF r, e
    <3> QED  BY DEF NewCall
  <2> HIDE DEF s, c, asked, k
  <2>3. HookShows(k)  BY <1>1, <2>1, <2>2
  <2> QED  BY <2>3 DEF k
<1> QED  BY <1>2, <1>3

-----------------------------------------------------------------------------
(* The path of the value, and errors.                                       *)

\* The layers along a path begin unloaded, one more than there are regions in it.
LEMMA UnloadedLayers ==
  ASSUME NEW path, PathOK(path)
  PROVE  /\ DOMAIN LayersFor(path) = 1 .. Len(path) + 1 /\ Len(path) \in Nat
         /\ 1 \in DOMAIN LayersFor(path)
         /\ \A i \in DOMAIN LayersFor(path) :
              /\ LayersFor(path)[i].phase = "unloaded" /\ LayersFor(path)[i].next = NoCursor
              /\ LayersFor(path)[i].parent = ParentAt(path, i)
              /\ DOMAIN LayersFor(path)[i] = {"parent", "items", "phase", "request", "next"}
<1> DEFINE l == LayersFor(path)
           n == Len(path)
<1>1. n \in Nat /\ DOMAIN path = 1 .. n /\ path \in Seq(Nodes)  BY DEF PathOK
<1>2. \A i \in DOMAIN l : l[i].phase = "unloaded" /\ l[i].next = NoCursor
  <2> DEFINE tail == [i \in DOMAIN path |-> Layer(path[i].code)]
             T == {Layer(path[i].code) : i \in 1 .. n} \cup {Layer(Root)}
  <2>1. tail \in [1 .. n -> T]  BY <1>1
  <2>2. tail \in Seq(T) /\ <<Layer(Root)>> \in Seq(T)
    <3> HIDE DEF n
    <3>1. Layer(Root) \in T  OBVIOUS
    <3> HIDE DEF T, tail
    <3> QED  BY <1>1, <2>1, <3>1
  <2>3. \A x \in T : x.phase = "unloaded" /\ x.next = NoCursor  BY DEF Layer
  <2>4. l = <<Layer(Root)>> \o tail  BY DEF LayersFor
  <2> HIDE DEF l, tail, T
  <2>5. l \in Seq(T)  BY <2>2, <2>4
  <2> QED  BY <2>3, <2>5
<1>3. LayersOK(l, path)  BY LayersOfPath
<1> HIDE DEF l
<1>4. DOMAIN l = 1 .. n + 1
      /\ \A i \in 1 .. n + 1 : IsLayer(l[i], ParentAt(path, i), i)
  BY <1>1, <1>3 DEF LayersOK
<1>5. 1 \in DOMAIN l  BY <1>1, <1>4
<1> QED  BY <1>1, <1>2, <1>4, <1>5 DEF IsLayer, l

\* dispatchHydrate, in the current generation.
LEMMA HydratedFields ==
  ASSUME NEW s, StateOK(s), NEW path
  PROVE  LET t == DispatchHydrate(s, s.generation, path) IN
         /\ t.path = path /\ t.layers = LayersFor(path) /\ t.value = s.value
         /\ t.generation = s.generation
<1> DEFINE l == LayersFor(path)
           t == DispatchHydrate(s, s.generation, path)
<1>1. t = [s EXCEPT !.path = path, !.layers = l, !.status = None]  BY DEF DispatchHydrate
<1> HIDE DEF t, l
<1>2. t.path = path /\ t.layers = l /\ t.value = s.value /\ t.generation = s.generation
  BY <1>1 DEF StateOK, StateFields
<1> QED  BY <1>2 DEF t, l

\* dispatchFailed, layer by layer.
LEMMA FailedLayers ==
  ASSUME NEW s, StateOK(s), NEW g, NEW i, NEW request
  PROVE  LET t == DispatchFailed(s, g, i, request) IN
         /\ DOMAIN t.layers = DOMAIN s.layers /\ t.path = s.path /\ t.value = s.value
         /\ \A j \in DOMAIN s.layers :
              /\ t.layers[j].parent = s.layers[j].parent /\ t.layers[j].next = s.layers[j].next
              /\ t.layers[j].request = s.layers[j].request
              /\ t.layers[j].phase =
                   IF j = i /\ g = s.generation /\ s.layers[j].request = request
                   THEN "error" ELSE s.layers[j].phase
<1> DEFINE t == DispatchFailed(s, g, i, request)
           layer == [s.layers[i] EXCEPT !.phase = "error"]
           new == [s.layers EXCEPT ![i] = layer]
<1>1. CASE ~ Awaited(s, g, i, request)
  <2>1. t = s  BY <1>1 DEF DispatchFailed
  <2> HIDE DEF t
  <2>2. \A j \in DOMAIN s.layers :
          ~ (j = i /\ g = s.generation /\ s.layers[j].request = request)
    BY <1>1 DEF Awaited
  <2> QED  BY <2>1, <2>2 DEF t
<1>2. CASE Awaited(s, g, i, request)
  <2>1. i \in DOMAIN s.layers  BY <1>2 DEF Awaited
  <2>2. /\ DOMAIN s = StateFields
        /\ DOMAIN s.layers[i] = {"parent", "items", "phase", "request", "next"}
    BY <2>1 DEF StateOK, LayersOK, IsLayer
  <2>3. t = [s EXCEPT !.layers = new]
    BY <1>2, <2>1, <2>2 DEF DispatchFailed, StateFields
  <2>4. /\ DOMAIN new = DOMAIN s.layers /\ new[i] = layer
        /\ \A j \in DOMAIN s.layers : j # i => new[j] = s.layers[j]
    BY <2>1
  <2>5. /\ layer.parent = s.layers[i].parent /\ layer.next = s.layers[i].next
        /\ layer.request = s.layers[i].request /\ layer.phase = "error"
    BY <2>2
  <2> HIDE DEF new, t, layer
  <2>6. t.layers = new /\ t.path = s.path /\ t.value = s.value
    BY <2>2, <2>3 DEF StateFields
  <2>7. g = s.generation /\ s.layers[i].request = request  BY <1>2 DEF Awaited
  <2>8. /\ DOMAIN t.layers = DOMAIN s.layers
        /\ \A j \in DOMAIN s.layers :
             /\ t.layers[j].parent = s.layers[j].parent /\ t.layers[j].next = s.layers[j].next
             /\ t.layers[j].request = s.layers[j].request
             /\ t.layers[j].phase =
                  IF j = i /\ g = s.generation /\ s.layers[j].request = request
                  THEN "error" ELSE s.layers[j].phase
    BY <2>4, <2>5, <2>6, <2>7
  <2> QED  BY <2>6, <2>8 DEF t
<1> QED  BY <1>1, <1>2

-----------------------------------------------------------------------------
\* failRoot shows its error, which no call in flight is about.
LEMMA FailRootShows ==
  ASSUME NEW h, HookOK(h), IsFiniteSet(h.calls), NEW path, PathOK(path)
  PROVE  HookShows(FailRoot(h, path))
<1> DEFINE r == FreshRequest(h)
           requests == [i \in {1} |-> r]
           hydrated == DispatchHydrate(h.state, h.generation, path)
           started == DispatchStart(hydrated, h.generation, requests)
           s == DispatchFailed(started, h.generation, 1, r)
           k == FailRoot(h, path)
           l == LayersFor(path)
<1>1. k = [h EXCEPT !.told = None, !.state = s]  BY DEF FailRoot
<1>2. DOMAIN requests = {1} /\ requests[1] = r  OBVIOUS
<1>3. \A c \in h.calls : c.request # r  BY FreshRequestIsNew
<1> HIDE DEF r, requests
<1>4. StateOK(h.state) /\ h.state.generation = h.generation  BY DEF HookOK
<1>5. StateOK(hydrated) /\ hydrated.generation = h.generation /\ hydrated.layers = l
  BY <1>4, HydratedState, HydratedFields
<1> HIDE DEF hydrated, l
<1>6. /\ DOMAIN l = 1 .. Len(path) + 1 /\ 1 \in DOMAIN l
      /\ \A i \in DOMAIN l : l[i].phase = "unloaded" /\ l[i].next = NoCursor
  BY UnloadedLayers DEF l
<1>7. started = DispatchStart(hydrated, hydrated.generation, requests)  BY <1>5
<1>8. StateOK(started) /\ started.generation = h.generation  BY <1>5, StartKeeps DEF started
<1>9. /\ DOMAIN started.layers = DOMAIN l
      /\ \A i \in DOMAIN l \ {1} : started.layers[i] = l[i]
      /\ started.layers[1].next = l[1].next /\ started.layers[1].request = r
  <2>2. StateOK(hydrated)  BY <1>5
  <2> DEFINE t == DispatchStart(hydrated, hydrated.generation, requests)
  <2>3. /\ DOMAIN t.layers = DOMAIN hydrated.layers
        /\ \A i \in DOMAIN hydrated.layers \ DOMAIN requests : t.layers[i] = hydrated.layers[i]
        /\ \A i \in DOMAIN hydrated.layers \cap DOMAIN requests :
             /\ t.layers[i].next = hydrated.layers[i].next
             /\ t.layers[i].request = requests[i]
    BY <2>2, StartedLayers
  <2>4. started = t  BY <1>7
  <2> HIDE DEF started, t
  <2>1. /\ DOMAIN started.layers = DOMAIN hydrated.layers
        /\ \A i \in DOMAIN hydrated.layers \ DOMAIN requests :
             started.layers[i] = hydrated.layers[i]
        /\ \A i \in DOMAIN hydrated.layers \cap DOMAIN requests :
             /\ started.layers[i].next = hydrated.layers[i].next
             /\ started.layers[i].request = requests[i]
    BY <2>3, <2>4
  <2> QED  BY <1>2, <1>5, <1>6, <2>1
<1> HIDE DEF started
<1>10. /\ DOMAIN s.layers = DOMAIN l
       /\ s.layers[1].phase = "error" /\ s.layers[1].next = NoCursor
       /\ s.layers[1].request = r
       /\ \A i \in DOMAIN l : s.layers[i].phase # "loading"
  <2> HIDE DEF s
  <2>1. /\ DOMAIN s.layers = DOMAIN started.layers
        /\ \A j \in DOMAIN started.layers :
             /\ s.layers[j].next = started.layers[j].next
             /\ s.layers[j].request = started.layers[j].request
             /\ s.layers[j].phase =
                  IF j = 1 /\ h.generation = started.generation
                           /\ started.layers[j].request = r
                  THEN "error" ELSE started.layers[j].phase
    BY <1>8, FailedLayers DEF s
  <2> QED  BY <1>6, <1>8, <1>9, <2>1
<1> HIDE DEF s, k
<1>11. k.state = s /\ k.calls = h.calls  BY <1>1 DEF HookOK
<1>12. Settling(k, {})  BY <1>10, <1>11 DEF Settling
<1>13. ErrorRoot(k)  BY <1>3, <1>10, <1>11 DEF ErrorRoot
<1> QED  BY <1>12, <1>13 DEF HookShows, Arrived, k

\* The path of the value: every layer along it is asked for.
LEMMA PathFoundShows ==
  ASSUME NEW h, HookOK(h), NEW d \in Editions, NEW path, PathOK(path), path # <<>>,
         Last(path).code = Last(h.state.value.codes)
  PROVE  HookShows(Hydrated(h, d, path))
<1> DEFINE s == DispatchHydrate(h.state, h.generation, path)
           a == [h EXCEPT !.state = s]
           b == Validate(a, d, path)
           parents == Parents(path)
           k == Hydrated(h, d, path)
           l == LayersFor(path)
<1>1. StateOK(h.state) /\ h.state.generation = h.generation  BY DEF HookOK
<1>2. /\ StateOK(s) /\ s.generation = h.generation
      /\ s.layers = l /\ s.path = path /\ s.value = h.state.value
  BY <1>1, HydratedState, HydratedFields
<1>3. /\ DOMAIN l = 1 .. Len(path) + 1
      /\ \A i \in DOMAIN l : l[i].parent = ParentAt(path, i)
  BY UnloadedLayers
<1> HIDE DEF s, l
<1>4. HookOK(a) /\ a.state = s  BY <1>2, HookWithState DEF HookOK
<1> HIDE DEF a
<1>5. HookOK(b) /\ b.state = s  BY <1>4, ValidateKeeps
<1>6. DOMAIN parents = DOMAIN l /\ \A i \in DOMAIN l : parents[i] = ParentAt(path, i)
  BY <1>3 DEF Parents, ParentAt
<1> HIDE DEF b, parents
<1>7. k = Load(b, parents, d, NoCursor)  BY DEF Hydrated, b, a, s, parents
<1> HIDE DEF k
<1>8. /\ DOMAIN k.state.layers = DOMAIN b.state.layers
      /\ k.state.path = b.state.path /\ k.state.value = b.state.value
      /\ \A i \in DOMAIN b.state.layers \cap DOMAIN parents :
           parents[i] = b.state.layers[i].parent => Awaiting(k, i)
  BY <1>5, <1>7, LoadShows
<1>9. \A i \in DOMAIN k.state.layers : Awaiting(k, i)  BY <1>2, <1>3, <1>5, <1>6, <1>8
<1>10. Settling(k, {})  BY <1>9 DEF Settling
<1>11. ShowsValue(k.state)  BY <1>2, <1>5, <1>8 DEF ShowsValue
<1> QED  BY <1>10, <1>11 DEF HookShows, Arrived, k

-----------------------------------------------------------------------------
(* The answers keep what is waited for.                                     *)

\* What an answer leaves of the layers of a state: the one that waits for it no longer loads,
\* and one that waits for another is as it was.
Answered(s, t, call) ==
    /\ DOMAIN t.layers = DOMAIN s.layers /\ t.path = s.path /\ t.value = s.value
    /\ \A j \in DOMAIN s.layers :
         /\ t.layers[j].parent = s.layers[j].parent /\ t.layers[j].request = s.layers[j].request
         /\ t.layers[j].phase = "loading" =>
              /\ s.layers[j].phase = "loading"
              /\ ~ (/\ j = call.asks.level /\ s.layers[j].request = call.request
                    /\ s.layers[j].parent = call.asks.parent)
         /\ s.layers[j].request # call.request =>
              t.layers[j].phase = s.layers[j].phase /\ t.layers[j].next = s.layers[j].next

\* dispatchFailed
LEMMA FailedAnswers ==
  ASSUME NEW s, StateOK(s), NEW call, call.generation = s.generation
  PROVE  Answered(s, DispatchFailed(s, call.generation, call.asks.level, call.request), call)
<1> DEFINE i == call.asks.level
           request == call.request
           t == DispatchFailed(s, call.generation, i, request)
<1>1. /\ DOMAIN t.layers = DOMAIN s.layers /\ t.path = s.path /\ t.value = s.value
      /\ \A j \in DOMAIN s.layers :
           /\ t.layers[j].parent = s.layers[j].parent /\ t.layers[j].next = s.layers[j].next
           /\ t.layers[j].request = s.layers[j].request
           /\ t.layers[j].phase =
                IF j = i /\ call.generation = s.generation /\ s.layers[j].request = request
                THEN "error" ELSE s.layers[j].phase
  BY FailedLayers
<1> HIDE DEF t
<1>2. Answered(s, t, call)  BY <1>1 DEF Answered
<1> QED  BY <1>2 DEF t

\* dispatchLoaded
LEMMA LoadedAnswers ==
  ASSUME NEW s, StateOK(s), NEW call, call.generation = s.generation, NEW answer
  PROVE  Answered(s, DispatchLoaded(s, call.generation, call.asks.level, call.request,
                                    call.asks.parent, answer), call)
<1> DEFINE i == call.asks.level
           request == call.request
           parent == call.asks.parent
           t == DispatchLoaded(s, call.generation, i, request, parent, answer)
           old == s.layers[i]
           others == {n \in old.items : \A p \in answer.items : p.code # n.code}
           layer == [old EXCEPT !.items = answer.items \cup others,
                                !.phase = "loaded", !.next = answer.next]
           new == [s.layers EXCEPT ![i] = layer]
<1>1. CASE ~ (Awaited(s, call.generation, i, request) /\ s.layers[i].parent = parent)
  <2>1. t = s  BY <1>1 DEF DispatchLoaded
  <2> HIDE DEF t
  <2>2. \A j \in DOMAIN s.layers :
          ~ (j = i /\ s.layers[j].request = request /\ s.layers[j].parent = parent)
    BY <1>1 DEF Awaited
  <2>3. Answered(s, t, call)  BY <2>1, <2>2 DEF Answered
  <2> QED  BY <2>3 DEF t
<1>2. CASE Awaited(s, call.generation, i, request) /\ s.layers[i].parent = parent
  <2>1. i \in DOMAIN s.layers /\ s.layers[i].request = request  BY <1>2 DEF Awaited
  <2>2. /\ DOMAIN s = StateFields
        /\ DOMAIN s.layers[i] = {"parent", "items", "phase", "request", "next"}
    BY <2>1 DEF StateOK, LayersOK, IsLayer
  <2>3. t = [s EXCEPT !.layers = new]
    BY <1>2, <2>1, <2>2 DEF DispatchLoaded, StateFields
  <2>4. /\ DOMAIN new = DOMAIN s.layers /\ new[i] = layer
        /\ \A j \in DOMAIN s.layers : j # i => new[j] = s.layers[j]
    BY <2>1
  <2>5. /\ layer.parent = s.layers[i].parent
        /\ layer.request = s.layers[i].request /\ layer.phase = "loaded"
    <3> HIDE DEF others
    <3> QED  BY <2>2
  <2> HIDE DEF new, t, layer
  <2>6. t.layers = new /\ t.path = s.path /\ t.value = s.value
    BY <2>2, <2>3 DEF StateFields
  <2>7. Answered(s, t, call)  BY <2>1, <2>4, <2>5, <2>6 DEF Answered
  <2> QED  BY <2>7 DEF t
<1> QED  BY <1>1, <1>2

\* After the answer to a call for a page the field shows what it showed, or still waits.
LEMMA AnsweredShows ==
  ASSUME NEW h, HookOK(h), HookShows(h), NEW call \in h.calls, IsNow(h, call),
         call.kind = "layer",
         NEW k, k.calls = h.calls \ {call}, k.generation = h.generation,
         Answered(h.state, k.state, call)
  PROVE  HookShows(k)
<1>1. \A c : Open(h, c) /\ c # call => Open(k, c)  BY DEF Open, IsNow
<1>2. Pending(h) => Pending(k)  BY <1>1 DEF Pending
<1>3. ASSUME Settling(h, {}), NEW j \in DOMAIN k.state.layers,
             k.state.layers[j].phase = "loading"
      PROVE  Awaiting(k, j)
  <2>1. /\ j \in DOMAIN h.state.layers /\ h.state.layers[j].phase = "loading"
        /\ k.state.layers[j].parent = h.state.layers[j].parent
        /\ k.state.layers[j].request = h.state.layers[j].request
        /\ ~ (/\ j = call.asks.level /\ h.state.layers[j].request = call.request
              /\ h.state.layers[j].parent = call.asks.parent)
    BY <1>3 DEF Answered
  <2>2. Awaiting(h, j)  BY <1>3, <2>1 DEF Settling
  <2>3. PICK c : /\ Open(h, c) /\ c.kind = "layer" /\ c.asks.level = j
                 /\ c.asks.parent = h.state.layers[j].parent
                 /\ c.request = h.state.layers[j].request
    BY <2>2 DEF Awaiting
  <2>4. c # call  BY <2>1, <2>3
  <2> QED  BY <1>1, <2>1, <2>3, <2>4 DEF Awaiting
<1>4. Settling(h, {}) => Settling(k, {})  BY <1>3 DEF Settling
<1>5. ErrorRoot(h) => ErrorRoot(k)
  <2> SUFFICES ASSUME ErrorRoot(h)  PROVE ErrorRoot(k)
    OBVIOUS
  <2>1. 1 \in DOMAIN h.state.layers
    <3>1. Len(h.state.path) \in Nat /\ DOMAIN h.state.layers = 1 .. Len(h.state.path) + 1
      BY DEF HookOK, StateOK, LayersOK, PathOK
    <3> QED  BY <3>1
  <2>2. h.state.layers[1].request # call.request  BY DEF ErrorRoot
  <2>3. /\ k.state.layers[1].phase = h.state.layers[1].phase
        /\ k.state.layers[1].next = h.state.layers[1].next
        /\ k.state.layers[1].request = h.state.layers[1].request
    BY <2>1, <2>2 DEF Answered
  <2> QED  BY <2>3 DEF ErrorRoot, IsNow
<1>6. Arrived(h) => Arrived(k)
  <2>1. k.state.path = h.state.path /\ k.state.value = h.state.value  BY DEF Answered
  <2> QED  BY <1>1, <1>5, <2>1 DEF Arrived, ShowsValue
<1> QED  BY <1>2, <1>4, <1>6 DEF HookShows

-----------------------------------------------------------------------------
\* A hook that shows what it should is one the field may become.
LEMMA ShowsNow ==
  ASSUME NEW k, HookOK(k), Becomes(k), HookShows(k)
  PROVE  FieldShows'
<1>1. HookShows(hook')  BY BecomesShows
<1>2. HookShows(hook') => HookShows(hook)'  OBVIOUS
<1> QED  BY <1>1, <1>2 DEF FieldShows

\* A step after which the hook is to be brought in line.
LEMMA UnsettledShows ==
  ASSUME Unsettled'  PROVE FieldShows'
  BY DEF FieldShows

\* A step that leaves all of it alone.
LEMMA IdleShows ==
  ASSUME FieldShows, UNCHANGED <<hook, hostProps, rendered, effect, microtask>>
  PROVE  FieldShows'
<1>1. Unsettled' = Unsettled  BY DEF Unsettled, Live
<1>2. HookShows(hook)' = HookShows(hook')  OBVIOUS
<1>3. HookShows(hook') = HookShows(hook)  OBVIOUS
<1> QED  BY <1>1, <1>2, <1>3 DEF FieldShows

\* The answer to a call for a page.
LEMMA AnswerLayerShows ==
  ASSUME FieldTypes, FieldMeans, FieldShows, NEW call \in hook.calls, AnswerLayer(call)
  PROVE  FieldShows'
<1> DEFINE f == Finished(call)
           asks == call.asks
           d == call.dataset
           query == PageQueried(call)
           answer == PageOf(Library[d], d, query, ChildrenOf(Library[d], asks.parent), asks.cursor)
           served == /\ asks.parent \in DOMAIN Library[d] \cup {Root}
                     /\ CursorFits(asks.cursor, d, query)
           loaded == DispatchLoaded(f.state, call.generation, asks.level, call.request,
                                    asks.parent, answer)
           failed == DispatchFailed(f.state, call.generation, asks.level, call.request)
           s == IF served THEN loaded ELSE failed
           new == [f EXCEPT !.state = s]
<1>1. /\ Becomes(new) /\ UNCHANGED <<hostProps, rendered, effect, microtask>>
      /\ call.kind = "layer" /\ Current(call)
  BY DEF AnswerLayer
<1>2. HookOK(hook) /\ CallOK(call) /\ IsNow(hook, call)
  BY <1>1 DEF FieldTypes, HookOK, Current, IsNow
<1>3. /\ HookOK(f) /\ f.state = hook.state /\ f.generation = hook.generation
      /\ f.calls = hook.calls \ {call}
  BY <1>2, FinishedKeeps DEF Finished, HookOK
<1>4. d \in Editions  BY <1>1, <1>2 DEF CallOK
<1> HIDE DEF f, query, d, asks
<1>5. StateOK(f.state) /\ f.state.generation = f.generation /\ call.generation = f.generation
  BY <1>1, <1>3 DEF HookOK, Current
<1>6. /\ StateOK(failed) /\ failed.generation = f.generation
      /\ Answered(f.state, failed, call)
  BY <1>5, FailedKeeps, FailedAnswers DEF asks
<1>7. ASSUME asks.parent \in DOMAIN Library[d] \cup {Root}
      PROVE  /\ StateOK(loaded) /\ loaded.generation = f.generation
             /\ Answered(f.state, loaded, call)
  <2>1. PageBelow(answer, d, asks.parent)
    BY <1>7, PageIsOfRows DEF PageBelow
  <2> HIDE DEF answer
  <2>2. StateOK(loaded) /\ loaded.generation = f.state.generation
    BY <1>4, <1>5, <2>1, LoadedKeeps
  <2>3. Answered(f.state, loaded, call)  BY <1>5, LoadedAnswers DEF asks
  <2> QED  BY <1>5, <2>2, <2>3
<1> HIDE DEF loaded, failed
<1>8. StateOK(s) /\ s.generation = f.generation /\ Answered(f.state, s, call)
  BY <1>6, <1>7
<1> HIDE DEF s
<1>9. HookOK(new)  BY <1>3, <1>8, HookWithState
<1>10. new.state = s /\ new.calls = f.calls /\ new.generation = f.generation
  BY <1>3 DEF HookOK
<1> HIDE DEF new
<1>11. ASSUME HookShows(hook)  PROVE HookShows(new)
  <2>1. /\ new.calls = hook.calls \ {call} /\ new.generation = hook.generation
        /\ Answered(hook.state, new.state, call)
    BY <1>3, <1>8, <1>10
  <2> QED  BY <1>1, <1>2, <1>11, <2>1, AnsweredShows
<1>12. new.generation = hook.generation  BY <1>3, <1>10
<1> QED  BY <1>1, <1>9, <1>11, <1>12, QuietShows

\* A call that is over.
LEMMA FinishedFields ==
  ASSUME FieldTypes, NEW call \in hook.calls
  PROVE  LET f == Finished(call) IN
         /\ HookOK(f) /\ f.state = hook.state /\ f.generation = hook.generation
         /\ f.calls = hook.calls \ {call} /\ HookOK(hook) /\ CallOK(call)
  BY FinishedKeeps DEF Finished, HookOK, FieldTypes

\* A call of an older generation, or a search, that is over.
LEMMA IgnoreShows ==
  ASSUME FieldTypes, FieldShows, NEW call \in hook.calls, Ignore(call) \/ AnswerSearch(call)
  PROVE  FieldShows'
<1> DEFINE f == Finished(call)
<1>1. /\ Becomes(f) /\ UNCHANGED <<hostProps, rendered, effect, microtask>>
      /\ ~ IsNow(hook, call) \/ call.kind = "search"
  BY DEF Ignore, AnswerSearch, Current, IsNow
<1>2. /\ HookOK(f) /\ f.state = hook.state /\ f.generation = hook.generation
      /\ f.calls = hook.calls \ {call}
  BY FinishedFields
<1> HIDE DEF f
<1>3. Spares(hook, f)  BY <1>1, <1>2 DEF Spares, Open, IsNow, Shown
<1>4. HookShows(hook) => HookShows(f)  BY <1>2, <1>3, SparedShows
<1> QED  BY <1>1, <1>2, <1>4, QuietShows

\* A verdict.
LEMMA AnswerValidateShows ==
  ASSUME FieldTypes, FieldShows, NEW call \in hook.calls, AnswerValidate(call)
  PROVE  FieldShows'
<1> DEFINE f == Finished(call)
           reason == Verdict(Library[call.dataset], call.asks.codes, call.asks.target)
           result == [dataset |-> call.dataset, codes |-> call.asks.codes,
                      target |-> call.asks.target,
                      reason |-> reason, accepted |-> reason \in Accepting]
           s == DispatchStatus(f.state, call.generation, result)
           new == [f EXCEPT !.told = result, !.state = s]
<1>1. /\ Becomes(new) /\ UNCHANGED <<hostProps, rendered, effect, microtask>>
      /\ call.kind = "validate"
  BY DEF AnswerValidate
<1>2. /\ HookOK(f) /\ f.state = hook.state /\ f.generation = hook.generation
      /\ f.calls = hook.calls \ {call}
  BY FinishedFields
<1> HIDE DEF f, result
<1>3. /\ StateOK(s) /\ s.generation = f.generation
      /\ s.path = hook.state.path /\ s.layers = hook.state.layers /\ s.value = hook.state.value
  <2>1. StateOK(f.state) /\ f.state.generation = f.generation  BY <1>2 DEF HookOK
  <2> QED  BY <1>2, <2>1 DEF DispatchStatus, StateOK, StateFields
<1> HIDE DEF s
<1>4. HookOK(new)  BY <1>2, <1>3 DEF HookOK
<1>5. new.state = s /\ new.calls = f.calls /\ new.generation = f.generation
  BY <1>2 DEF HookOK
<1> HIDE DEF new
<1>6. Spares(hook, new)  BY <1>1, <1>2, <1>5 DEF Spares, Open, IsNow, Shown
<1>7. HookShows(hook) => HookShows(new)
  <2>1. /\ new.state.layers = hook.state.layers /\ new.state.path = hook.state.path
        /\ new.state.value = hook.state.value
    BY <1>3, <1>5
  <2> QED  BY <1>6, <2>1, SparedShows
<1>8. new.generation = hook.generation  BY <1>2, <1>5
<1> QED  BY <1>1, <1>4, <1>7, <1>8, QuietShows

\* The user searches.
LEMMA SearchShows ==
  ASSUME FieldTypes, FieldMeans, FieldShows, Search
  PROVE  FieldShows'
<1> DEFINE r == FreshRequest(hook)
           asks == [context |-> SearchContext(view, rendered)]
           c == NewCall("search", hook.generation, r, view.dataset, asks)
           gone == {x \in hook.calls : x.kind = "search"}
           kept == Abort(hook.calls, gone)
           asked == kept \cup {c}
           new == [hook EXCEPT !.calls = asked]
<1>1. Becomes(new) /\ UNCHANGED <<hostProps, rendered, effect, microtask>>
  BY DEF Search
<1>2. HookOK(hook) /\ IsFiniteSet(hook.calls)
  BY DEF FieldTypes, FieldMeans, HookMeans, CallsMean
<1>3. CallOK(c) /\ c.kind = "search" /\ c.generation = hook.generation /\ c.request = r
  <2> HIDE DEF asks, r
  <2>1. /\ DOMAIN c = {"kind", "generation", "request", "dataset", "asks", "aborted"}
        /\ c.kind = "search" /\ c.generation = hook.generation /\ c.request = r
    BY DEF NewCall
  <2> HIDE DEF c
  <2> QED  BY <2>1 DEF CallOK
<1>4. 1 \in DOMAIN hook.state.layers
  <2>1. /\ Len(hook.state.path) \in Nat
        /\ DOMAIN hook.state.layers = 1 .. Len(hook.state.path) + 1
    BY <1>2 DEF HookOK, StateOK, LayersOK, PathOK
  <2> QED  BY <2>1
<1>5. r # hook.state.layers[1].request  BY <1>2, <1>4, FreshRequestIsNew
<1> HIDE DEF r, c
<1>6. \A x \in asked : CallOK(x)  BY <1>2, <1>3, AbortKeeps DEF HookOK
<1>7. \A x \in kept : \E b \in hook.calls : Copy(x, b, gone)
  <2> HIDE DEF gone
  <2> QED  BY <1>2, AbortMeans DEF HookOK
<1>8. \A x \in hook.calls : x.kind # "search" => x \in kept  BY DEF Abort
<1> HIDE DEF kept, gone
<1>9. \A x \in asked : x = c \/ x \in kept  OBVIOUS
<1>10. kept \subseteq asked  OBVIOUS
<1> HIDE DEF asked
<1>11. HookOK(new)  BY <1>2, <1>6, HookWithCalls
<1>12. new.calls = asked /\ new.state = hook.state /\ new.generation = hook.generation
  BY <1>2 DEF HookOK
<1> HIDE DEF new
<1>13. Spares(hook, new)
  <2>1. \A x : Open(hook, x) /\ x.kind \in Shown => Open(new, x)
    BY <1>8, <1>10, <1>12 DEF Open, IsNow, Shown
  <2>2. ASSUME NEW x \in new.calls, IsNow(new, x)
        PROVE  \/ \E b \in hook.calls : IsNow(hook, b) /\ x.request = b.request
               \/ x.request # hook.state.layers[1].request
    <3>1. CASE x = c  BY <1>3, <1>5, <3>1
    <3>2. CASE x \in kept
      <4>1. PICK b \in hook.calls : Copy(x, b, gone)  BY <1>7, <3>2
      <4> QED  BY <1>12, <2>2, <4>1 DEF Copy, IsNow
    <3> QED  BY <1>9, <1>12, <3>1, <3>2
  <2> QED  BY <2>1, <2>2 DEF Spares
<1>14. HookShows(hook) => HookShows(new)
  <2>1. /\ new.state.layers = hook.state.layers /\ new.state.path = hook.state.path
        /\ new.state.value = hook.state.value
    BY <1>12
  <2> QED  BY <1>13, <2>1, SparedShows
<1> QED  BY <1>1, <1>11, <1>12, <1>14, QuietShows

-----------------------------------------------------------------------------
\* The path of the value, or that there is none.
LEMMA AnswerPathShows ==
  ASSUME FieldTypes, FieldMeans, NEW call \in hook.calls, AnswerPath(call)
  PROVE  FieldShows'
<1> DEFINE f == Finished(call)
           path == NodesTo(call.dataset, call.asks.code)
           found == Hydrated(f, call.dataset, path)
           none == <<>>
           failed == FailRoot(f, none)
           new == IF Known(call) THEN found ELSE failed
<1>1. Becomes(new) /\ call.kind = "path" /\ Current(call)  BY DEF AnswerPath
<1>2. /\ HookOK(f) /\ f.state = hook.state /\ f.calls = hook.calls \ {call} /\ CallOK(call)
  BY FinishedFields
<1>3. call.dataset \in Editions  BY <1>1, <1>2 DEF CallOK
<1>4. call.asks.code = Last(hook.state.value.codes)  BY <1>1, CurrentMeans DEF CallMeans
<1>5. IsFiniteSet(f.calls)
  <2>1. IsFiniteSet(hook.calls)  BY DEF FieldMeans, HookMeans, CallsMean
  <2>2. f.calls \subseteq hook.calls  BY <1>2
  <2> HIDE DEF f
  <2> QED  BY <2>1, <2>2, FS_Subset
<1> HIDE DEF f
<1>6. CASE Known(call)
  <2>1. PathOK(path) /\ path # <<>> /\ Last(path).code = call.asks.code
    BY <1>3, <1>6, NodesToMeans DEF Known
  <2> HIDE DEF path
  <2>2. HookOK(found)  BY <1>2, <1>3, <2>1, HydratedKeeps
  <2>3. HookShows(found)
    <3>1. Last(path).code = Last(f.state.value.codes)  BY <1>2, <1>4, <2>1
    <3> QED  BY <1>2, <1>3, <2>1, <3>1, PathFoundShows
  <2>4. Becomes(found)  BY <1>1, <1>6
  <2> HIDE DEF found
  <2> QED  BY <2>2, <2>3, <2>4, ShowsNow
<1>7. CASE ~ Known(call)
  <2>1. PathOK(none)  BY EmptyPath
  <2> HIDE DEF none
  <2>2. HookOK(failed) /\ HookShows(failed)
    BY <1>2, <1>5, <2>1, FailRootKeeps, FailRootShows
  <2>3. Becomes(failed)  BY <1>1, <1>7
  <2> HIDE DEF failed
  <2> QED  BY <2>2, <2>3, ShowsNow
<1> QED  BY <1>6, <1>7

\* A call fails.
LEMMA FailShows ==
  ASSUME FieldTypes, FieldMeans, FieldShows, NEW call \in hook.calls, FailField(call)
  PROVE  FieldShows'
<1> DEFINE f == Finished(call)
           s == DispatchFailed(f.state, call.generation, call.asks.level, call.request)
           failed == [f EXCEPT !.state = s]
           back == IF call.kind = "hit" THEN call.asks.back ELSE <<>>
           root == FailRoot(f, back)
<1>1. /\ UNCHANGED <<hostProps, view, rendered, effect, microtask>> /\ Current(call)
      /\ \/ call.kind = "layer" /\ Becomes(failed)
         \/ call.kind # "layer" /\ Becomes(root)
  BY DEF FailField
<1>2. /\ HookOK(f) /\ f.state = hook.state /\ f.generation = hook.generation
      /\ f.calls = hook.calls \ {call} /\ HookOK(hook) /\ CallOK(call)
  BY FinishedFields
<1>3. IsFiniteSet(f.calls)
  <2>1. IsFiniteSet(hook.calls)  BY DEF FieldMeans, HookMeans, CallsMean
  <2>2. f.calls \subseteq hook.calls  BY <1>2
  <2> HIDE DEF f
  <2> QED  BY <2>1, <2>2, FS_Subset
<1> HIDE DEF f
<1>4. CASE call.kind = "layer"
  <2>1. StateOK(f.state) /\ f.state.generation = f.generation /\ call.generation = f.generation
    BY <1>1, <1>2 DEF HookOK, Current
  <2>2. StateOK(s) /\ s.generation = f.generation /\ Answered(f.state, s, call)
    BY <2>1, FailedKeeps, FailedAnswers
  <2> HIDE DEF s
  <2>3. HookOK(failed)  BY <1>2, <2>2, HookWithState
  <2>4. /\ failed.state = s /\ failed.calls = f.calls /\ failed.generation = f.generation
    BY <1>2 DEF HookOK
  <2>5. Becomes(failed)  BY <1>1, <1>4
  <2> HIDE DEF failed
  <2>6. ASSUME HookShows(hook)  PROVE HookShows(failed)
    <3>1. /\ failed.calls = hook.calls \ {call} /\ failed.generation = hook.generation
          /\ Answered(hook.state, failed.state, call)
      BY <1>2, <2>2, <2>4
    <3>2. IsNow(hook, call)  BY <1>1 DEF IsNow, Current
    <3> QED  BY <1>2, <1>4, <2>6, <3>1, <3>2, AnsweredShows
  <2>7. failed.generation = hook.generation  BY <1>2, <2>4
  <2> QED  BY <1>1, <2>3, <2>5, <2>6, <2>7, QuietShows
<1>5. CASE call.kind # "layer"
  <2>1. PathOK(back)  BY <1>2, EmptyPath DEF CallOK
  <2>2. Becomes(root)  BY <1>1, <1>5
  <2> HIDE DEF back
  <2>3. HookOK(root) /\ HookShows(root)
    BY <1>2, <1>3, <2>1, FailRootKeeps, FailRootShows
  <2> HIDE DEF root
  <2> QED  BY <2>2, <2>3, ShowsNow
<1> QED  BY <1>4, <1>5

-----------------------------------------------------------------------------
(* More pages, and the dataset of the field.                                *)

\* The provinces of a field without a value are asked for.
LEMMA RootLoadShows ==
  ASSUME NEW h, HookOK(h), IsFiniteSet(h.calls), h.state.value = None, h.state.path = <<>>,
         NEW d, NEW cursor
  PROVE  HookShows(LoadLayer(h, 1, Root, d, cursor))
<1> DEFINE i == 1
           parent == Root
<1>1. Len(h.state.path) = 0  OBVIOUS
<1>2. StateOK(h.state)  BY DEF HookOK
<1>3. DOMAIN h.state.layers = {1}
  <2>1. DOMAIN h.state.layers = 1 .. Len(h.state.path) + 1  BY <1>2 DEF StateOK, LayersOK
  <2> QED  BY <1>1, <2>1
<1>4. i \in DOMAIN h.state.layers /\ parent = h.state.layers[i].parent
  BY <1>2, <1>3, ParentOfLayer
<1> HIDE DEF i, parent
<1>5. Settling(h, {i})  BY <1>3 DEF Settling, i
<1>6. Arrived(h)  BY DEF Arrived
<1>7. HookShows(LoadLayer(h, i, parent, d, cursor))
  BY <1>4, <1>5, <1>6, LoadLayerShows
<1> QED  BY <1>7 DEF i, parent

\* What is still to come is still to come after a page more is asked for.
LEMMA LoadLayerSpares ==
  ASSUME NEW h, HookOK(h), Pending(h), NEW i, NEW parent, NEW d, NEW cursor
  PROVE  Pending(LoadLayer(h, i, parent, d, cursor))
<1> DEFINE parents == [j \in {i} |-> parent]
           k == LoadLayer(h, i, parent, d, cursor)
<1>1. k = Load(h, parents, d, cursor)  BY DEF LoadLayer
<1> HIDE DEF parents, k
<1>2. \A c : Open(h, c) /\ c.kind # "layer" => Open(k, c)  BY <1>1, LoadShows
<1>3. Pending(k)  BY <1>2 DEF Pending
<1> QED  BY <1>3 DEF k

\* The user asks for more of a layer, or again for it.
LEMMA MoreShows ==
  ASSUME FieldTypes, FieldMeans, FieldShows, NEW i \in DOMAIN view.layers,
         LoadMore(i) \/ RetryLayer(i)
  PROVE  FieldShows'
<1> DEFINE current == view.layers[i]
           parent == current.parent
           d == view.dataset
           cursor == current.next
           more == LoadLayer(hook, i, parent, d, cursor)
           again == HydrateValue(hook, d, rendered.value)
           boot == Bootstrap(hook, rendered.value)
<1>1. /\ UpToDate /\ UNCHANGED <<hostProps, rendered, effect, microtask>>
      /\ \/ /\ d # None /\ Becomes(more)
            /\ current.next # NoCursor \/ ~ (i = 1 /\ rendered.value # None)
         \/ d = None /\ Becomes(boot)
         \/ d # None /\ rendered.value # None /\ Becomes(again)
  BY DEF LoadMore, RetryLayer
<1>2. view = hook.state /\ hook.state.value = rendered.value
  BY <1>1, UpToDateIsSettled
<1>3. HookOK(hook) /\ IsFiniteSet(hook.calls)
  BY DEF FieldTypes, FieldMeans, HookMeans, CallsMean
<1>4. d # None => d \in Editions  BY DEF FieldTypes, StateOK
<1>5. i \in DOMAIN hook.state.layers /\ parent = hook.state.layers[i].parent  BY <1>2
<1> HIDE DEF d, parent
<1>6. CASE /\ d # None /\ Becomes(more)
           /\ current.next # NoCursor \/ ~ (i = 1 /\ rendered.value # None)
  <2>1. HookOK(more)  BY <1>3, <1>4, <1>6, LoadLayerKeeps
  <2>2. i = 1 /\ hook.state.value # None => ~ ErrorRoot(hook)
    BY <1>2, <1>6 DEF ErrorRoot
  <2> HIDE DEF current, cursor
  <2>3. Pending(hook) => HookShows(more)  BY <1>3, LoadLayerSpares DEF HookShows
  <2>4. Settling(hook, {}) /\ Arrived(hook) => HookShows(more)
    <3> SUFFICES ASSUME Settling(hook, {}), Arrived(hook)  PROVE HookShows(more)
      OBVIOUS
    <3>1. Settling(hook, {i})  BY DEF Settling
    <3> QED  BY <1>3, <1>5, <2>2, <3>1, LoadLayerShows
  <2>5. HookShows(hook) => HookShows(more)
    <3> HIDE DEF more
    <3> QED  BY <2>3, <2>4 DEF HookShows
  <2>6. more.generation = hook.generation
    <3> DEFINE parents == [j \in {i} |-> parent]
    <3>1. more = Load(hook, parents, d, cursor)  BY DEF LoadLayer
    <3> HIDE DEF parents, more
    <3> QED  BY <1>3, <3>1, LoadShows
  <2> HIDE DEF more
  <2> QED  BY <1>1, <1>6, <2>1, <2>5, <2>6, QuietShows
<1>7. CASE d = None /\ Becomes(boot)
  <2>1. rendered.value = None \/ rendered.value.dataset \in Editions
    BY DEF FieldTypes, PropsOK
  <2>2. HookOK(boot) /\ HookShows(boot)  BY <1>3, <2>1, BootstrapKeeps, PendingShows
  <2> HIDE DEF boot
  <2> QED  BY <1>7, <2>2, ShowsNow
<1>8. CASE d # None /\ rendered.value # None /\ Becomes(again)
  <2>1. HookOK(again) /\ HookShows(again)
    BY <1>3, <1>4, <1>8, HydrateKeeps, PendingShows
  <2> HIDE DEF again
  <2> QED  BY <1>8, <2>1, ShowsNow
<1> QED  BY <1>1, <1>6, <1>7, <1>8

\* The dataset of the field.
LEMMA AnswerDatasetShows ==
  ASSUME FieldTypes, FieldMeans, NEW call \in hook.calls, AnswerDataset(call)
  PROVE  FieldShows'
<1> DEFINE f == Finished(call)
           d == IF call.dataset = None THEN edition ELSE call.dataset
           s == DispatchDataset(f.state, f.generation, d)
           h == [f EXCEPT !.state = s]
           first == LoadLayer(h, 1, Root, d, NoCursor)
           path == HydrateValue(h, d, call.asks.value)
           new == IF call.asks.value = None THEN first ELSE path
<1>1. call.kind = "dataset" /\ Current(call)  BY DEF AnswerDataset
<1>2. /\ HookOK(f) /\ f.state = hook.state /\ f.generation = hook.generation
      /\ f.calls = hook.calls \ {call} /\ CallOK(call) /\ HookOK(hook)
  BY FinishedFields
<1>3. call.generation = f.generation  BY <1>1, <1>2 DEF Current
<1>4. Becomes(new)  BY <1>3 DEF AnswerDataset
<1>5. d \in Editions  BY <1>1, <1>2 DEF CallOK, FieldTypes
<1>6. Unsettled = FALSE /\ call.asks.value = hook.state.value
  BY <1>1, CurrentMeans DEF CallMeans, Unsettled, Live
<1>7. hook.state.value = None => hook.state.path = <<>>
  BY <1>6 DEF FieldMeans, HookMeans, StateMeans
<1>8. IsFiniteSet(f.calls)
  <2>1. IsFiniteSet(hook.calls)  BY DEF FieldMeans, HookMeans, CallsMean
  <2>2. f.calls \subseteq hook.calls  BY <1>2
  <2> HIDE DEF f
  <2> QED  BY <2>1, <2>2, FS_Subset
<1> HIDE DEF f, d
<1>9. /\ StateOK(s) /\ s.generation = f.generation /\ s.value = hook.state.value
      /\ s.path = hook.state.path
  <2>1. StateOK(f.state) /\ f.state.generation = f.generation  BY <1>2 DEF HookOK
  <2> QED  BY <1>2, <1>5, <2>1 DEF DispatchDataset, StateOK, StateFields
<1> HIDE DEF s
<1>10. HookOK(h) /\ h.state = s /\ h.calls = f.calls
  BY <1>2, <1>9, HookWithState DEF HookOK
<1> HIDE DEF h
<1>11. CASE call.asks.value = None
  <2>1. new = first  BY <1>11
  <2>2. HookOK(first)  BY <1>5, <1>10, LoadLayerKeeps
  <2>3. h.state.value = None /\ h.state.path = <<>> /\ IsFiniteSet(h.calls)
    BY <1>6, <1>7, <1>8, <1>9, <1>10, <1>11
  <2>4. HookShows(first)  BY <1>10, <2>3, RootLoadShows
  <2> HIDE DEF first, new
  <2> QED  BY <1>4, <2>1, <2>2, <2>4, ShowsNow
<1>12. CASE call.asks.value # None
  <2>1. new = path  BY <1>12
  <2>2. HookOK(path) /\ HookShows(path)  BY <1>5, <1>10, HydrateKeeps, PendingShows
  <2> HIDE DEF path, new
  <2> QED  BY <1>4, <2>1, <2>2, ShowsNow
<1> QED  BY <1>11, <1>12

-----------------------------------------------------------------------------
(* The host, React and the reconciliation keep it too.                      *)

\* The calls of a generation that begins are as many as before, at most.
LEMMA NextCallsAreFinite ==
  ASSUME NEW h, HookOK(h), IsFiniteSet(h.calls)
  PROVE  IsFiniteSet(NextGeneration(h).calls)
<1> DEFINE up == [h EXCEPT !.generation = @ + 1]
           gone == {c \in up.calls : c.kind # "search"}
           asked == Abort(up.calls, gone)
<1>1. /\ DOMAIN up = {"state", "generation", "calls", "told"} /\ up.calls = h.calls
  BY DEF HookOK
<1>2. NextGeneration(h) = [up EXCEPT !.calls = asked]  BY DEF NextGeneration, AbortAll
<1> HIDE DEF up, gone
<1>3. IsFiniteSet(asked)  BY <1>1, AbortIsFinite
<1> HIDE DEF asked
<1> QED  BY <1>1, <1>2, <1>3

\* reconcileControlledValue.
LEMMA MicrotaskShows ==
  ASSUME FieldTypes, FieldMeans, FieldShows, RunMicrotask
  PROVE  FieldShows'
<1> DEFINE stale == microtask.generation # hook.generation \/ microtask.value # rendered.value
           next == NextGeneration(hook)
           s == DispatchLifecycle(next.state, next.generation)
           h == [next EXCEPT !.state = s, !.told = None]
           none == <<>>
           shown == DispatchHydrate(h.state, h.generation, none)
           k == [h EXCEPT !.state = shown]
           first == LoadLayer(k, 1, Root, view.dataset, NoCursor)
           path == HydrateValue(h, view.dataset, rendered.value)
           new == IF stale THEN hook
                  ELSE IF view.dataset = None THEN Bootstrap(h, rendered.value)
                  ELSE IF rendered.value = None THEN first ELSE path
<1>1. /\ Becomes(new) /\ UNCHANGED <<edition, hostProps, view, rendered, effect>>
      /\ microtask # None /\ microtask' = None
  BY DEF RunMicrotask
<1>2. HookOK(hook) /\ IsFiniteSet(hook.calls)
  BY DEF FieldTypes, FieldMeans, HookMeans, CallsMean
<1>3. CASE stale
  <2>1. new = hook  BY <1>3
  <2>2. ~ Live  BY <1>3 DEF Live
  <2>3. Unsettled' = Unsettled  BY <1>1, <2>2 DEF Unsettled, Live
  <2> HIDE DEF new
  <2>4. HookShows(hook) => HookShows(hook')  BY <1>1, <1>2, <2>1, BecomesShows
  <2>5. HookShows(hook') => HookShows(hook)'  OBVIOUS
  <2> QED  BY <1>1, <2>3, <2>4, <2>5 DEF FieldShows
<1>4. CASE ~ stale
  <2>1. Live  BY <1>1, <1>4 DEF Live
  <2>2. view.dataset # None /\ hook.state.value = rendered.value
    BY <1>1, <2>1 DEF FieldMeans, PropsFollow, ShownIsMeant
  <2>3. new = IF rendered.value = None THEN first ELSE path  BY <1>4, <2>2
  <2>4. view.dataset \in Editions  BY <2>2 DEF FieldTypes, StateOK
  <2> DEFINE s0 == DispatchLifecycle(hook.state, hook.state.generation + 1)
  <2>5. StateOK(s0) /\ s0.generation = hook.generation + 1 /\ s0.value = hook.state.value
    BY <1>2, LifecycleKeeps DEF HookOK, DispatchLifecycle, StateOK, StateFields
  <2>6. next.state = hook.state /\ next.generation = hook.state.generation + 1
    <3> HIDE DEF s0
    <3> QED  BY <1>2, <2>5, NextGenerationWith DEF HookOK
  <2>7. s = s0  BY <2>6
  <2>8. IsFiniteSet(next.calls)  BY <1>2, NextCallsAreFinite
  <2> HIDE DEF s, s0, stale
  <2>9. HookOK([NextGeneration(hook) EXCEPT !.state = s0, !.told = None])
    BY <1>2, <2>5, NextGenerationWith
  <2>10. HookOK(h)  BY <2>7, <2>9
  <2>11. h.state = s0 /\ h.generation = s0.generation /\ h.calls = next.calls
    <3>1. DOMAIN next = {"state", "generation", "calls", "told"}
      BY <1>2 DEF HookOK, NextGeneration, AbortAll
    <3>2. next.generation = s0.generation
      BY <1>2, <2>5, <2>6 DEF HookOK
    <3> HIDE DEF next
    <3> QED  BY <2>7, <3>1, <3>2
  <2> HIDE DEF h
  <2>12. CASE rendered.value # None
    <3>1. new = path  BY <2>3, <2>12
    <3>2. HookOK(path) /\ HookShows(path)  BY <2>4, <2>10, HydrateKeeps, PendingShows
    <3> HIDE DEF path, new
    <3> QED  BY <1>1, <3>1, <3>2, ShowsNow
  <2>13. CASE rendered.value = None
    <3>1. new = first  BY <2>3, <2>13
    <3>2. PathOK(none)  BY EmptyPath
    <3>3. /\ StateOK(shown) /\ shown.generation = h.generation
          /\ shown.value = None /\ shown.path = <<>>
      <4> DEFINE t == DispatchHydrate(s0, s0.generation, none)
      <4>1. shown = t  BY <2>11
      <4>2. StateOK(t) /\ t.generation = s0.generation
        <5> HIDE DEF none
        <5> QED  BY <2>5, <3>2, HydratedState
      <4>3. t.path = none /\ t.value = s0.value  BY <2>5, HydratedFields
      <4> HIDE DEF t, shown
      <4> QED  BY <2>2, <2>5, <2>11, <2>13, <4>1, <4>2, <4>3
    <3> HIDE DEF shown, none
    <3>4. HookOK(k)  BY <2>10, <3>3, HookWithState
    <3>5. k.state = shown /\ k.calls = h.calls  BY <2>10 DEF HookOK
    <3> HIDE DEF k
    <3>6. HookOK(first)  BY <2>4, <3>4, LoadLayerKeeps
    <3>7. k.state.value = None /\ k.state.path = <<>> /\ IsFiniteSet(k.calls)
      BY <2>8, <2>11, <3>3, <3>5
    <3>8. HookShows(first)  BY <3>4, <3>7, RootLoadShows
    <3> HIDE DEF first, new
    <3> QED  BY <1>1, <3>1, <3>6, <3>8, ShowsNow
  <2> QED  BY <2>12, <2>13
<1> QED  BY <1>3, <1>4

\* The effect of a render: the dataset is asked for, unless the field is disabled.
LEMMA EffectShows ==
  ASSUME HookOK(hook), NEW props, PropsOK(props), NEW changed \in BOOLEAN,
         Becomes(EffectOf(props, changed)), rendered' = props
  PROVE  FieldShows'
<1> DEFINE s == DispatchProps(hook.state, props)
           g == NextGeneration(hook)
           new == [g EXCEPT !.state = s, !.told = None]
           h == IF changed THEN new ELSE hook
           k == EffectOf(props, changed)
<1>1. StateOK(s) /\ s.generation = hook.generation + 1  BY PropsKeep DEF HookOK
<1>2. g.state = hook.state
  <2> HIDE DEF s
  <2> QED  BY <1>1, NextGenerationWith
<1>3. k = IF props.disabled THEN h ELSE Bootstrap(h, props.value)
  BY <1>2 DEF EffectOf
<1> HIDE DEF s
<1>4. HookOK(new)  BY <1>1, NextGenerationWith
<1> HIDE DEF new
<1>5. HookOK(h)  BY <1>4
<1>6. HookOK(k)  BY EffectKeeps
<1> HIDE DEF h, k
<1>7. CASE props.disabled  BY <1>7 DEF FieldShows
<1>8. CASE ~ props.disabled
  <2>1. HookShows(k)  BY <1>3, <1>5, <1>8, PendingShows
  <2>2. Becomes(k)  BY DEF k
  <2> QED  BY <1>6, <2>1, <2>2, ShowsNow
<1> QED  BY <1>7, <1>8

\* The host changes its props, or the effect of a render runs.
LEMMA EffectsShow ==
  ASSUME FieldTypes, (\E props \in HostProps : HostChanges(props)) \/ RunEffect
  PROVE  FieldShows'
<1>1. HookOK(hook)  BY DEF FieldTypes
<1>2. ASSUME NEW props \in HostProps, HostChanges(props)  PROVE FieldShows'
  <2>1. PropsOK(props)  BY AreaSelectionConstants DEF HostProps, PropsOK
  <2> DEFINE changed == TRUE
  <2>2. changed \in BOOLEAN /\ Becomes(EffectOf(props, changed)) /\ rendered' = props
    BY <1>2 DEF HostChanges
  <2> HIDE DEF changed
  <2> QED  BY <1>1, <2>1, <2>2, EffectShows
<1>3. CASE RunEffect
  <2> DEFINE changed == effect = "changed"
             props == rendered
  <2>1. PropsOK(props)  BY DEF FieldTypes
  <2>2. changed \in BOOLEAN /\ Becomes(EffectOf(props, changed)) /\ rendered' = props
    BY <1>3 DEF RunEffect
  <2> HIDE DEF changed, props
  <2> QED  BY <1>1, <2>1, <2>2, EffectShows
<1> QED  BY <1>2, <1>3

\* React renders.
LEMMA RenderShows ==
  ASSUME FieldShows, Render
  PROVE  FieldShows'
<1>1. /\ rendered' = hostProps /\ UNCHANGED <<hostProps, hook, microtask>> /\ effect = "none"
      /\ effect' = (IF rendered = hostProps THEN "none" ELSE "changed")
  BY DEF Render
<1>2. CASE rendered = hostProps
  <2>1. UNCHANGED <<hook, hostProps, rendered, effect, microtask>>  BY <1>1, <1>2
  <2> QED  BY <2>1, IdleShows
<1>3. CASE rendered # hostProps
  <2>1. Unsettled'  BY <1>1, <1>3 DEF Unsettled
  <2> QED  BY <2>1, UnsettledShows
<1> QED  BY <1>2, <1>3

-----------------------------------------------------------------------------
(* The field shows the value of its host.                                   *)

\* The user picks a hit of a search, which is followed up.
LEMMA PickShows ==
  ASSUME FieldTypes, FieldShows, NEW hit, PickHit(hit)
  PROVE  FieldShows'
<1> DEFINE g == NextGeneration(hook)
           none == <<>>
           s == DispatchClear(hook.state)
           k == [g EXCEPT !.state = s, !.told = None]
           asks == [code |-> hit.code, back |-> view.path]
           c == NewCall("hit", g.generation, 0, view.dataset, asks)
           new == [k EXCEPT !.calls = @ \cup {c}]
<1>1. UNCHANGED <<hostProps, rendered, effect, microtask>>
  BY DEF PickHit
<1>2. HookOK(hook) /\ StateOK(hook.state)  BY DEF FieldTypes, HookOK
<1>3. StateOK(s) /\ s.generation = hook.generation + 1
  BY <1>2, ClearKeeps DEF HookOK
<1>4. g.state = hook.state /\ g.generation = hook.generation + 1
  <2> HIDE DEF s
  <2> QED  BY <1>2, <1>3, NextGenerationWith
<1>5. CASE UNCHANGED hook  BY <1>1, <1>5, IdleShows
<1>6. CASE Becomes([g EXCEPT !.state = DispatchClear(@), !.told = None, !.calls = @ \cup {c}])
           /\ view.dataset # None
  <2>1. [g EXCEPT !.state = DispatchClear(@), !.told = None, !.calls = @ \cup {c}] = new
    <3>1. DispatchClear(g.state) = s  BY <1>4
    <3> HIDE DEF g, s, c
    <3> QED  BY <3>1
  <2>2. Becomes(new)  BY <1>6, <2>1
  <2>3. view.dataset \in Editions /\ PathOK(view.path)  BY <1>6 DEF FieldTypes, StateOK
  <2>4. /\ DOMAIN c = {"kind", "generation", "request", "dataset", "asks", "aborted"}
        /\ c.kind = "hit" /\ c.dataset = view.dataset /\ c.asks.back = view.path
        /\ c.generation = hook.generation + 1 /\ ~ c.aborted
    <3> HIDE DEF g
    <3> QED  BY <1>4 DEF NewCall
  <2>5. s.layers = LayersFor(none)
    <3> DEFINE l == LayersFor(none)
    <3>1. s = [hook.state EXCEPT !.generation = @ + 1, !.path = <<>>, !.layers = l,
                                 !.status = None]
      BY DEF DispatchClear
    <3> HIDE DEF l, s
    <3>2. s.layers = l  BY <1>2, <3>1 DEF StateOK, StateFields
    <3> QED  BY <3>2 DEF l
  <2>6. PathOK(none)  BY EmptyPath
  <2> HIDE DEF s, c, none
  <2>7. \A i \in DOMAIN s.layers : s.layers[i].phase # "loading"
    BY <2>5, <2>6, UnloadedLayers
  <2>8. HookOK(k)  BY <1>2, <1>3, GenerationKeeps
  <2>9. k.state = s /\ k.generation = hook.generation + 1
    <3>1. DOMAIN g = {"state", "generation", "calls", "told"}
      BY <1>2 DEF HookOK, NextGeneration, AbortAll
    <3> HIDE DEF g
    <3> QED  BY <1>4, <3>1
  <2> HIDE DEF k
  <2>10. CallOK(c)  BY <2>3, <2>4 DEF CallOK
  <2> DEFINE asked == k.calls \cup {c}
  <2>11. (\A x \in asked : CallOK(x)) /\ c \in asked  BY <2>8, <2>10 DEF HookOK
  <2>12. new = [k EXCEPT !.calls = asked]  OBVIOUS
  <2> HIDE DEF asked, new
  <2>13. HookOK(new)  BY <2>8, <2>11, <2>12, HookWithCalls
  <2>14. new.calls = asked /\ new.state = s /\ new.generation = hook.generation + 1
    BY <2>8, <2>9, <2>12 DEF HookOK
  <2>15. Settling(new, {})  BY <2>7, <2>14 DEF Settling
  <2>16. Arrived(new)  BY <2>4, <2>11, <2>14 DEF Arrived, Open, IsNow
  <2>17. HookShows(new)  BY <2>15, <2>16 DEF HookShows
  <2> QED  BY <2>2, <2>13, <2>17, ShowsNow
<1> QED  BY <1>5, <1>6 DEF PickHit

\* Every step of the field, its host and its server keeps what it shows, or will.
LEMMA ShowingSteps ==
  ASSUME SteadyHost, NoneIsNull, IsProps(hostProps), FieldTypes, FieldMeans, FieldShows,
         [FieldNext]_fieldVars
  PROVE  FieldShows'
<1>1. CASE UNCHANGED fieldVars  BY <1>1, IdleShows DEF fieldVars
<1>2. CASE FieldNext
  <2>1. ASSUME NEW d \in Editions, Activate(d)  PROVE FieldShows'
    BY <2>1, IdleShows DEF Activate
  <2>2. ASSUME NEW props \in HostProps, HostChanges(props)  PROVE FieldShows'
    BY <2>2, EffectsShow
  <2>3. CASE Render \/ RunEffect \/ RunMicrotask
    BY <2>3, RenderShows, EffectsShow, MicrotaskShows
  <2>4. CASE User
    <3>1. ASSUME NEW i \in DOMAIN view.layers, NEW n \in view.layers[i].items, Choose(i, n)
          PROVE  FieldShows'
      <4>1. Unsettled'  BY <3>1, ChoosingMeans
      <4> QED  BY <4>1, UnsettledShows
    <3>2. ASSUME NEW i \in DOMAIN view.layers, LoadMore(i) \/ RetryLayer(i)
          PROVE  FieldShows'
      BY <3>2, MoreShows
    <3>3. CASE CloseSearch  BY <3>3, IdleShows DEF CloseSearch
    <3>4. ASSUME NEW hit \in panel.hits, PickHit(hit)  PROVE FieldShows'
      BY <3>4, PickShows
    <3>5. CASE Clear
      <4>1. Unsettled'  BY <3>5, ClearingMeans
      <4> QED  BY <4>1, UnsettledShows
    <3> QED  BY <2>4, <3>1, <3>2, <3>3, <3>4, <3>5, SearchShows DEF User
  <2>5. ASSUME NEW c \in hook.calls, AnswerField(c) \/ FailField(c)  PROVE FieldShows'
    <3>1. CASE AnswerHit(c)
      <4>1. Unsettled'  BY <3>1, AnswerHitMeans
      <4> QED  BY <4>1, UnsettledShows
    <3> QED  BY <2>5, <3>1, IgnoreShows, AnswerDatasetShows, AnswerPathShows,
                AnswerLayerShows, AnswerValidateShows, FailShows DEF AnswerField
  <2> QED  BY <1>2, <2>1, <2>2, <2>3, <2>4, <2>5 DEF FieldNext
<1> QED  BY <1>1, <1>2

\* When nothing is left to come it shows it.
LEMMA ShownAtRest ==
  ASSUME FieldTypes, FieldMeans, FieldShows  PROVE ShowsHostValue
<1> SUFFICES ASSUME AtRest
             PROVE  /\ \A i \in DOMAIN view.layers : view.layers[i].phase # "loading"
                    /\ \/ view.layers[1].phase = "error"
                       \/ IF hostProps.value = None THEN view.path = <<>>
                          ELSE view.path # <<>> /\ Last(view.path).code = Last(hostProps.value.codes)
  BY DEF ShowsHostValue
<1>1. /\ Unsettled = FALSE /\ ~ rendered.disabled /\ view = hook.state /\ hook.calls = {}
      /\ hook.state.value = hostProps.value
  BY DEF AtRest, Still, Unsettled, Live, FieldMeans, PropsFollow
<1>2. \A c : ~ Open(hook, c)  BY <1>1 DEF Open, IsNow
<1>3. Settling(hook, {}) /\ Arrived(hook)
  BY <1>1, <1>2 DEF FieldShows, HookShows, Pending
<1>4. \A i \in DOMAIN view.layers : view.layers[i].phase # "loading"
  BY <1>1, <1>2, <1>3 DEF Settling, Awaiting
<1>5. hook.state.value = None => hook.state.path = <<>>
  BY <1>1 DEF FieldMeans, HookMeans, StateMeans
<1>6. hook.state.value = None \/ ErrorRoot(hook) \/ ShowsValue(hook.state)
  BY <1>2, <1>3 DEF Arrived
<1> QED  BY <1>1, <1>4, <1>5, <1>6 DEF ErrorRoot, ShowsValue

\* README: only submit a value when accepted is true.  The status the host was told last is
\* about the value it holds, and a field that has come to rest shows that value, or an error
\* at its root, and nothing in it goes on loading.
THEOREM FieldHolds ==
  ASSUME SteadyHost, NoneIsNull
  PROVE  FieldSpec => []FieldInv
<1> DEFINE I == FieldTypes /\ FieldMeans /\ IsProps(hostProps) /\ FieldShows
<1>1. FieldInit => I
  <2>1. FieldInit => FieldShows  BY DEF FieldInit, FieldShows, Unsettled
  <2> QED  BY <2>1, FieldStarts, FieldBegins
<1>2. I /\ [FieldNext]_fieldVars => I'
  <2> SUFFICES ASSUME I, [FieldNext]_fieldVars  PROVE I'
    OBVIOUS
  <2>1. FieldTypes'  BY FieldSteps
  <2>2. FieldMeans'  BY MeaningSteps
  <2>3. IsProps(hostProps')  BY PropsStayShaped
  <2>4. IsProps(hostProps') => IsProps(hostProps)'  OBVIOUS
  <2>5. FieldShows'  BY ShowingSteps
  <2> QED  BY <2>1, <2>2, <2>3, <2>4, <2>5
<1>3. I => FieldInv  BY MeaningAccepts, ShownAtRest DEF FieldInv
<1> QED  BY <1>1, <1>2, <1>3, PTL DEF FieldSpec
-----------------------------------------------------------------------------
(* The form.                                                                *)

\* A part of a table with the parents of its regions.
Closed(t, nodes) ==
    /\ nodes \subseteq DOMAIN t
    /\ \A c \in nodes : t[c].parent = Root \/ t[c].parent \in nodes

Restricted(t, nodes) == [c \in nodes |-> t[c]]

\* Such a part is a tree again.
LEMMA RestrictedTree ==
  ASSUME NEW t, IsTree(t), NEW nodes, Closed(t, nodes)
  PROVE  IsTree(Restricted(t, nodes))
<1> DEFINE u == Restricted(t, nodes)
<1>1. DOMAIN u = nodes /\ \A c \in nodes : c \in DOMAIN t /\ u[c] = t[c]
  BY DEF Restricted, Closed
<1> HIDE DEF u
<1> SUFFICES ASSUME NEW c \in nodes
             PROVE  /\ u[c].level \in 1 .. 5 /\ c # Root
                    /\ IF u[c].level = 1 THEN u[c].parent = Root
                       ELSE /\ u[c].parent \in DOMAIN u
                            /\ u[u[c].parent].level = u[c].level - 1
  BY <1>1 DEF IsTree, u
<1>2. t[c].level \in 1 .. 5 /\ c # Root /\ u[c] = t[c]  BY <1>1 DEF IsTree
<1>3. CASE t[c].level = 1  BY <1>1, <1>2, <1>3 DEF IsTree
<1>4. CASE t[c].level # 1
  <2>1. /\ t[c].parent \in DOMAIN t /\ t[t[c].parent].level = t[c].level - 1
        /\ t[c].parent # Root
    BY <1>1, <1>4 DEF IsTree
  <2>2. t[c].parent \in nodes  BY <2>1 DEF Closed
  <2> QED  BY <1>1, <1>2, <1>4, <2>1, <2>2
<1> QED  BY <1>3, <1>4

\* What is above a region in the part is what is above it in the whole.
LEMMA RestrictedAbove ==
  ASSUME NEW t, IsTree(t), NEW nodes, Closed(t, nodes), NEW c \in nodes,
         NEW n \in 0 .. t[c].level - 1
  PROVE  Above(Restricted(t, nodes), c, n) = Above(t, c, n)
<1> DEFINE u == Restricted(t, nodes)
<1>1. DOMAIN u = nodes /\ \A d \in nodes : u[d] = t[d] /\ d \in DOMAIN t
  BY DEF Restricted, Closed
<1> HIDE DEF u
<1>2. \A d \in nodes : t[d].level \in 1 .. 5
        /\ (t[d].level # 1 => t[d].parent \in nodes /\ t[t[d].parent].level = t[d].level - 1)
  BY <1>1 DEF IsTree, Closed
<1>3. n = 0 \/ n = 1 \/ n = 2 \/ n = 3 \/ n = 4  BY <1>2
<1> DEFINE p == t[c].parent
           q == t[p].parent
           r == t[q].parent
<1>4. n > 0 => p \in nodes /\ t[p].level = t[c].level - 1  BY <1>2
<1>5. n > 1 => q \in nodes /\ t[q].level = t[c].level - 2  BY <1>2, <1>4
<1>6. n > 2 => r \in nodes  BY <1>2, <1>5
<1>7. u[c].parent = p  BY <1>1
<1>8. n > 0 => u[p].parent = q  BY <1>1, <1>4
<1>9. n > 1 => u[q].parent = r  BY <1>1, <1>5
<1>10. n > 2 => u[r].parent = t[r].parent  BY <1>1, <1>6
<1> HIDE DEF p, q, r
<1>11. Above(u, c, n) = Above(t, c, n)
  <2>1. CASE n = 0  BY <2>1 DEF Above
  <2>2. CASE n = 1  BY <1>7, <2>2 DEF Above, p
  <2>3. CASE n = 2  BY <1>7, <1>8, <2>3 DEF Above, p, q
  <2>4. CASE n = 3  BY <1>7, <1>8, <1>9, <2>4 DEF Above, p, q, r
  <2>5. CASE n = 4  BY <1>7, <1>8, <1>9, <1>10, <2>5, SMTT(40) DEF Above, p, q, r
  <2> QED  BY <1>3, <2>1, <2>2, <2>3, <2>4, <2>5
<1> QED  BY <1>11 DEF u

\* So are the paths.
LEMMA RestrictedPath ==
  ASSUME NEW t, IsTree(t), NEW nodes, Closed(t, nodes), NEW c \in nodes
  PROVE  PathTo(Restricted(t, nodes), c) = PathTo(t, c)
<1> DEFINE u == Restricted(t, nodes)
           n == t[c].level
<1>1. LevelOf(u, c) = n /\ LevelOf(t, c) = n  BY DEF LevelOf, Restricted
<1>2. n \in 1 .. 5  BY DEF Closed, IsTree
<1>3. \A i \in 1 .. n : Above(u, c, n - i) = Above(t, c, n - i)
  <2> SUFFICES ASSUME NEW i \in 1 .. n  PROVE Above(u, c, n - i) = Above(t, c, n - i)
    OBVIOUS
  <2>1. n - i \in 0 .. n - 1
    <3> HIDE DEF n
    <3> QED  BY <1>2
  <2> QED  BY <2>1, RestrictedAbove
<1> HIDE DEF u, n
<1>4. PathTo(u, c) = PathTo(t, c)  BY <1>1, <1>3 DEF PathTo
<1> QED  BY <1>4 DEF u

\* What a filter keeps is what stands at the positions.
LEMMA FilterKeeps ==
  ASSUME NEW seq, NEW at \in SUBSET Nat, IsFiniteSet(at)
  PROVE  /\ Len(Filter(seq, at)) = Cardinality(at)
         /\ DOMAIN Filter(seq, at) = 1 .. Cardinality(at)
         /\ \A k \in 1 .. Cardinality(at) : \E i \in at : Filter(seq, at)[k] = seq[i]
         /\ \A i \in at : \E k \in 1 .. Cardinality(at) : Filter(seq, at)[k] = seq[i]
<1> DEFINE n == Cardinality(at)
           nth(k) == CHOOSE i \in at : Rank(i, at) = k
           f == Filter(seq, at)
<1>1. n \in Nat  BY RanksDiffer
<1>2. f = [k \in 1 .. n |-> seq[nth(k)]]  BY DEF Filter, Rank
<1>3. \A k \in 1 .. n : nth(k) \in at /\ Rank(nth(k), at) = k
  <2> SUFFICES ASSUME NEW k \in 1 .. n  PROVE nth(k) \in at /\ Rank(nth(k), at) = k
    OBVIOUS
  <2>1. \E i \in at : Rank(i, at) = k  BY RanksAreTaken
  <2> QED  BY <2>1
<1>4. \A i \in at : Rank(i, at) \in 1 .. n /\ nth(Rank(i, at)) = i
  <2> SUFFICES ASSUME NEW i \in at  PROVE Rank(i, at) \in 1 .. n /\ nth(Rank(i, at)) = i
    OBVIOUS
  <2>1. Rank(i, at) \in 1 .. n  BY RanksDiffer
  <2>2. nth(Rank(i, at)) \in at /\ Rank(nth(Rank(i, at)), at) = Rank(i, at)  BY <1>3, <2>1
  <2> HIDE DEF nth
  <2> QED  BY <2>1, <2>2, RanksDiffer
<1> HIDE DEF nth, f, n
<1>5. f = [k \in 1 .. n |-> f[k]] /\ DOMAIN f = 1 .. n /\ \A k \in 1 .. n : f[k] = seq[nth(k)]
  BY <1>2
<1>6. Len(f) = n  BY <1>1, <1>5, SeqOfItsValues
<1>7. \A k \in 1 .. n : \E i \in at : f[k] = seq[i]  BY <1>3, <1>5
<1>8. \A i \in at : \E k \in 1 .. n : f[k] = seq[i]  BY <1>4, <1>5
<1> QED  BY <1>5, <1>6, <1>7, <1>8 DEF f, n

-----------------------------------------------------------------------------
(* What the page holds.                                                     *)

\* A level of a draft is empty or a region of that level; a group stands for the
\* region of the second.
LevelsOK(slots, group) ==
    /\ slots = [l \in 1 .. 4 |-> slots[l]]
    /\ \A l \in 1 .. 4 : slots[l] = NoNode \/ slots[l].level = l
    /\ group = NoNode \/ (group.level = 2 /\ slots[2] = NoNode)

DraftFields ==
    {"status", "requiresReview", "warnings", "mode", "slots", "group", "detail", "residual",
     "recipient", "folded"}

DraftOK(c) ==
    /\ DOMAIN c = DraftFields
    /\ c.mode = "withStreet" /\ LevelsOK(c.slots, c.group)

\* Groups stand for prefectures.
GroupsAtTwo(options) == \A o \in options : o.kind = "group" => o.level = 2

\* A confirmation carries levels that selection made.
FormCallOK(call) ==
    /\ call.kind = "confirm" => LevelsOK(call.body.slots, call.body.group)
                               /\ \A l \in 1 .. 4 : Selection(call.body.slots[l]) = call.body.slots[l]
                               /\ Selection(call.body.group) = call.body.group
    /\ call.kind = "lists" => GroupsAtTwo(call.body.provinces)

\* The draft and the candidates have their levels in their slots.
PageOK(p) ==
    /\ DOMAIN p = {"result", "draft", "lists", "overwrite", "reviewed", "check", "saved", "busy"}
    /\ p.draft = NoCandidate \/ DraftOK(p.draft)
    /\ p.result = NoResult \/ \A c \in ToSet(p.result.parsed.candidates) : DraftOK(c)
    /\ p.lists = [l \in 1 .. 4 |-> p.lists[l]]
    /\ \A l \in 1 .. 4 : GroupsAtTwo(p.lists[l])

\* selection does nothing to what it made.
LEMMA SelectionTwice ==
  ASSUME NEW node
  PROVE  Selection(Selection(node)) = Selection(node)
  BY DEF Selection, NoNode

\* toWithStreet keeps the levels of a draft.
LEMMA WithStreetAlready ==
  ASSUME NEW c, DraftOK(c)
  PROVE  /\ DraftOK(ToWithStreet(c))
         /\ ToWithStreet(c).slots = c.slots /\ ToWithStreet(c).group = c.group
  BY DEF ToWithStreet, DraftOK, DraftFields

\* applyPhone keeps the levels of a draft.
LEMMA PhoneKeeps ==
  ASSUME NEW c, DraftOK(c), NEW phone
  PROVE  DraftOK(ApplyPhone(c, phone))
<1> DEFINE b == ToWithStreet(c)
<1>1. DraftOK(b)  BY WithStreetAlready
<1>2. ApplyPhone(c, phone) = [b EXCEPT !.recipient = [b.recipient EXCEPT !.phone = phone]]
  BY DEF ApplyPhone
<1> HIDE DEF b
<1> QED  BY <1>1, <1>2 DEF DraftOK, DraftFields

\* applyDetail keeps the levels of a draft.
LEMMA DetailKeeps ==
  ASSUME NEW c, DraftOK(c), NEW detail
  PROVE  DraftOK(ApplyDetail(c, detail))
<1> DEFINE b == ToWithStreet(c)
<1>1. DraftOK(b)  BY WithStreetAlready
<1>2. ApplyDetail(c, detail) = [b EXCEPT !.detail = detail]  BY DEF ApplyDetail
<1> HIDE DEF b
<1> QED  BY <1>1, <1>2 DEF DraftOK, DraftFields

\* applyRegion puts a region in the slot of its level and clears the levels below it; a
\* group takes the place of the city.
LEMMA RegionKeeps ==
  ASSUME NEW c, DraftOK(c), NEW level \in 1 .. 4, NEW option,
         option = NoOption \/ (option.kind = "group" => option.level = 2),
         Applicable(level, option)
  PROVE  DraftOK(ApplyRegion(c, level, option))
<1> DEFINE b == ToWithStreet(c)
           slots == [l \in 1 .. 4 |-> IF l >= level THEN NoNode ELSE b.slots[l]]
           group == IF b.group.level >= level THEN NoNode ELSE b.group
           cleared == [b EXCEPT !.slots = slots, !.group = group]
           node == [code |-> option.code, name |-> option.name, level |-> option.level,
                    match |-> "explicit", text |-> << >>, range |-> NoSpan]
<1>1. DraftOK(b) /\ b.slots = c.slots /\ b.group = c.group  BY WithStreetAlready
<1>2. ApplyRegion(c, level, option) =
        IF option.code = NoCode THEN cleared
        ELSE IF option.kind = "group" THEN [cleared EXCEPT !.group = node]
        ELSE [cleared EXCEPT !.slots[level] = node]
  BY DEF ApplyRegion
<1> HIDE DEF b
<1>3. node.level = option.level  OBVIOUS
<1>4. /\ slots = [l \in 1 .. 4 |-> slots[l]]
      /\ \A l \in 1 .. 4 : slots[l] = NoNode \/ (l < level /\ slots[l].level = l)
      /\ group = NoNode \/ (group.level = 2 /\ 2 < level /\ slots[2] = NoNode)
  BY <1>1 DEF DraftOK, LevelsOK
<1>5. DOMAIN cleared = DraftFields /\ cleared.mode = "withStreet"
      /\ cleared.slots = slots /\ cleared.group = group
  BY <1>1 DEF DraftOK, DraftFields
<1> HIDE DEF slots, group, cleared, node
<1>6. CASE option.code = NoCode
  <2>1. LevelsOK(slots, group)  BY <1>4 DEF LevelsOK
  <2> QED  BY <1>2, <1>5, <1>6, <2>1 DEF DraftOK
<1>7. CASE option.code # NoCode /\ option.kind = "group"
  <2>1. level = 2 /\ option.level = 2  BY <1>7 DEF Applicable, NoOption
  <2>2. LevelsOK(slots, node)  BY <1>3, <1>4, <2>1 DEF LevelsOK
  <2>3. ApplyRegion(c, level, option) = [cleared EXCEPT !.group = node]  BY <1>2, <1>7
  <2> QED  BY <1>5, <2>2, <2>3 DEF DraftOK, DraftFields
<1>8. CASE option.code # NoCode /\ option.kind # "group"
  <2> DEFINE new == [slots EXCEPT ![level] = node]
  <2>1. option.level = level  BY <1>8 DEF Applicable, NoOption
  <2>2. LevelsOK(new, group)
    <3>1. new = [l \in 1 .. 4 |-> new[l]]  BY <1>4
    <3>2. \A l \in 1 .. 4 : new[l] = IF l = level THEN node ELSE slots[l]  BY <1>4
    <3> HIDE DEF new
    <3>3. \A l \in 1 .. 4 : new[l] = NoNode \/ new[l].level = l
      BY <1>3, <1>4, <2>1, <3>2
    <3>4. group = NoNode \/ (group.level = 2 /\ new[2] = NoNode)
      BY <1>4, <3>2
    <3> QED  BY <3>1, <3>3, <3>4 DEF LevelsOK
  <2>3. ApplyRegion(c, level, option) = [cleared EXCEPT !.slots = new]
    BY <1>2, <1>5, <1>8
  <2> HIDE DEF new
  <2> QED  BY <1>5, <2>2, <2>3 DEF DraftOK, DraftFields
<1> QED  BY <1>6, <1>7, <1>8

-----------------------------------------------------------------------------
(* What the engine and the mapping of its answers make of a text.           *)

\* The engine answers with paths of the index.
AnswerOK(t, c) ==
    \E d \in DOMAIN t :
        /\ DOMAIN c.path = DOMAIN PathTo(t, d)
        /\ \A i \in DOMAIN c.path : c.path[i].code = PathTo(t, d)[i]

\* No answer, one or two.
AnswersOK(t, answers) ==
    /\ answers = << >> \/ DOMAIN answers = 1 .. 1 \/ DOMAIN answers = 1 .. 2
    /\ \A i \in DOMAIN answers : AnswerOK(t, answers[i])

\* A candidate of the engine is a path of the index.
LEMMA EngineFindsPaths ==
  ASSUME NEW t, NEW raw, NEW c \in EngineCandidates(t, raw)
  PROVE  AnswerOK(t, c) /\ DOMAIN c = {"path", "name", "phone", "sameDetail", "warnings"}
<1>1. /\ DOMAIN c = {"path", "name", "phone", "sameDetail", "warnings"}
      /\ c.path \in UNION {EnginePaths(t, d, raw) : d \in {e \in DOMAIN t : LevelOf(t, e) <= 4}}
  BY DEF EngineCandidates
<1>2. PICK d \in DOMAIN t : c.path \in EnginePaths(t, d, raw)  BY <1>1
<1> DEFINE p == PathTo(t, d)
<1>3. \E f : c.path = [i \in DOMAIN p |-> [code |-> p[i], text |-> f[i]]]
  BY <1>2 DEF EnginePaths
<1> HIDE DEF p
<1>4. DOMAIN c.path = DOMAIN p /\ \A i \in DOMAIN c.path : c.path[i].code = p[i]
  BY <1>3
<1> QED  BY <1>1, <1>4 DEF AnswerOK, p

\* So is every one of its answers.
LEMMA EngineAnswersPaths ==
  ASSUME NEW t, NEW raw, NEW answers \in EngineAnswers(t, raw)
  PROVE  AnswersOK(t, answers)
<1> DEFINE cands == EngineCandidates(t, raw)
           flagged(c) == [c EXCEPT !.warnings = {"AMBIGUOUS"}]
<1>1. \/ answers = << >>
      \/ \E c \in cands : answers = <<c>>
      \/ \E c, d \in cands : answers = <<flagged(c), flagged(d)>>
  <2> DEFINE found == {c \in cands : c.sameDetail \/ (mix.free /\ c.name = << >>)}
             alone == {c \in found : c.name = << >> /\ c.sameDetail}
             end(c) == Last(c.path).code
             pairs == {e \in alone \X alone : /\ end(e[1]) # end(e[2])
                         /\ LevelOf(t, end(e[1])) = LevelOf(t, end(e[2]))}
  <2>1. answers \in IF found = {} THEN {<< >>}
          ELSE {<<c>> : c \in found} \cup {<<flagged(e[1]), flagged(e[2])>> : e \in pairs}
    BY DEF EngineAnswers
  <2>2. found \subseteq cands /\ \A e \in pairs : e[1] \in cands /\ e[2] \in cands
    OBVIOUS
  <2> HIDE DEF cands, flagged, found, pairs
  <2> QED  BY <2>1, <2>2
<1>2. \A c \in cands : AnswerOK(t, c) /\ AnswerOK(t, flagged(c))
  <2> SUFFICES ASSUME NEW c \in cands  PROVE AnswerOK(t, c) /\ AnswerOK(t, flagged(c))
    OBVIOUS
  <2>1. AnswerOK(t, c) /\ DOMAIN c = {"path", "name", "phone", "sameDetail", "warnings"}
    BY EngineFindsPaths
  <2>2. flagged(c).path = c.path  BY <2>1
  <2> HIDE DEF flagged
  <2> QED  BY <2>1, <2>2 DEF AnswerOK
<1> HIDE DEF cands, flagged
<1>3. CASE answers = << >>  BY <1>3 DEF AnswersOK
<1>4. ASSUME NEW c \in cands, answers = <<c>>  PROVE AnswersOK(t, answers)
  <2>1. DOMAIN answers = 1 .. 1 /\ answers[1] = c  BY <1>4
  <2> QED  BY <1>2, <2>1 DEF AnswersOK
<1>5. ASSUME NEW c \in cands, NEW d \in cands, answers = <<flagged(c), flagged(d)>>
      PROVE  AnswersOK(t, answers)
  <2>1. DOMAIN answers = 1 .. 2 /\ answers[1] = flagged(c) /\ answers[2] = flagged(d)
    BY <1>5
  <2>2. \A i \in 1 .. 2 : i = 1 \/ i = 2  OBVIOUS
  <2> QED  BY <1>2, <2>1, <2>2 DEF AnswersOK
<1> QED  BY <1>1, <1>3, <1>4, <1>5

\* What a candidate says of its levels: a slot holds a region of its level, a group
\* one of the second.
LEMMA CandidateLevels ==
  ASSUME NEW t, IsTree(t), GroupsArePrefectures(t), NEW cand, AnswerOK(t, cand),
         NEW raw, NEW options, NEW spans, NEW answers, NEW built, NEW rebuilt
  PROVE  DraftOK(CandidateOf(t, cand, answers,
                             CollectSlots(raw, t, options, cand.path, spans), built, rebuilt))
<1> DEFINE path == cand.path
           cs == CollectSlots(raw, t, options, path, spans)
           c == CandidateOf(t, cand, answers, cs, built, rebuilt)
           level(i) == LevelOf(t, path[i].code)
           slot(i) == IF i \in cs.suspects
                      THEN [LevelNode(t, path[i]) EXCEPT !.match = "none", !.text = << >>]
                      ELSE [LevelNode(t, path[i]) EXCEPT !.range = cs.spans[i]]
           at(l) == {i \in cs.kept \cup cs.suspects : level(i) = l}
           first == CHOOSE i \in cs.groups : \A j \in cs.groups : i <= j
<1>1. PICK d \in DOMAIN t : /\ DOMAIN path = DOMAIN PathTo(t, d)
                            /\ \A i \in DOMAIN path : path[i].code = PathTo(t, d)[i]
  BY DEF AnswerOK
<1>2. /\ DOMAIN path = 1 .. t[d].level /\ t[d].level \in 1 .. 5
      /\ \A i \in DOMAIN path : path[i].code \in DOMAIN t /\ level(i) = i
  <2> DEFINE p == PathTo(t, d)
  <2>1. /\ t[d].level \in 1 .. 5 /\ DOMAIN p = 1 .. t[d].level
        /\ \A i \in 1 .. t[d].level : p[i] \in DOMAIN t /\ t[p[i]].level = i
    BY PathFacts
  <2> HIDE DEF p
  <2>2. DOMAIN path = DOMAIN p /\ \A i \in DOMAIN path : path[i].code = p[i]
    BY <1>1 DEF p
  <2> QED  BY <2>1, <2>2 DEF LevelOf
<1>3. /\ cs.groups = {i \in DOMAIN path : Part(t, path, i) = "group"}
      /\ \A i \in cs.kept \cup cs.suspects :
           i \in DOMAIN path /\ Part(t, path, i) \in {"explicit", "inferred"}
      /\ DOMAIN cs = {"spans", "suspects", "inferred", "stripped", "kept", "unlocated",
                      "unknown", "repeated", "groups"}
  BY DEF CollectSlots
<1>4. \A i \in cs.groups : i = 2
  <2> SUFFICES ASSUME NEW i \in cs.groups  PROVE i = 2
    OBVIOUS
  <2>1. i \in DOMAIN path /\ Part(t, path, i) = "group"  BY <1>3
  <2>2. t[path[i].code].kind = "group"  BY <2>1 DEF Part
  <2> QED  BY <1>2, <2>1, <2>2 DEF GroupsArePrefectures
<1>5. /\ c.slots = [l \in 1 .. 4 |-> IF at(l) = {} THEN NoNode
                                    ELSE slot(CHOOSE i \in at(l) : TRUE)]
      /\ c.group = IF cs.groups = {} THEN NoNode
                   ELSE [LevelNode(t, path[first]) EXCEPT !.text = << >>]
      /\ DOMAIN c = DraftFields /\ c.mode = "withStreet"
  BY DEF CandidateOf, DraftFields
<1> HIDE DEF c, cs
<1>6. \A i : slot(i).level = level(i)  BY DEF LevelNode
<1>7. \A l \in 1 .. 4 : c.slots[l] = NoNode \/ c.slots[l].level = l
  <2> SUFFICES ASSUME NEW l \in 1 .. 4, at(l) # {}  PROVE c.slots[l].level = l
    BY <1>5
  <2>1. (CHOOSE i \in at(l) : TRUE) \in at(l)  OBVIOUS
  <2>2. level(CHOOSE i \in at(l) : TRUE) = l  BY <2>1
  <2> HIDE DEF slot, at
  <2> QED  BY <1>5, <1>6, <2>2
<1>8. c.group = NoNode \/ (c.group.level = 2 /\ c.slots[2] = NoNode)
  <2>1. CASE cs.groups = {}  BY <1>5, <2>1
  <2>2. CASE cs.groups # {}
    <3>1. cs.groups = {2}  BY <1>4, <2>2
    <3>2. first = 2  BY <3>1
    <3>3. 2 \in DOMAIN path /\ Part(t, path, 2) = "group"  BY <1>3, <3>1
    <3>4. at(2) = {}
      <4> SUFFICES ASSUME NEW i \in at(2)  PROVE FALSE
        OBVIOUS
      <4>1. i \in DOMAIN path /\ Part(t, path, i) \in {"explicit", "inferred"} /\ level(i) = 2
        BY <1>3
      <4>2. i = 2  BY <1>2, <4>1
      <4> QED  BY <3>3, <4>1, <4>2
    <3>5. c.slots[2] = NoNode
      <4> HIDE DEF at, slot
      <4> QED  BY <1>5, <3>4
    <3>6. c.group.level = level(2)
      <4>1. c.group = [LevelNode(t, path[2]) EXCEPT !.text = << >>]  BY <1>5, <2>2, <3>2
      <4> QED  BY <4>1 DEF LevelNode
    <3> QED  BY <1>2, <3>3, <3>5, <3>6
  <2> QED  BY <2>1, <2>2
<1>9. c.slots = [l \in 1 .. 4 |-> c.slots[l]]
  <2> HIDE DEF at, slot
  <2> QED  BY <1>5
<1> QED  BY <1>5, <1>7, <1>8, <1>9 DEF DraftOK, LevelsOK, c, cs

\* fallbackCandidate has no levels.
LEMMA FallbackLevels ==
  ASSUME NEW raw, NEW options, NEW scan
  PROVE  DraftOK(FallbackCandidate(raw, options, scan))
<1> DEFINE c == FallbackCandidate(raw, options, scan)
<1>1. /\ DOMAIN c = DraftFields /\ c.mode = "withStreet"
      /\ c.slots = [l \in 1 .. 4 |-> NoNode] /\ c.group = NoNode
  BY DEF FallbackCandidate, FallbackOf, DraftFields
<1> HIDE DEF c
<1>2. LevelsOK(c.slots, c.group)  BY <1>1 DEF LevelsOK
<1> QED  BY <1>1, <1>2 DEF DraftOK, c

\* applyRegionHint leaves candidates out and adds a warning.
LEMMA HintKeeps ==
  ASSUME NEW cs, NEW n \in Nat, DOMAIN cs = 1 .. n, \A i \in 1 .. n : DraftOK(cs[i]), NEW hint
  PROVE  \A c \in ToSet(ApplyRegionHint(cs, hint)) : DraftOK(c)
<1> DEFINE conflicts(c) == \E l \in DOMAIN hint : /\ hint[l] # NoCode
                                                  /\ c.slots[l].match = "explicit"
                                                  /\ c.slots[l].code # hint[l]
           kept == {i \in DOMAIN cs : ~ conflicts(cs[i])}
           f == Filter(cs, kept)
           marked == [cs EXCEPT ![1].warnings = @ \cup {"HINT_CONFLICT"}]
           new == ApplyRegionHint(cs, hint)
<1>1. new = IF kept # {} THEN f ELSE marked  BY DEF ApplyRegionHint
<1>2. kept \in SUBSET (1 .. n)  OBVIOUS
<1>3. kept \in SUBSET Nat /\ IsFiniteSet(kept)
  <2>1. IsFiniteSet(1 .. n)  BY FS_Interval
  <2> HIDE DEF kept
  <2>2. IsFiniteSet(kept)  BY <1>2, <2>1, FS_Subset
  <2>3. 1 .. n \subseteq Nat  OBVIOUS
  <2> QED  BY <1>2, <2>2, <2>3
<1> HIDE DEF kept
<1>4. \A c \in ToSet(f) : DraftOK(c)
  <2> SUFFICES ASSUME NEW k \in DOMAIN f  PROVE DraftOK(f[k])
    BY DEF ToSet
  <2>1. PICK i \in kept : f[k] = cs[i]  BY <1>3, FilterKeeps
  <2> QED  BY <1>2, <2>1
<1>5. \A c \in ToSet(marked) : DraftOK(c)
  <2> SUFFICES ASSUME NEW k \in DOMAIN marked  PROVE DraftOK(marked[k])
    BY DEF ToSet
  <2>1. k \in 1 .. n  OBVIOUS
  <2>2. marked[k] = IF k = 1 THEN [cs[1] EXCEPT !.warnings = @ \cup {"HINT_CONFLICT"}] ELSE cs[k]
    BY <2>1
  <2> HIDE DEF marked
  <2> QED  BY <2>1, <2>2 DEF DraftOK, DraftFields
<1> HIDE DEF f, marked, new
<1> QED  BY <1>1, <1>4, <1>5 DEF new

\* parse: the candidates it offers are drafts.
LEMMA ParsedLevels ==
  ASSUME NEW t, IsTree(t), GroupsArePrefectures(t), NEW raw, NEW options, NEW answers,
         AnswersOK(t, answers)
  PROVE  \A c \in ToSet(Parse(raw, t, options, answers).candidates) : DraftOK(c)
<1> DEFINE scan == Scan(raw)
           cs == Candidates(raw, t, options, answers, scan)
<1>1. Parse(raw, t, options, answers).candidates = ApplyRegionHint(cs, options.hint)
  BY DEF Parse, ParseOf
<1>2. \E n \in Nat : DOMAIN cs = 1 .. n /\ \A i \in 1 .. n : DraftOK(cs[i])
  <2> HIDE DEF scan
  <2>1. CASE answers = << >>
    <3> DEFINE c == FallbackCandidate(raw, options, scan)
    <3>1. cs = <<c>> /\ DraftOK(c)  BY <2>1, FallbackLevels DEF Candidates
    <3> HIDE DEF c, cs
    <3>2. DOMAIN cs = 1 .. 1 /\ \A i \in 1 .. 1 : DraftOK(cs[i])  BY <3>1
    <3> QED  BY <3>2
  <2>2. CASE answers # << >>
    <3> DEFINE cand(i) == MapCandidate(raw, t, options, answers[i], Len(answers), scan)
    <3>1. cs = [i \in DOMAIN answers |-> cand(i)]  BY <2>2 DEF Candidates
    <3>2. \A i \in DOMAIN answers : DraftOK(cand(i))
      BY CandidateLevels DEF AnswersOK, MapCandidate, MapWith
    <3> HIDE DEF cand, cs
    <3>3. DOMAIN cs = DOMAIN answers /\ \A i \in DOMAIN cs : DraftOK(cs[i])  BY <3>1, <3>2
    <3>4. DOMAIN answers = 1 .. 1 \/ DOMAIN answers = 1 .. 2  BY <2>2 DEF AnswersOK
    <3> QED  BY <3>3, <3>4
  <2> QED  BY <2>1, <2>2
<1> HIDE DEF cs
<1> QED  BY <1>1, <1>2, HintKeeps

-----------------------------------------------------------------------------
(* The load of the regions from area-kit.                                   *)

\* The regions of the levels a provider reads.
Loadable(t) == {c \in DOMAIN t : t[c].level \in Levels}

LoadFields == {"version", "level", "provinces", "at", "cursor", "nodes", "counted"}

\* What a load has read, and how many of each level.
LoadOK(t, load) ==
    /\ DOMAIN load = LoadFields
    /\ load.level \in Levels \cup {5}
    /\ load.nodes \subseteq Loadable(t)
    /\ load.counted = [l \in Levels |-> Cardinality({c \in load.nodes : t[c].level = l})]

\* A load starts with nothing read and nothing counted.
LEMMA LoadStarts ==
  ASSUME NEW t, NEW version
  PROVE  LoadOK(t, StartLoad(version))
<1> DEFINE load == StartLoad(version)
<1>1. /\ DOMAIN load = LoadFields /\ load.level = 1 /\ load.nodes = {}
      /\ load.counted = [l \in Levels |-> 0]
  BY DEF StartLoad, NoLoad, LoadFields
<1>2. \A l \in Levels : Cardinality({c \in {} : t[c].level = l}) = 0
  <2> SUFFICES ASSUME NEW l \in Levels  PROVE Cardinality({c \in {} : t[c].level = l}) = 0
    OBVIOUS
  <2>1. {c \in {} : t[c].level = l} = {}  OBVIOUS
  <2> QED  BY <2>1, FS_EmptySet
<1> HIDE DEF load
<1> QED  BY <1>1, <1>2, AddressRegionsConstants DEF LoadOK, load

\* The order of the regions is all that an operator moves.
LEMMA OrderIsAllThatMoves ==
  ASSUME NEW t, HasRows(t), NEW order
  PROVE  LET u == [c \in DOMAIN t |-> [t[c] EXCEPT !.sort = order[c]]] IN
         /\ DOMAIN u = DOMAIN t
         /\ \A c \in DOMAIN t : u[c].level = t[c].level /\ u[c].parent = t[c].parent
  BY DEF HasRows

\* Different regions have different summaries.
LEMMA SummariesCount ==
  ASSUME NEW t, NEW S, IsFiniteSet(S)
  PROVE  Cardinality({Summary(t, c) : c \in S}) = Cardinality(S)
<1> DEFINE T == {Summary(t, c) : c \in S}
           f == [c \in S |-> Summary(t, c)]
<1>1. f \in [S -> T] /\ \A x \in T : \E c \in S : f[c] = x  OBVIOUS
<1>2. \A c, d \in S : f[c] = f[d] => c = d  BY DEF Summary
<1> HIDE DEF f, T
<1>3. f \in Bijection(S, T)
  BY <1>1, <1>2 DEF Bijection, Injection, Surjection, IsInjective
<1>4. ExistsBijection(S, T)  BY <1>3 DEF ExistsBijection
<1>5. Cardinality(T) = Cardinality(S)  BY <1>4, FS_Bijection
<1> QED  BY <1>5 DEF T

\* A page adds each new row to the nodes and to the count of its level, once.
LEMMA CollectKeeps ==
  ASSUME NEW t, HasRows(t), NEW u, DOMAIN u = DOMAIN t,
         \A c \in DOMAIN t : u[c].level = t[c].level,
         NEW load, LoadOK(t, load), NEW answer, NEW shown \in SUBSET Loadable(t),
         answer.items = {Summary(u, c) : c \in shown}
  PROVE  LoadOK(t, Collect(load, answer)) /\ Collect(load, answer).level = load.level
<1> DEFINE new == {item \in answer.items : item.code \notin load.nodes}
           K == {c \in shown : c \notin load.nodes}
           nodes == load.nodes \cup {item.code : item \in new}
           counted == [l \in Levels |->
                         load.counted[l] + Cardinality({i \in new : i.level = l})]
           provinces == IF load.level = 1
                        THEN load.provinces \o SetToSeq({i.code : i \in answer.items})
                        ELSE load.provinces
<1>1. Collect(load, answer) =
        [load EXCEPT !.nodes = nodes, !.counted = counted, !.cursor = answer.next,
                     !.provinces = provinces]
  BY DEF Collect, LoadOK, LoadFields
<1>2. \A c : Summary(u, c).code = c /\ Summary(u, c).level = u[c].level
  BY DEF Summary, LevelOf
<1>3. new = {Summary(u, c) : c \in K}  BY <1>2
<1>4. nodes = load.nodes \cup K
  <2> HIDE DEF new
  <2>1. {item.code : item \in new} = K  BY <1>2, <1>3
  <2> QED  BY <2>1
<1>5. K \subseteq Loadable(t) /\ K \cap load.nodes = {} /\ load.nodes \subseteq Loadable(t)
  BY DEF LoadOK
<1> HIDE DEF new, K, nodes, provinces
<1>6. \A l \in Levels : counted[l] = Cardinality({c \in nodes : t[c].level = l})
  <2> SUFFICES ASSUME NEW l \in Levels
               PROVE  counted[l] = Cardinality({c \in nodes : t[c].level = l})
    OBVIOUS
  <2> DEFINE A == {c \in load.nodes : t[c].level = l}
             B == {c \in K : t[c].level = l}
             C == {i \in new : i.level = l}
  <2>1. C = {Summary(u, c) : c \in B}
    <3>1. \A c \in K : u[c].level = t[c].level  BY <1>5 DEF Loadable
    <3> QED  BY <1>2, <1>3, <3>1
  <2>2. A \in SUBSET DOMAIN t /\ B \in SUBSET DOMAIN t  BY <1>5 DEF Loadable
  <2>3. A \cap B = {} /\ {c \in nodes : t[c].level = l} = A \cup B  BY <1>4, <1>5
  <2>4. counted[l] = load.counted[l] + Cardinality(C) /\ load.counted[l] = Cardinality(A)
    BY DEF LoadOK
  <2> HIDE DEF A, B, C
  <2>5. IsFiniteSet(A) /\ IsFiniteSet(B)  BY <2>2, FS_Subset DEF HasRows
  <2>6. Cardinality(C) = Cardinality(B)  BY <2>1, <2>5, SummariesCount
  <2>7. /\ Cardinality(A \cup B) = Cardinality(A) + Cardinality(B) - Cardinality(A \cap B)
        /\ Cardinality(A) \in Nat /\ Cardinality(B) \in Nat
    BY <2>5, FS_Union, FS_CardinalityType
  <2>8. Cardinality(A \cap B) = 0  BY <2>3, FS_EmptySet
  <2> HIDE DEF counted
  <2>9. counted[l] = Cardinality(A \cup B)  BY <2>4, <2>6, <2>7, <2>8
  <2> QED  BY <2>3, <2>9
<1>7. counted = [l \in Levels |-> Cardinality({c \in nodes : t[c].level = l})]
  <2>1. counted = [l \in Levels |-> counted[l]]  OBVIOUS
  <2> HIDE DEF counted
  <2> QED  BY <1>6, <2>1
<1> HIDE DEF counted
<1> QED  BY <1>1, <1>4, <1>5, <1>7 DEF LoadOK, LoadFields

\* After a level comes another one that is asked for, or the end.
LEMMA NextLevelIsOne ==
  ASSUME NEW t, NEW load, LoadOK(t, load), load.level # 5
  PROVE  NextLevel(load) \in Levels \cup {5}
<1> DEFINE k == load.level
           fits(l) == l > k /\ \A m \in Levels : m > k => l <= m
<1>1. k \in 1 .. 4 /\ Levels \subseteq 1 .. 4  BY AddressRegionsConstants DEF LoadOK
<1>2. NextLevel(load) = CHOOSE l \in Levels \cup {5} : fits(l)  BY DEF NextLevel
<1> HIDE DEF k
<1>3. \E l \in Levels \cup {5} : fits(l)
  <2>1. \A m \in Levels : m \in 1 .. 4  BY <1>1
  <2>2. CASE k + 1 \in Levels  BY <1>1, <2>1, <2>2
  <2>3. CASE k + 1 \notin Levels /\ k + 2 \in Levels
    <3>1. \A m \in Levels : m > k => m >= k + 2  BY <1>1, <2>1, <2>3
    <3> QED  BY <1>1, <2>3, <3>1
  <2>4. CASE k + 1 \notin Levels /\ k + 2 \notin Levels /\ k + 3 \in Levels
    <3>1. \A m \in Levels : m > k => m >= k + 3  BY <1>1, <2>1, <2>4
    <3> QED  BY <1>1, <2>4, <3>1
  <2>5. CASE k + 1 \notin Levels /\ k + 2 \notin Levels /\ k + 3 \notin Levels
    <3>1. \A m \in Levels : ~ (m > k)  BY <1>1, <2>1, <2>5
    <3>2. fits(5)  BY <1>1, <3>1
    <3> QED  BY <3>2
  <2> QED  BY <2>2, <2>3, <2>4, <2>5
<1> HIDE DEF fits
<1> QED  BY <1>2, <1>3

\* Going on to the next query reads nothing.
LEMMA AdvanceKeeps ==
  ASSUME NEW t, NEW load, LoadOK(t, load), load.level # 5
  PROVE  LoadOK(t, Advance(load))
<1>1. NextLevel(load) \in Levels \cup {5}  BY NextLevelIsOne
<1>2. \/ Advance(load) = load
      \/ Advance(load) = [load EXCEPT !.at = @ + 1]
      \/ Advance(load) = [load EXCEPT !.level = NextLevel(load), !.at = 1]
  BY DEF Advance
<1> QED  BY <1>1, <1>2 DEF LoadOK, LoadFields

\* A page brings regions of the level it was asked for.
LEMMA ReadPageKeeps ==
  ASSUME NEW t, HasRows(t), NEW u, DOMAIN u = DOMAIN t,
         \A c \in DOMAIN t : u[c].level = t[c].level,
         NEW load, LoadOK(t, load), load.level # 5
  PROVE  LoadOK(t, ReadPage(load, u))
<1> DEFINE q == LoadQuery(load)
           codes == Matching(u, q)
           answer == PageOf(u, load.version, q, codes, load.cursor)
<1>1. load.level \in Levels  BY DEF LoadOK
<1>2. q.level = load.level  BY DEF LoadQuery
<1> HIDE DEF q
<1>3. codes \subseteq Loadable(t)
  BY <1>1, <1>2 DEF Matching, Loadable, LevelOf
<1> HIDE DEF codes
<1>4. PICK shown \in SUBSET codes : answer.items = {Summary(u, c) : c \in shown}
  BY DEF PageOf
<1> HIDE DEF answer
<1>5. shown \in SUBSET Loadable(t)  BY <1>3
<1>6. LoadOK(t, Collect(load, answer)) /\ Collect(load, answer).level = load.level
  BY <1>4, <1>5, CollectKeeps
<1>7. LoadOK(t, Advance(Collect(load, answer)))  BY <1>6, AdvanceKeeps
<1> QED  BY <1>7 DEF ReadPage, answer, codes, q

\* A load whose counts agree is whole.
LEMMA CountsMakeWhole ==
  ASSUME NEW t, HasRows(t), NEW u, DOMAIN u = DOMAIN t,
         \A c \in DOMAIN t : u[c].level = t[c].level,
         NEW load, LoadOK(t, load), CountsAgree(load, u)
  PROVE  load.nodes = Loadable(t)
<1>1. ASSUME NEW c \in Loadable(t)  PROVE c \in load.nodes
  <2> DEFINE l == t[c].level
             A == {d \in load.nodes : t[d].level = l}
             B == {d \in DOMAIN u : LevelOf(u, d) = l}
  <2>1. l \in Levels /\ c \in B  BY DEF Loadable, LevelOf
  <2>2. A \in SUBSET B /\ B \in SUBSET DOMAIN t
    BY DEF LoadOK, Loadable, LevelOf
  <2>3. Cardinality(A) = Cardinality(B)
    <3>1. load.counted[l] = Cardinality(A)  BY <2>1 DEF LoadOK
    <3>2. load.counted[l] = Cardinality(B)  BY <2>1 DEF CountsAgree
    <3> QED  BY <3>1, <3>2
  <2>4. c \in A
    <3> HIDE DEF A, B, l
    <3>1. IsFiniteSet(B)  BY <2>2, FS_Subset DEF HasRows
    <3> QED  BY <2>1, <2>2, <2>3, <3>1, FS_Subset
  <2> QED  BY <2>4
<1> QED  BY <1>1 DEF LoadOK

-----------------------------------------------------------------------------
(* What a confirmation saves.                                               *)

\* What SavedPathIsReal says of one address.
RecordIsReal(r) ==
    LET table == Snapshots[r.version]
        given == {l \in 1..4 : r.codes[l] # NoCode}
    IN /\ \A l \in given : /\ r.codes[l] \in DOMAIN table
                          /\ LevelOf(table, r.codes[l]) = l /\ table[r.codes[l]].name = r.names[l]
       /\ \A k, l \in given : k < l => r.codes[k] \in Ancestors(table, r.codes[l])
       /\ r.group # NoCode => /\ r.codes[2] = NoCode
                              /\ \A l \in given : l > 2 => r.group \in Ancestors(table, r.codes[l])

\* filter(Boolean) keeps every code that is given.
LEMMA FilledKeeps ==
  ASSUME NEW codes, NEW n \in Nat, DOMAIN codes = 1 .. n
  PROVE  /\ \E m \in Nat : DOMAIN Filled(codes) = 1 .. m
         /\ \A c \in ToSet(codes) : c # NoCode => c \in ToSet(Filled(codes))
<1> DEFINE at == {i \in DOMAIN codes : codes[i] # NoCode}
           f == Filter(codes, at)
<1>1. Filled(codes) = f  BY DEF Filled
<1>2. at \in SUBSET (1 .. n) /\ at \in SUBSET Nat  OBVIOUS
<1>3. \A i \in DOMAIN codes : codes[i] # NoCode => i \in at  OBVIOUS
<1> HIDE DEF at
<1>4. IsFiniteSet(at)
  <2>1. IsFiniteSet(1 .. n)  BY FS_Interval
  <2> QED  BY <1>2, <2>1, FS_Subset
<1>5. /\ DOMAIN f = 1 .. Cardinality(at)
      /\ \A i \in at : \E k \in 1 .. Cardinality(at) : f[k] = codes[i]
  BY <1>2, <1>4, FilterKeeps
<1>6. Cardinality(at) \in Nat  BY <1>4, FS_CardinalityType
<1> HIDE DEF f
<1>7. \A c \in ToSet(codes) : c # NoCode => c \in ToSet(f)
  BY <1>3, <1>5 DEF ToSet
<1> QED  BY <1>1, <1>5, <1>6, <1>7

\* Two regions of one path: the higher one is above the other.
LEMMA OnOnePath ==
  ASSUME NEW t, IsTree(t), NEW e \in DOMAIN t,
         NEW x \in ToSet(PathTo(t, e)), NEW y \in ToSet(PathTo(t, e)),
         t[x].level < t[y].level
  PROVE  x \in Ancestors(t, y)
<1> DEFINE p == PathTo(t, e)
           n == t[e].level
           q == PathTo(t, y)
<1>1. /\ n \in 1 .. 5 /\ DOMAIN p = 1 .. n
      /\ \A i \in 1 .. n : p[i] \in DOMAIN t /\ t[p[i]].level = i
  BY PathFacts
<1>2. PICK i \in 1 .. n, j \in 1 .. n : x = p[i] /\ y = p[j]
  <2> HIDE DEF p, n
  <2>1. x \in ToSet(p) /\ y \in ToSet(p)  BY DEF p
  <2> QED  BY <1>1, <2>1 DEF ToSet
<1>3. t[x].level = i /\ t[y].level = j /\ i < j /\ y \in DOMAIN t /\ i \in Int /\ j \in Int
  <2> HIDE DEF p, n
  <2> QED  BY <1>1, <1>2
<1>4. i \in 1 .. j  BY <1>3
<1>5. PathTo(t, p[j])[i] = p[i]  BY <1>2, <1>4, PathPrefix
<1>6. q[i] = x  BY <1>2, <1>5
<1>7. DOMAIN q = 1 .. j  BY <1>3, PathFacts
<1> HIDE DEF q, p, n
<1>8. x \in ToSet(q)  BY <1>4, <1>6, <1>7 DEF ToSet
<1> QED  BY <1>3, <1>8 DEF Ancestors, q

\* confirmAddress: what passes its checks is one path of the version the server serves,
\* under that version's names.
LEMMA ConfirmedIsReal ==
  ASSUME host.version \in DOMAIN Snapshots,
         Closed(Snapshots[host.version], host.nodes),
         NEW body, LevelsOK(body.slots, body.group),
         \A l \in 1 .. 4 : Selection(body.slots[l]) = body.slots[l],
         Selection(body.group) = body.group,
         Confirmable(body)
  PROVE  RecordIsReal(Record(body))
<1> DEFINE t == Snapshots[host.version]
           u == Restricted(t, host.nodes)
           codes == Codes(body.slots, body.group)
           filled == Filled(Ordered(body))
           slot(l) == body.slots[l]
           given == {l \in 1 .. 4 : slot(l).code # NoCode}
<1>1. IsTree(t) /\ NoCode \notin DOMAIN t  BY AddressRegionsConstants DEF HasRows
<1>2. Index = u /\ DOMAIN u = host.nodes /\ \A c \in host.nodes : c \in DOMAIN t /\ u[c] = t[c]
  BY DEF Index, Restricted, Closed
<1>3. IsTree(u)  BY <1>1, RestrictedTree
<1> HIDE DEF u
<1>4. /\ body.version = host.version /\ Matches(body.group)
      /\ \A l \in 1 .. 4 : Matches(slot(l))
      /\ ValidatePath(Ordered(body))
  BY DEF Confirmable, SameMeta
<1>5. NoNode.code = NoCode  BY DEF NoNode
<1>6. ASSUME NEW node, Matches(node), node # NoNode
      PROVE  node.code \in DOMAIN t /\ t[node.code].level = node.level
             /\ t[node.code].name = node.name
  <2>1. node.code \in host.nodes /\ Node(u, node.code)
          = [code |-> node.code, name |-> node.name, level |-> node.level]
    BY <1>2, <1>6 DEF Matches
  <2>2. Node(u, node.code).name = node.name /\ Node(u, node.code).level = node.level
    BY <2>1
  <2>3. u[node.code].name = node.name /\ u[node.code].level = node.level
    BY <2>2 DEF Node, LevelOf
  <2> QED  BY <1>2, <2>1, <2>3
<1>7. \A l \in given : /\ slot(l).code \in DOMAIN t /\ t[slot(l).code].level = l
                       /\ t[slot(l).code].name = slot(l).name
  <2> SUFFICES ASSUME NEW l \in given
               PROVE  /\ slot(l).code \in DOMAIN t /\ t[slot(l).code].level = l
                      /\ t[slot(l).code].name = slot(l).name
    OBVIOUS
  <2>1. slot(l) # NoNode  BY <1>5
  <2>2. slot(l).level = l  BY <2>1 DEF LevelsOK
  <2> QED  BY <1>4, <1>6, <2>1, <2>2
<1>8. body.group.code # NoCode => /\ body.group # NoNode /\ body.group.level = 2
                                  /\ slot(2) = NoNode
                                  /\ body.group.code \in DOMAIN t /\ t[body.group.code].level = 2
  BY <1>4, <1>5, <1>6 DEF LevelsOK
<1>9. PICK e \in DOMAIN t : ToSet(filled) \subseteq ToSet(PathTo(t, e))
  <2>1. OnPathOfLast(t, Ordered(body)) \/ OnPathOfLast(u, Ordered(body))
    BY <1>2, <1>4 DEF ValidatePath, DownThePathOfLast
  <2>2. CASE OnPathOfLast(t, Ordered(body))  BY <2>2 DEF OnPathOfLast
  <2>3. CASE OnPathOfLast(u, Ordered(body))
    <3>1. Last(filled) \in host.nodes /\ ToSet(filled) \subseteq ToSet(PathTo(u, Last(filled)))
      BY <1>2, <2>3 DEF OnPathOfLast
    <3>2. PathTo(u, Last(filled)) = PathTo(t, Last(filled))
      BY <1>1, <3>1, RestrictedPath DEF u
    <3> HIDE DEF filled
    <3> QED  BY <1>2, <3>1, <3>2
  <2> QED  BY <2>1, <2>2, <2>3
<1>10. \A c \in ToSet(codes) : c # NoCode => c \in ToSet(filled)
  <2>1. DOMAIN codes = 1 .. 4  BY DEF Codes
  <2>2. Ordered(body) = Filled(codes)  BY DEF Ordered
  <2> DEFINE once == Filled(codes)
  <2> HIDE DEF codes
  <2>3. /\ \E m \in Nat : DOMAIN once = 1 .. m
        /\ \A c \in ToSet(codes) : c # NoCode => c \in ToSet(once)
    BY <2>1, FilledKeeps
  <2> HIDE DEF once
  <2>4. \A c \in ToSet(once) : c # NoCode => c \in ToSet(Filled(once))
    BY <2>3, FilledKeeps
  <2> QED  BY <2>2, <2>3, <2>4 DEF once
<1>11. \A l \in given : slot(l).code \in ToSet(codes)
  <2> SUFFICES ASSUME NEW l \in given  PROVE \E k \in DOMAIN codes : codes[k] = slot(l).code
    BY DEF ToSet
  <2>1. slot(l) # NoNode  BY <1>5
  <2>2. l = 2 => body.group = NoNode  BY <2>1 DEF LevelsOK
  <2>3. codes[l] = slot(l).code /\ l \in DOMAIN codes
    <3>1. codes = <<slot(1).code, IF body.group # NoNode THEN body.group.code ELSE slot(2).code,
                    slot(3).code, slot(4).code>>
      BY DEF Codes
    <3>2. l = 1 \/ l = 2 \/ l = 3 \/ l = 4  OBVIOUS
    <3> HIDE DEF codes, slot
    <3> QED  BY <2>2, <3>1, <3>2
  <2> QED  BY <2>3
<1>12. body.group.code # NoCode => body.group.code \in ToSet(codes)
  <2> SUFFICES ASSUME body.group.code # NoCode
               PROVE  \E k \in DOMAIN codes : codes[k] = body.group.code
    BY DEF ToSet
  <2>1. codes[2] = body.group.code /\ 2 \in DOMAIN codes  BY <1>8 DEF Codes
  <2> QED  BY <2>1
<1>13. Record(body).version = host.version /\ Record(body).group = body.group.code
       /\ \A l \in 1 .. 4 : /\ Record(body).codes[l] = slot(l).code
                            /\ Record(body).names[l] = slot(l).name
  BY <1>4 DEF Record
<1> DEFINE r == Record(body)
<1> HIDE DEF codes, filled, slot, t, r
<1>14. \A k, l \in given : k < l => slot(k).code \in Ancestors(t, slot(l).code)
  BY <1>1, <1>7, <1>9, <1>10, <1>11, OnOnePath
<1>15. body.group.code # NoCode =>
         \A l \in given : l > 2 => body.group.code \in Ancestors(t, slot(l).code)
  BY <1>1, <1>7, <1>8, <1>9, <1>10, <1>11, <1>12, OnOnePath
<1>16. body.group.code # NoCode => slot(2).code = NoCode  BY <1>5, <1>8
<1>17. given = {l \in 1 .. 4 : r.codes[l] # NoCode} /\ Snapshots[r.version] = t
       /\ r.group = body.group.code
       /\ \A l \in 1 .. 4 : r.codes[l] = slot(l).code /\ r.names[l] = slot(l).name
  BY <1>13 DEF r, t
<1> HIDE DEF given
<1>18. RecordIsReal(r)
  BY <1>7, <1>14, <1>15, <1>16, <1>17 DEF RecordIsReal, LevelOf
<1> QED  BY <1>18 DEF r

-----------------------------------------------------------------------------
(* The form as a whole.                                                     *)

\* A server that loads has read rows of its version and counted them; one that is
\* ready has them with all their parents.
HostOK ==
    /\ DOMAIN host = {"phase", "version", "load", "nodes"}
    /\ host.version \in DOMAIN Snapshots
    /\ host.phase = "loading" => LoadOK(Snapshots[host.version], host.load)
    /\ host.phase = "ready" =>
         /\ Closed(Snapshots[host.version], host.nodes)
         /\ mix.provider = "area" => host.nodes = Loadable(Snapshots[host.version])

\* The inductive invariant: the server parses with a part of its version that has all
\* parents, the levels of every draft and of every confirmation under way are those of
\* their slots, and what is saved is real.
FormTypes ==
    /\ mix \in Mixes /\ HostOK /\ PageOK(page)
    /\ \A call \in calls : FormCallOK(call)
    /\ \A r \in saved : RecordIsReal(r)

\* An index that is whole upwards is a tree, its groups prefectures.
LEMMA IndexFacts ==
  ASSUME host.version \in DOMAIN Snapshots, Closed(Snapshots[host.version], host.nodes)
  PROVE  IsTree(Index) /\ GroupsArePrefectures(Index)
<1> DEFINE t == Snapshots[host.version]
<1>1. IsTree(t) /\ GroupsArePrefectures(t)  BY AddressRegionsConstants
<1>2. Index = Restricted(t, host.nodes)  BY DEF Index, Restricted
<1>3. IsTree(Restricted(t, host.nodes))  BY <1>1, RestrictedTree
<1>4. \A c \in host.nodes : c \in DOMAIN t /\ Restricted(t, host.nodes)[c] = t[c]
  BY DEF Restricted, Closed
<1>5. DOMAIN Restricted(t, host.nodes) = host.nodes  BY DEF Restricted
<1> QED  BY <1>1, <1>2, <1>3, <1>4, <1>5 DEF GroupsArePrefectures, LevelOf

\* So are the groups a form offers.
LEMMA OfferedGroups ==
  ASSUME NEW t, GroupsArePrefectures(t), NEW parent
  PROVE  GroupsAtTwo(Offered(t, parent))
  BY DEF GroupsAtTwo, Offered, GroupsArePrefectures, ChildrenOf, LevelOf

\* An error leaves the draft and the lists.
LEMMA FailedPage ==
  ASSUME PageOK(page), NEW failed
  PROVE  PageOK(Failed(failed))
<1> DEFINE kinds == {call.kind : call \in failed}
           busy == page.busy /\ kinds \cap {"parse", "confirm"} = {}
           result == IF "parse" \in kinds THEN NoResult ELSE page.result
<1>1. Failed(failed) = [page EXCEPT !.busy = busy, !.result = result]  BY DEF Failed
<1>2. result = NoResult \/ result = page.result  OBVIOUS
<1> HIDE DEF busy, result
<1> QED  BY <1>1, <1>2 DEF PageOK

\* A server that has just got an index has a part of its version with all parents.
LEMMA ReadyKeeps ==
  ASSUME FormTypes, UNCHANGED <<mix, saved>>, NEW nodes, IndexReady(nodes),
         Closed(Snapshots[host.version], nodes),
         mix.provider = "area" => nodes = Loadable(Snapshots[host.version])
  PROVE  FormTypes'
<1>1. /\ host' = [host EXCEPT !.phase = "ready", !.nodes = nodes, !.load = NoLoad]
      /\ page' = page /\ calls' = calls
  BY DEF IndexReady
<1>2. DOMAIN host = {"phase", "version", "load", "nodes"}  BY DEF FormTypes, HostOK
<1>3. /\ host'.phase = "ready" /\ host'.nodes = nodes /\ host'.version = host.version
      /\ DOMAIN host' = DOMAIN host
  BY <1>1, <1>2
<1>4. HostOK'  BY <1>2, <1>3 DEF FormTypes, HostOK
<1> QED  BY <1>1, <1>4 DEF FormTypes

\* A start that failed leaves no index.
LEMMA FailStartKeeps ==
  ASSUME FormTypes, UNCHANGED <<mix, saved>>, FailStart
  PROVE  FormTypes'
<1>1. PICK waiting \in SUBSET calls :
        /\ host' = [NoHost EXCEPT !.version = host.version]
        /\ page' = Failed(waiting) /\ calls' = calls \ waiting
  BY DEF FailStart
<1>2. /\ host'.phase = "none" /\ host'.version = host.version
      /\ DOMAIN host' = {"phase", "version", "load", "nodes"}
  BY <1>1 DEF NoHost
<1>3. HostOK'  BY <1>2 DEF FormTypes, HostOK
<1>4. PageOK(page')  BY <1>1, FailedPage DEF FormTypes
<1> QED  BY <1>1, <1>3, <1>4 DEF FormTypes

\* The first call after a start builds the index, or begins to load it.
LEMMA StartStep ==
  ASSUME FormTypes, StartHost
  PROVE  FormTypes'
<1> DEFINE t == Snapshots[host.version]
<1>1. CASE mix.provider = "area"
  <2>1. /\ host' = [host EXCEPT !.phase = "loading", !.load = StartLoad(host.version)]
        /\ UNCHANGED <<page, calls, mix, saved>>
    BY <1>1 DEF StartHost
  <2>2. DOMAIN host = {"phase", "version", "load", "nodes"}  BY DEF FormTypes, HostOK
  <2>3. /\ host'.phase = "loading" /\ host'.load = StartLoad(host.version)
        /\ host'.version = host.version /\ DOMAIN host' = DOMAIN host
    BY <2>1, <2>2
  <2>4. LoadOK(t, StartLoad(host.version))  BY LoadStarts
  <2>5. HostOK'  BY <2>2, <2>3, <2>4 DEF FormTypes, HostOK
  <2> QED  BY <2>1, <2>5 DEF FormTypes
<1>2. CASE mix.provider # "area"
  <2>1. UNCHANGED <<mix, saved>>  BY DEF StartHost
  <2>2. PICK file \in mix.files[host.version] :
          IF Parsable(file) /\ Indexable(t, ToSet(file.codes))
          THEN IndexReady(ToSet(file.codes)) ELSE FailStart
    BY <1>2 DEF StartHost
  <2>3. CASE Parsable(file) /\ Indexable(t, ToSet(file.codes))
    <3>1. file.codes \in Seq(DOMAIN t)  BY AddressFormConstants DEF FormTypes, HostOK
    <3>2. ToSet(file.codes) \subseteq DOMAIN t  BY <3>1 DEF ToSet
    <3>3. Closed(t, ToSet(file.codes))  BY <2>3, <3>2 DEF Indexable, Closed
    <3> QED  BY <1>2, <2>1, <2>2, <2>3, <3>3, ReadyKeeps
  <2>4. CASE ~ (Parsable(file) /\ Indexable(t, ToSet(file.codes)))
    BY <2>1, <2>2, <2>4, FailStartKeeps
  <2> QED  BY <2>3, <2>4
<1> QED  BY <1>1, <1>2

\* area-kit's table has the codes, levels and parents of the version.
LEMMA AreaTableFacts ==
  ASSUME host.version \in DOMAIN Snapshots
  PROVE  LET t == Snapshots[host.version] IN
         /\ HasRows(t) /\ DOMAIN AreaTable = DOMAIN t
         /\ \A c \in DOMAIN t : AreaTable[c].level = t[c].level
                                /\ AreaTable[c].parent = t[c].parent
<1> DEFINE t == Snapshots[host.version]
           u == [c \in DOMAIN t |-> [t[c] EXCEPT !.sort = sorts[c]]]
<1>1. HasRows(t)  BY AddressRegionsConstants
<1>2. AreaTable = u  BY DEF AreaTable
<1>3. /\ DOMAIN u = DOMAIN t
      /\ \A c \in DOMAIN t : u[c].level = t[c].level /\ u[c].parent = t[c].parent
  BY <1>1, OrderIsAllThatMoves
<1> QED  BY <1>1, <1>2, <1>3

\* One page of the load.
LEMMA LoadStep ==
  ASSUME FormTypes, LoadPage
  PROVE  FormTypes'
<1> DEFINE t == Snapshots[host.version]
           new == ReadPage(host.load, AreaTable)
<1>1. host' = [host EXCEPT !.load = new] /\ UNCHANGED <<mix, page, calls, saved>>
      /\ host.phase = "loading" /\ ~ AllRead(host.load)
  BY DEF LoadPage
<1>2. /\ DOMAIN host = {"phase", "version", "load", "nodes"} /\ LoadOK(t, host.load)
      /\ host.version \in DOMAIN Snapshots
  BY <1>1 DEF FormTypes, HostOK
<1>3. host.load.level # 5  BY <1>1 DEF AllRead
<1>4. LoadOK(t, new)
  <2>1. /\ HasRows(t) /\ DOMAIN AreaTable = DOMAIN t
        /\ \A c \in DOMAIN t : AreaTable[c].level = t[c].level
    BY <1>2, AreaTableFacts
  <2> QED  BY <1>2, <1>3, <2>1, ReadPageKeeps
<1> HIDE DEF new
<1>5. /\ host'.phase = "loading" /\ host'.load = new
      /\ host'.version = host.version /\ DOMAIN host' = DOMAIN host
  BY <1>1, <1>2
<1>6. HostOK'  BY <1>2, <1>4, <1>5 DEF FormTypes, HostOK
<1> QED  BY <1>1, <1>6 DEF FormTypes

\* The end of the load: the index is whole or there is none.
LEMMA FinishStep ==
  ASSUME FormTypes, FinishLoad
  PROVE  FormTypes'
<1> DEFINE t == Snapshots[host.version]
<1>1. UNCHANGED <<mix, saved>> /\ host.phase = "loading"  BY DEF FinishLoad
<1>2. LoadOK(t, host.load) /\ host.version \in DOMAIN Snapshots
  BY <1>1 DEF FormTypes, HostOK
<1>3. /\ HasRows(t) /\ DOMAIN AreaTable = DOMAIN t
      /\ \A c \in DOMAIN t : AreaTable[c].level = t[c].level
                             /\ AreaTable[c].parent = t[c].parent
  BY <1>2, AreaTableFacts
<1>4. CASE CountsAgree(host.load, AreaTable) /\ Indexable(AreaTable, host.load.nodes)
  <2>1. IndexReady(host.load.nodes)  BY <1>4 DEF FinishLoad
  <2>2. host.load.nodes = Loadable(t)  BY <1>2, <1>3, <1>4, CountsMakeWhole
  <2>3. Closed(t, host.load.nodes)
    <3>1. host.load.nodes \subseteq DOMAIN t  BY <2>2 DEF Loadable
    <3> QED  BY <1>3, <1>4, <3>1 DEF Closed, Indexable
  <2> QED  BY <1>1, <2>1, <2>2, <2>3, ReadyKeeps
<1>5. CASE ~ (CountsAgree(host.load, AreaTable) /\ Indexable(AreaTable, host.load.nodes))
  <2>1. FailStart  BY <1>5 DEF FinishLoad
  <2> QED  BY <1>1, <2>1, FailStartKeeps
<1> QED  BY <1>4, <1>5

\* An operator moves a region, or deploys another version.
LEMMA OperatorSteps ==
  ASSUME FormTypes, EditSort \/ Deploy
  PROVE  FormTypes'
<1>1. CASE EditSort
  BY <1>1 DEF EditSort, FormTypes, HostOK
<1>2. CASE Deploy
  <2>1. PICK v \in DOMAIN Snapshots : host' = [NoHost EXCEPT !.version = v]
    BY <1>2 DEF Deploy
  <2>2. /\ host'.phase = "none" /\ host'.version = v
        /\ DOMAIN host' = {"phase", "version", "load", "nodes"}
    BY <2>1 DEF NoHost
  <2>3. HostOK'  BY <2>2 DEF HostOK
  <2> QED  BY <1>2, <2>3 DEF Deploy, FormTypes
<1> QED  BY <1>1, <1>2

\* A move of the user to a page that is well formed, with well-formed calls.
LEMMA MoveKeeps ==
  ASSUME FormTypes, NEW kind, NEW newPage, NEW newCalls, Move(kind, newPage, newCalls),
         PageOK(newPage), \A call \in newCalls : FormCallOK(call)
  PROVE  FormTypes'
<1>1. UNCHANGED <<mix, host, saved>> /\ page' = newPage /\ calls' = calls \cup newCalls
  BY DEF Move
<1>2. HostOK'  BY <1>1 DEF FormTypes, HostOK
<1> QED  BY <1>1, <1>2 DEF FormTypes

\* Of the calls besides confirm and lists nothing is asked.
LEMMA OtherCall ==
  ASSUME NEW kind, kind # "confirm", kind # "lists", NEW body
  PROVE  FormCallOK(Call(kind, body))
  BY DEF FormCallOK, Call

\* syncLists sends the provinces the page has.
LEMMA ListsCall ==
  ASSUME PageOK(page), NEW draft
  PROVE  FormCallOK(SyncLists(draft))
<1>1. /\ SyncLists(draft).kind = "lists" /\ SyncLists(draft).body.provinces = page.lists[1]
      /\ "lists" # "confirm"
  BY DEF SyncLists, Call
<1>2. GroupsAtTwo(page.lists[1])  BY DEF PageOK
<1> QED  BY <1>1, <1>2 DEF FormCallOK

\* A draft and the flags of the page may change; what it offers stays.
LEMMA DraftedPage ==
  ASSUME PageOK(page), NEW new, DOMAIN new = DOMAIN page, new.result = page.result,
         new.lists = page.lists, new.draft = page.draft \/ DraftOK(new.draft)
  PROVE  PageOK(new)
  BY DEF PageOK

\* An edit that leaves a draft.
LEMMA EditKeeps ==
  ASSUME FormTypes, NEW draft, DraftOK(draft), Edit(draft)
  PROVE  FormTypes'
<1> DEFINE new == [page EXCEPT !.draft = draft, !.check = "none", !.saved = FALSE]
<1>1. PageOK(page)  BY DEF FormTypes
<1>2. /\ DOMAIN new = DOMAIN page /\ new.result = page.result /\ new.lists = page.lists
      /\ new.draft = draft
  BY <1>1 DEF PageOK
<1>3. Move("edit", new, {SyncLists(draft)})  BY DEF Edit
<1> HIDE DEF new
<1>4. PageOK(new)  BY <1>1, <1>2, DraftedPage
<1>5. FormCallOK(SyncLists(draft))  BY <1>1, ListsCall
<1> QED  BY <1>3, <1>4, <1>5, MoveKeeps

\* adopt takes over a candidate.
LEMMA AdoptStep ==
  ASSUME FormTypes, Adopt
  PROVE  FormTypes'
<1> DEFINE draft(c) == IF c.recipient.phone # ExistingPhone /\ ~ page.overwrite
                       THEN ApplyPhone(ToWithStreet(c), ExistingPhone) ELSE ToWithStreet(c)
           new(d) == [page EXCEPT !.draft = d, !.check = "none", !.saved = FALSE,
                                  !.reviewed = FALSE]
<1>1. PICK c \in Offers : Move("adopt", new(draft(c)), {SyncLists(draft(c))})
  BY DEF Adopt
<1>2. PageOK(page)  BY DEF FormTypes
<1>3. DraftOK(c)  BY <1>2 DEF Offers, PageOK
<1>4. DraftOK(draft(c))  BY <1>3, WithStreetAlready, PhoneKeeps
<1> HIDE DEF draft
<1>5. \A d : DOMAIN new(d) = DOMAIN page /\ new(d).result = page.result
             /\ new(d).lists = page.lists /\ new(d).draft = d
  BY <1>2 DEF PageOK
<1> HIDE DEF new
<1>6. PageOK(new(draft(c)))  BY <1>2, <1>4, <1>5, DraftedPage
<1>7. FormCallOK(SyncLists(draft(c)))  BY <1>2, ListsCall
<1> QED  BY <1>1, <1>6, <1>7, MoveKeeps

\* The edits of a draft.
LEMMA EditStep ==
  ASSUME FormTypes, EditRegion \/ EditDetail
  PROVE  FormTypes'
<1>1. page.draft # NoCandidate => DraftOK(page.draft)  BY DEF FormTypes, PageOK
<1>2. CASE EditDetail
  BY <1>1, <1>2, DetailKeeps, EditKeeps DEF EditDetail
<1>3. CASE EditRegion
  <2>1. PICK level \in 1 .. 4 : \E option \in page.lists[level] \cup {NoOption} :
               /\ page.draft # NoCandidate
               /\ Applicable(level, option) /\ Edit(ApplyRegion(page.draft, level, option))
    BY <1>3 DEF EditRegion
  <2>2. PICK option \in page.lists[level] \cup {NoOption} :
               /\ page.draft # NoCandidate
               /\ Applicable(level, option) /\ Edit(ApplyRegion(page.draft, level, option))
    BY <2>1
  <2>3. option = NoOption \/ (option.kind = "group" => option.level = 2)
    BY DEF FormTypes, PageOK, GroupsAtTwo
  <2>4. DraftOK(ApplyRegion(page.draft, level, option))  BY <1>1, <2>2, <2>3, RegionKeeps
  <2> QED  BY <2>2, <2>4, EditKeeps
<1> QED  BY <1>2, <1>3

\* What the user does besides editing the draft.
LEMMA AskingSteps ==
  ASSUME FormTypes, RunParse \/ Tick \/ CheckPath
  PROVE  FormTypes'
<1>1. PageOK(page)  BY DEF FormTypes
<1>2. CASE RunParse
  <2> DEFINE new == [page EXCEPT !.busy = TRUE]
  <2>1. PICK body : Move("parse", new, {Call("parse", body)})  BY <1>2 DEF RunParse
  <2>2. DOMAIN new = DOMAIN page /\ new.result = page.result /\ new.lists = page.lists
        /\ new.draft = page.draft
    BY <1>1 DEF PageOK
  <2> HIDE DEF new
  <2>3. PageOK(new)  BY <1>1, <2>2, DraftedPage
  <2>4. FormCallOK(Call("parse", body))  BY OtherCall
  <2> QED  BY <2>1, <2>3, <2>4, MoveKeeps
<1>3. CASE Tick
  <2>1. PICK new \in {[page EXCEPT !.reviewed = TRUE], [page EXCEPT !.overwrite = TRUE]} :
               Move("tick", new, {})
    BY <1>3 DEF Tick
  <2>2. DOMAIN new = DOMAIN page /\ new.result = page.result /\ new.lists = page.lists
        /\ new.draft = page.draft
    BY <1>1 DEF PageOK
  <2>3. PageOK(new)  BY <1>1, <2>2, DraftedPage
  <2> QED  BY <2>1, <2>3, MoveKeeps
<1>4. CASE CheckPath
  <2>1. PICK body : Move("check", page, {Call("check", body)})  BY <1>4 DEF CheckPath
  <2>2. FormCallOK(Call("check", body))  BY OtherCall
  <2> QED  BY <1>1, <2>1, <2>2, MoveKeeps
<1> QED  BY <1>2, <1>3, <1>4

\* confirm sends the levels of the draft, each through selection.
LEMMA ConfirmStep ==
  ASSUME FormTypes, Confirm
  PROVE  FormTypes'
<1> DEFINE new == [page EXCEPT !.busy = TRUE]
           slots == [l \in 1 .. 4 |-> Selection(page.draft.slots[l])]
           group == Selection(page.draft.group)
           body == [slots |-> slots, group |-> group, detail |-> page.draft.detail,
                    phone |-> page.draft.recipient.phone, status |-> page.draft.status,
                    version |-> page.result.version]
<1>1. PageOK(page) /\ DraftOK(page.draft)  BY DEF FormTypes, PageOK, Confirm
<1>2. Move("confirm", new, {Call("confirm", body)})  BY DEF Confirm
<1>3. DOMAIN new = DOMAIN page /\ new.result = page.result /\ new.lists = page.lists
      /\ new.draft = page.draft
  BY <1>1 DEF PageOK
<1>4. body.slots = slots /\ body.group = group  OBVIOUS
<1>5. /\ slots = [l \in 1 .. 4 |-> slots[l]]
      /\ \A l \in 1 .. 4 : slots[l] = Selection(page.draft.slots[l])
  OBVIOUS
<1> HIDE DEF new, slots, group, body
<1>6. PageOK(new)  BY <1>1, <1>3, DraftedPage
<1>7. \A node : Selection(node) = NoNode \/ Selection(node) = node  BY DEF Selection
<1>8. LevelsOK(slots, group)
  <2>1. Selection(NoNode) = NoNode  BY DEF Selection
  <2> QED  BY <1>1, <1>5, <1>7, <2>1 DEF DraftOK, LevelsOK, group
<1>9. /\ \A l \in 1 .. 4 : Selection(slots[l]) = slots[l]
      /\ Selection(group) = group
  BY <1>5, SelectionTwice DEF group
<1>10. Call("confirm", body).kind = "confirm" /\ Call("confirm", body).body = body
  BY DEF Call
<1>11. FormCallOK(Call("confirm", body))  BY <1>4, <1>8, <1>9, <1>10 DEF FormCallOK
<1> QED  BY <1>2, <1>6, <1>11, MoveKeeps

-----------------------------------------------------------------------------
(* The answers.                                                             *)

\* An answer with a page that is well formed and addresses that are real.
LEMMA AnswerKeeps ==
  ASSUME FormTypes, NEW call, NEW newPage, NEW newSaved, Answer(call, newPage, newSaved),
         PageOK(newPage), \A r \in newSaved : RecordIsReal(r)
  PROVE  FormTypes'
<1>1. UNCHANGED <<mix, host>> /\ page' = newPage /\ calls' = calls \ {call}
      /\ saved' = newSaved
  BY DEF Answer
<1>2. HostOK'  BY <1>1 DEF FormTypes, HostOK
<1> QED  BY <1>1, <1>2 DEF FormTypes

\* A server that answers has an index of its version.
LEMMA AnswersFromIndex ==
  ASSUME FormTypes, host.phase = "ready"
  PROVE  /\ host.version \in DOMAIN Snapshots
         /\ Closed(Snapshots[host.version], host.nodes)
         /\ IsTree(Index) /\ GroupsArePrefectures(Index)
<1>1. /\ host.version \in DOMAIN Snapshots
      /\ Closed(Snapshots[host.version], host.nodes)
  BY DEF FormTypes, HostOK
<1> QED  BY <1>1, IndexFacts

\* A page with other lists.
LEMMA ListedPage ==
  ASSUME PageOK(page), NEW lists, lists = [l \in 1 .. 4 |-> lists[l]],
         \A l \in 1 .. 4 : GroupsAtTwo(lists[l])
  PROVE  PageOK([page EXCEPT !.lists = lists])
  BY DEF PageOK

\* The lists a form offers.
LEMMA AnswerListsStep ==
  ASSUME FormTypes, AnswerProvinces \/ AnswerLists
  PROVE  FormTypes'
<1>1. PageOK(page) /\ \A r \in saved : RecordIsReal(r)  BY DEF FormTypes
<1>2. CASE AnswerProvinces
  <2> DEFINE lists == [page.lists EXCEPT ![1] = Offered(Index, Root)]
             new == [page EXCEPT !.lists = lists]
  <2>1. PICK call \in calls : Answer(call, new, saved)  BY <1>2 DEF AnswerProvinces
  <2>2. GroupsArePrefectures(Index)  BY <2>1, AnswersFromIndex DEF Answer
  <2>3. GroupsAtTwo(Offered(Index, Root))  BY <2>2, OfferedGroups
  <2>4. /\ lists = [l \in 1 .. 4 |-> lists[l]]
        /\ \A l \in 1 .. 4 : lists[l] = IF l = 1 THEN Offered(Index, Root) ELSE page.lists[l]
    BY <1>1 DEF PageOK
  <2> HIDE DEF lists
  <2>5. \A l \in 1 .. 4 : GroupsAtTwo(lists[l])  BY <1>1, <2>3, <2>4 DEF PageOK
  <2>6. PageOK(new)  BY <1>1, <2>4, <2>5, ListedPage
  <2> QED  BY <1>1, <2>1, <2>6, AnswerKeeps
<1>3. CASE AnswerLists
  <2>1. PICK call \in calls : /\ call.kind = "lists"
                              /\ Answer(call, [page EXCEPT !.lists = ListsFor(call.body)], saved)
    BY <1>3 DEF AnswerLists
  <2> DEFINE lists == ListsFor(call.body)
             below(code) == IF code \in DOMAIN Index THEN Offered(Index, code) ELSE {}
  <2>2. GroupsArePrefectures(Index)  BY <2>1, AnswersFromIndex DEF Answer
  <2>3. /\ \A code : GroupsAtTwo(Offered(Index, code))
        /\ \A code : GroupsAtTwo(below(code))
    <3>1. \A code : GroupsAtTwo(Offered(Index, code))  BY <2>2, OfferedGroups
    <3>2. GroupsAtTwo({})  BY DEF GroupsAtTwo
    <3> QED  BY <3>1, <3>2
  <2>4. GroupsAtTwo(call.body.provinces)  BY <2>1 DEF FormTypes, FormCallOK
  <2>5. \E c1, c2, c3 :
          lists = <<IF call.body.provinces # {} THEN call.body.provinces ELSE Offered(Index, Root),
                    below(c1), below(c2), below(c3)>>
    BY DEF ListsFor
  <2> HIDE DEF lists, below
  <2>6. lists = [l \in 1 .. 4 |-> lists[l]] /\ \A l \in 1 .. 4 : GroupsAtTwo(lists[l])
    <3>1. PICK l1, l2, l3, l4 : /\ lists = <<l1, l2, l3, l4>>
                                /\ GroupsAtTwo(l1) /\ GroupsAtTwo(l2)
                                /\ GroupsAtTwo(l3) /\ GroupsAtTwo(l4)
      BY <2>3, <2>4, <2>5
    <3>2. \A l \in 1 .. 4 : l = 1 \/ l = 2 \/ l = 3 \/ l = 4  OBVIOUS
    <3>3. lists[1] = l1 /\ lists[2] = l2 /\ lists[3] = l3 /\ lists[4] = l4  BY <3>1
    <3>4. lists = [l \in 1 .. 4 |-> lists[l]]  BY <3>1
    <3> QED  BY <3>1, <3>2, <3>3, <3>4
  <2>7. PageOK([page EXCEPT !.lists = lists])  BY <1>1, <2>6, ListedPage
  <2> QED  BY <1>1, <2>1, <2>7, AnswerKeeps DEF lists
<1> QED  BY <1>2, <1>3

\* The result of a parse replaces the draft.
LEMMA AnswerParseStep ==
  ASSUME FormTypes, AnswerParse
  PROVE  FormTypes'
<1> DEFINE parsed(call, answers) == Parse(call.body.text, Index, call.body.options, answers)
           new(result) == [page EXCEPT !.result = result, !.draft = NoCandidate,
                                       !.check = "none", !.saved = FALSE,
                                       !.reviewed = FALSE, !.busy = FALSE]
<1>1. PICK call \in calls : \E answers \in EngineAnswers(Index, call.body.text) :
             Answer(call, new([version |-> host.version, parsed |-> parsed(call, answers)]), saved)
  BY DEF AnswerParse
<1>2. PICK answers \in EngineAnswers(Index, call.body.text) :
             Answer(call, new([version |-> host.version, parsed |-> parsed(call, answers)]), saved)
  BY <1>1
<1>3. PageOK(page) /\ \A r \in saved : RecordIsReal(r)  BY DEF FormTypes
<1>4. IsTree(Index) /\ GroupsArePrefectures(Index)
  BY <1>2, AnswersFromIndex DEF Answer
<1>5. AnswersOK(Index, answers)  BY EngineAnswersPaths
<1>6. \A c \in ToSet(parsed(call, answers).candidates) : DraftOK(c)
  BY <1>4, <1>5, ParsedLevels
<1> DEFINE result == [version |-> host.version, parsed |-> parsed(call, answers)]
<1> HIDE DEF parsed
<1>7. \A c \in ToSet(result.parsed.candidates) : DraftOK(c)  BY <1>6
<1> HIDE DEF result
<1>8. /\ DOMAIN new(result) = DOMAIN page /\ new(result).result = result
      /\ new(result).lists = page.lists /\ new(result).draft = NoCandidate
  BY <1>3 DEF PageOK
<1> HIDE DEF new
<1>9. PageOK(new(result))  BY <1>3, <1>7, <1>8 DEF PageOK
<1> QED  BY <1>2, <1>3, <1>9, AnswerKeeps DEF result

\* The verdict of a check.
LEMMA AnswerCheckStep ==
  ASSUME FormTypes, AnswerCheck
  PROVE  FormTypes'
<1>1. PageOK(page) /\ \A r \in saved : RecordIsReal(r)  BY DEF FormTypes
<1>2. PICK call \in calls, verdict \in {"passed", "refused"} :
        Answer(call, [page EXCEPT !.check = verdict], saved)
  BY DEF AnswerCheck
<1> DEFINE new == [page EXCEPT !.check = verdict]
<1>3. /\ DOMAIN new = DOMAIN page /\ new.result = page.result
      /\ new.lists = page.lists /\ new.draft = page.draft
  BY <1>1 DEF PageOK
<1>4. Answer(call, new, saved)  BY <1>2
<1> HIDE DEF new
<1>5. PageOK(new)  BY <1>1, <1>3, DraftedPage
<1> QED  BY <1>1, <1>4, <1>5, AnswerKeeps

\* A confirmation saves regions of one path.
LEMMA SavedIsReal ==
  ASSUME FormTypes, NEW call \in calls, call.kind = "confirm", host.phase = "ready",
         Confirmable(call.body)
  PROVE  \A r \in saved \cup {Record(call.body)} : RecordIsReal(r)
<1>1. /\ host.version \in DOMAIN Snapshots
      /\ Closed(Snapshots[host.version], host.nodes)
  BY AnswersFromIndex
<1>2. FormCallOK(call) /\ \A r \in saved : RecordIsReal(r)  BY DEF FormTypes
<1>3. /\ LevelsOK(call.body.slots, call.body.group)
      /\ \A l \in 1 .. 4 : Selection(call.body.slots[l]) = call.body.slots[l]
      /\ Selection(call.body.group) = call.body.group
  BY <1>2 DEF FormCallOK
<1>4. RecordIsReal(Record(call.body))  BY <1>1, <1>3, ConfirmedIsReal
<1> QED  BY <1>2, <1>4

\* The address is saved, or refused.
LEMMA AnswerConfirmStep ==
  ASSUME FormTypes, AnswerConfirm
  PROVE  FormTypes'
<1> DEFINE done == [page EXCEPT !.saved = TRUE, !.busy = FALSE]
<1>1. PageOK(page) /\ \A r \in saved : RecordIsReal(r)  BY DEF FormTypes
<1>2. PICK call \in calls :
        /\ call.kind = "confirm"
        /\ IF Confirmable(call.body)
           THEN Answer(call, done, saved \cup {Record(call.body)})
           ELSE Answer(call, Failed({call}), saved)
  BY DEF AnswerConfirm
<1>3. CASE Confirmable(call.body)
  <2>1. Answer(call, done, saved \cup {Record(call.body)}) /\ host.phase = "ready"
    BY <1>2, <1>3 DEF Answer
  <2>2. /\ DOMAIN done = DOMAIN page /\ done.result = page.result
        /\ done.lists = page.lists /\ done.draft = page.draft
    BY <1>1 DEF PageOK
  <2> HIDE DEF done
  <2>3. PageOK(done)  BY <1>1, <2>2, DraftedPage
  <2>4. \A r \in saved \cup {Record(call.body)} : RecordIsReal(r)
    BY <1>2, <1>3, <2>1, SavedIsReal
  <2> QED  BY <2>1, <2>3, <2>4, AnswerKeeps
<1>4. CASE ~ Confirmable(call.body)
  BY <1>1, <1>2, <1>4, FailedPage, AnswerKeeps
<1> QED  BY <1>3, <1>4

\* An answer or a call is lost.
LEMMA LossSteps ==
  ASSUME FormTypes, LoseConfirm \/ FailCall
  PROVE  FormTypes'
<1>1. PageOK(page) /\ \A r \in saved : RecordIsReal(r)  BY DEF FormTypes
<1>2. PICK call \in calls :
        /\ page' = Failed({call}) /\ calls' = calls \ {call}
        /\ \/ saved' = saved
           \/ /\ call.kind = "confirm" /\ host.phase = "ready" /\ Confirmable(call.body)
              /\ saved' = saved \cup {Record(call.body)}
  BY DEF LoseConfirm, FailCall
<1>3. UNCHANGED <<mix, host>>  BY DEF LoseConfirm, FailCall
<1>4. HostOK'  BY <1>3 DEF FormTypes, HostOK
<1>5. PageOK(page')  BY <1>1, <1>2, FailedPage
<1>6. \A r \in saved' : RecordIsReal(r)  BY <1>1, <1>2, SavedIsReal
<1> QED  BY <1>2, <1>3, <1>4, <1>5, <1>6 DEF FormTypes

-----------------------------------------------------------------------------
\* The form starts with an empty page and a server without an index.
LEMMA FormStarts ==
  ASSUME FormInit
  PROVE  FormTypes
<1>1. mix.version \in DOMAIN Snapshots  BY AddressFormConstants DEF FormInit
<1>2. /\ DOMAIN host = {"phase", "version", "load", "nodes"}
      /\ host.phase = "none" /\ host.version = mix.version
  BY DEF FormInit, NoHost
<1>3. HostOK  BY <1>1, <1>2 DEF HostOK
<1>4. PageOK(page)
  <2>1. page = [result |-> NoResult, draft |-> NoCandidate, lists |-> EmptyLists,
                overwrite |-> FALSE, reviewed |-> FALSE, check |-> "none", saved |-> FALSE,
                busy |-> FALSE]
    BY DEF FormInit
  <2>2. GroupsAtTwo({})  BY DEF GroupsAtTwo
  <2>3. EmptyLists = [l \in 1 .. 4 |-> EmptyLists[l]] /\ \A l \in 1 .. 4 : EmptyLists[l] = {}
    BY DEF EmptyLists
  <2> QED  BY <2>1, <2>2, <2>3 DEF PageOK
<1>5. \A call \in calls : FormCallOK(call)  BY DEF FormInit, FormCallOK
<1> QED  BY <1>3, <1>4, <1>5 DEF FormTypes, FormInit

\* Every step of the page and the server keeps the types.
LEMMA FormSteps ==
  ASSUME FormTypes, [FormNext]_formVars
  PROVE  FormTypes'
<1>1. CASE UNCHANGED formVars
  BY <1>1 DEF FormTypes, HostOK, formVars
<1>2. CASE FormNext
  BY <1>2, StartStep, LoadStep, FinishStep, OperatorSteps, AskingSteps, AdoptStep, EditStep,
     ConfirmStep, AnswerListsStep, AnswerParseStep, AnswerCheckStep, AnswerConfirmStep,
     LossSteps
  DEF FormNext
<1> QED  BY <1>1, <1>2

\* So they hold in every state.
LEMMA FormTypesFollow ==
  FormSpec => []FormTypes
  BY FormStarts, FormSteps, PTL DEF FormSpec

\* What the types say of the index and of the saved addresses.
LEMMA TypesGiveReal ==
  ASSUME FormTypes
  PROVE  RegionsAreReal
<1>1. SnapshotComplete
  <2> SUFFICES ASSUME host.phase = "ready", mix.provider = "area"
               PROVE  host.nodes = {c \in DOMAIN AreaTable : LevelOf(AreaTable, c) \in Levels}
    BY DEF SnapshotComplete
  <2>1. host.version \in DOMAIN Snapshots
        /\ host.nodes = Loadable(Snapshots[host.version])
    BY DEF FormTypes, HostOK
  <2> QED  BY <2>1, AreaTableFacts DEF Loadable, LevelOf
<1>2. SavedPathIsReal  BY DEF FormTypes, SavedPathIsReal, RecordIsReal
<1> QED  BY <1>1, <1>2 DEF RegionsAreReal

\* The regions the server parses with are those of its version, all of them when it
\* reads area-kit, and every saved address is one path of the version saved with it,
\* under the names of that version; for every dataset, text, order of answers and
\* edits, and every deployment between them.
THEOREM RegionsOfAVersion ==
  FormSpec => []RegionsAreReal
  BY FormTypesFollow, TypesGiveReal, PTL
=============================================================================
