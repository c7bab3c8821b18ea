------------------------- MODULE SmsAdministration -------------------------
(***************************************************************************)
(* Administration of sms-kit: the provider configuration with its tests of *)
(* the connection, the catalogue of signatures and templates with the      *)
(* previews it is synchronised from, and the sends that read both.         *)
(*                                                                         *)
(* A request is one call of a service, which runs one transaction.  It     *)
(* reads what the code reads before its transaction, takes the locks of    *)
(* the transaction in the order of its statements, decides under them, and *)
(* makes its effects visible with its commit.  A refusal, an error or a    *)
(* crash at any of these points is GiveUp: the transaction rolls back.     *)
(*                                                                         *)
(* Left out: the actor, the audit rows and the events; purposes, variables *)
(* and visible names, so that a conflict of two visible names, like every  *)
(* other conflict of unique keys, is a refusal; the expiry of previews,    *)
(* which only refuses; preview and commit called without version and key.  *)
(***************************************************************************)
EXTENDS RowLocks

CONSTANTS
    Signatures,         \* provider keys of signatures, numbers
    Templates,          \* provider codes of templates, numbers
    Keys,               \* stable template keys, numbers
    Inputs,             \* what a connection is made from: region, endpoint, references
    OperationKeys,      \* idempotency keys of administrators
    Mixes               \* what may meet: the templates that are imported at first, and
                        \* the operations each request may be

\* Identifiers are positive, and there are finitely many of them.
ASSUME IdentifiersAssumption ==
    \A ids \in {Signatures, Templates, Keys} : IsFiniteSet(ids) /\ ids \subseteq Nat \ {0}

VARIABLES
    config,             \* sms_kit.provider_config
    lastProbe,          \* the connection that was tested last, and its outcome
    signatures,         \* sms_kit.signature
    templates,          \* sms_kit.template
    syncs,              \* sms_kit.resource_sync with its candidates
    messages,           \* sms_kit.send_message
    ledger,             \* sms_kit.admin_operation
    req                 \* the requests

data == <<config, lastProbe, signatures, templates, syncs, messages>>
vars == <<data, ledger, req, locks, todo>>

None == 0

Claimed == {"patch", "probe", "preview", "commit", "import", "updateSignature",
            "updateTemplate", "testSend"}
Unclaimed == {"save", "legacyProbe", "send"}

\* A template that is imported at first is under the key of its number, and
\* belongs to a signature.
ASSUME MixesAssumption ==
    \A mix \in Mixes :
       /\ mix.imported \subseteq Templates \cap Keys
       /\ mix.imported # {} => Signatures # {}
       /\ mix.kinds \in [Requests -> SUBSET (Claimed \cup Unclaimed)]

Switch == {"keep", "on", "off"}
Flip(switch, value) == switch = "on" \/ (switch = "keep" /\ value)

SignatureRow == [status : {"absent", "approved", "rejected", "unavailable"},
                 enabled : BOOLEAN, version : Nat]
TemplateRow == [status : {"absent", "approved", "rejected", "unavailable"},
                enabled : BOOLEAN, version : Nat,
                key : Keys \cup {None}, signature : Signatures \cup {None}]

Unconfigured == [status |-> "unconfigured", inputs |-> {}, enabled |-> FALSE,
                 test |-> "never", version |-> 0]

Approved(row) == row.status = "approved"
UsableSignature(s) == signatures[s].enabled /\ Approved(signatures[s])
UsableTemplate(t) == templates[t].enabled /\ Approved(templates[t])

Known(rows) == {id \in DOMAIN rows : rows[id].status # "absent"}
Children(S) == {t \in Known(templates) : templates[t].signature \in S}

\* The place of a number in the ascending order of S, and the number at a place.
Place(x, S) == Cardinality({y \in S : y <= x})
Nth(i, S) == CHOOSE x \in S : Place(x, S) = i

-----------------------------------------------------------------------------
(* Candidates of a preview.                                                 *)

SignatureCandidate(s, status) ==
    [type |-> "signature", id |-> s, status |-> status, key |-> None, signature |-> None]

\* Only a template that is imported already carries its local selection.
TemplateCandidate(t, status) ==
    [type |-> "template", id |-> t, status |-> status,
     key |-> templates[t].key, signature |-> templates[t].signature]

IsNewTemplate(c) == c.type = "template" /\ c.key = None

\* What a complete discovery yields when the provider lists the resources with
\* these statuses: refreshed are the imported templates whose status is what
\* it was and whose other content changed.
Discovery(remoteSignatures, remoteTemplates, refreshed) ==
    {SignatureCandidate(s, remoteSignatures[s]) :
        s \in {s \in Signatures : remoteSignatures[s] # "absent"}}
    \cup {SignatureCandidate(s, "unavailable") :
        s \in {s \in Known(signatures) : remoteSignatures[s] = "absent"}}
    \cup {TemplateCandidate(t, remoteTemplates[t]) :
        t \in {t \in Templates : /\ remoteTemplates[t] # "absent"
                                 /\ \/ remoteTemplates[t] # templates[t].status
                                    \/ t \in refreshed}}
    \cup {TemplateCandidate(t, "unavailable") :
        t \in {t \in Known(templates) : remoteTemplates[t] = "absent"}}

-----------------------------------------------------------------------------
(* Requests and their locks.                                                *)

Begun(r) == req[r].pc \notin {"idle", "done"}

At(r, pc) == req[r].pc = pc /\ HasLocks(r)

Goto(r, pc) == req' = [req EXCEPT ![r].pc = pc]

IsKind(r, kinds) == req[r].kind \in kinds

In(r) == req[r].in

EntryOf(r) == [kind |-> req[r].kind, key |-> req[r].key, in |-> In(r), by |-> r]

Entries(r) == {e \in ledger : e.kind = req[r].kind /\ e.key = req[r].key}

ChosenOf(r, type) == {c.id : c \in {c \in In(r).chosen : c.type = type}}

\* The signatures a commit may touch: those it names, and the persisted parents
\* of the templates it names.
ScopeOf(r) ==
    ChosenOf(r, "signature")
        \cup {c.signature : c \in {c \in In(r).chosen : c.type = "template"}}
        \cup {templates[t].signature : t \in ChosenOf(r, "template")}

\* The rows of one kind, in ascending order.
AllOf(name, S) ==
    [i \in 1 .. Cardinality(S) |-> Exclusive(<<name, Nth(i, S)>>)]

\* One sorted namespace: signature-key < template-code < template-key.
Identities(S, T, K) ==
    AllOf("signature-key", S \ {None}) \o AllOf("template-code", T) \o AllOf("template-key", K)

\* Those a commit changes, of the rows that exist.
AffectedTemplates(r) == (ChosenOf(r, "template") \cup Children(ScopeOf(r))) \cap Known(templates)
AffectedSignatures(r) == ScopeOf(r) \cap Known(signatures)

\* Mutation: a commit locks the signatures before the templates.
SignaturesFirst(r) ==
    AllOf("signature", AffectedSignatures(r)) \o AllOf("template", AffectedTemplates(r))

\* lockAffectedTemplates, lockAffectedSignatures: the templates before the signatures.
AffectedRows(r) ==
    AllOf("template", AffectedTemplates(r)) \o AllOf("signature", AffectedSignatures(r))

\* Mutation: the insert of a key waits for nobody.
UnclaimedKey(request) == Shared(<<"operation", request.kind, request.key>>)

OperationLock(request) == Exclusive(<<"operation", request.kind, request.key>>)

ConfigLock == Exclusive(<<"config">>)

\* A rename locks the key the template has, read before any lock, and the key it
\* is to have.
RenameLocks(r) ==
    IF In(r).rename = None THEN <<>>
    ELSE Identities({}, {}, {templates[In(r).id].key, In(r).rename} \ {None})

\* The locks a transaction takes before it decides anything.
FirstLocks(r) ==
    CASE IsKind(r, {"save", "legacyProbe", "patch", "probe", "preview", "testSend"}) ->
            <<ConfigLock>>
      [] IsKind(r, {"commit"}) ->
            <<ConfigLock, Exclusive(<<"sync", In(r).sync>>), Exclusive(<<"commits">>)>>
                \o Identities(ScopeOf(r), ChosenOf(r, "template"), {})
      [] IsKind(r, {"import"}) ->
            <<Exclusive(<<"sync", In(r).sync>>)>>
                \o Identities({In(r).signature}, {In(r).id}, {In(r).key})
      [] IsKind(r, {"updateSignature"}) -> <<Exclusive(<<"signature", In(r).id>>)>>
      [] IsKind(r, {"updateTemplate"}) ->
            Append(RenameLocks(r), Exclusive(<<"template", In(r).id>>))
      [] OTHER -> <<>>

-----------------------------------------------------------------------------
(* Initially the service is unconfigured, or it is in use: some templates   *)
(* are imported, each under the key of its number, and a preview in which   *)
(* everything was approved is still uncommitted.                            *)

Ready(inputs) == [status |-> "ready", inputs |-> inputs, enabled |-> TRUE,
                  test |-> "succeeded", version |-> 3]

InitialTemplate(t, known) ==
    IF t \in known
    THEN [status |-> "approved", enabled |-> TRUE, version |-> 1, key |-> t,
          signature |-> CHOOSE s \in Signatures : TRUE]
    ELSE [status |-> "absent", enabled |-> FALSE, version |-> 0, key |-> None, signature |-> None]

InitialSync(known) ==
    [candidates |-> {SignatureCandidate(s, "approved") : s \in Signatures}
                    \cup {TemplateCandidate(t, "approved") : t \in Templates},
     done |-> {}]

InUse(known) ==
    /\ \E inputs \in Inputs :
           /\ config = Ready(inputs)
           /\ lastProbe = [inputs |-> inputs, outcome |-> "succeeded"]
    /\ signatures = [s \in Signatures |-> [status |-> "approved", enabled |-> TRUE, version |-> 1]]
    /\ templates = [t \in Templates |-> InitialTemplate(t, known)]
    /\ syncs = <<InitialSync(known)>>

NotInUse ==
    /\ config = Unconfigured
    /\ lastProbe = [inputs |-> {}, outcome |-> "never"]
    /\ signatures = [s \in Signatures |-> [status |-> "absent", enabled |-> FALSE, version |-> 0]]
    /\ templates = [t \in Templates |-> InitialTemplate(t, {})]
    /\ syncs = <<>>

Init ==
    /\ \E mix \in Mixes :
          /\ NotInUse \/ InUse(mix.imported)
          /\ req = [r \in Requests |-> [pc |-> "idle", kinds |-> mix.kinds[r]]]
    /\ messages = {}
    /\ ledger = {}
    /\ locks = {}
    /\ todo = [r \in Requests |-> <<>>]

-----------------------------------------------------------------------------
(* A request begins with an input its caller could have: the versions are   *)
(* those of now, the candidates those of a stored preview.                  *)

InputsOf(kind) ==
    CASE kind = "save" -> [inputs : Inputs, enabled : {"on", "off"}, version : {config.version}]
      [] kind = "patch" -> [inputs : Inputs, enabled : Switch, version : {config.version}]
      [] kind \in {"probe", "preview"} -> [version : {config.version}]
      [] kind = "commit" ->
            UNION {[version : {config.version}, sync : {i},
                    chosen : (SUBSET {c \in syncs[i].candidates : ~IsNewTemplate(c)}) \ {{}}] :
                   i \in DOMAIN syncs}
      [] kind = "import" ->
            UNION {[sync : {i}, id : {c.id : c \in {c \in syncs[i].candidates : IsNewTemplate(c)}},
                    key : Keys, signature : {s}, version : {signatures[s].version}] :
                   i \in DOMAIN syncs, s \in Known(signatures)}
      [] kind = "updateSignature" ->
            UNION {[id : {s}, enabled : {"on", "off"}, version : {signatures[s].version}] :
                   s \in Known(signatures)}
      [] kind = "updateTemplate" ->
            UNION {[id : {t}, enabled : Switch, rename : Keys \cup {None},
                    version : {templates[t].version}] :
                   t \in Known(templates)}
      [] kind = "send" -> [key : Keys]
      [] kind = "testSend" -> [key : Keys, version : {config.version}]
      [] OTHER -> [version : {None}]

\* executeAdminOperation first inserts its key; preview reads before that.
Start(r, kind, key, in) ==
    LET claims == kind \in Claimed \ {"preview"}
        request == [pc |-> IF claims THEN "claim" ELSE "begun",
                    kind |-> kind, key |-> key, in |-> in, view |-> {}]
    IN  /\ req' = [req EXCEPT ![r] = request]
        /\ Ask(r, IF claims THEN <<OperationLock(request)>> ELSE <<>>)
        /\ UNCHANGED <<data, ledger>>

Begin(r) ==
    /\ req[r].pc = "idle"
    /\ \E kind \in req[r].kinds :
          \E in \in InputsOf(kind), key \in IF kind \in Claimed THEN OperationKeys ELSE {None} :
             Start(r, kind, key, in)

\* The caller of request q lost its answer and sends it again.
Repeat(r, q) ==
    /\ req[r].pc = "idle"
    /\ req[q].pc # "idle"
    /\ IsKind(q, Claimed \cap req[r].kinds)
    /\ Start(r, req[q].kind, req[q].key, In(q))

Finish(r) ==
    /\ Goto(r, "done")
    /\ Release(r)

\* A refusal, an error, a crash.
GiveUp(r) ==
    /\ Begun(r)
    /\ Finish(r)
    /\ UNCHANGED <<data, ledger>>

-----------------------------------------------------------------------------
(* The steps of a request up to its last lock.                              *)

\* What is read before the transaction, and the locks asked for then.
ReadBefore(r) ==
    /\ At(r, "begun")
    /\ IsKind(r, {"save", "legacyProbe"})
    /\ req' = [req EXCEPT ![r].view = config, ![r].pc = "work"]
    /\ Ask(r, FirstLocks(r))
    /\ UNCHANGED <<data, ledger>>

\* The four listings run concurrently.  One step stands for them: signatures and
\* parents of templates never disappear, and whatever an older listing of
\* signatures would leave out, a commit can leave out.
Discover(r) ==
    /\ At(r, "begun")
    /\ IsKind(r, {"preview"})
    /\ config.version = In(r).version
    /\ config.status = "ready"
    /\ \E remoteSignatures \in [Signatures -> {"absent", "approved", "rejected"}],
          remoteTemplates \in [Templates -> {"absent", "approved", "rejected"}],
          refreshed \in SUBSET Known(templates) :
          req' = [req EXCEPT ![r].view = Discovery(remoteSignatures, remoteTemplates, refreshed),
                             ![r].pc = "claim"]
    /\ Ask(r, <<OperationLock(req[r])>>)
    /\ UNCHANGED <<data, ledger>>

\* The insert of the key has waited for a transaction that inserted it before.
\* A recorded key replays its result, or is refused if its input was another.
Claim(r) ==
    /\ At(r, "claim")
    /\ Entries(r) = {}
    /\ Goto(r, IF IsKind(r, {"commit", "import", "updateTemplate", "testSend"})
               THEN "fenced" ELSE "work")
    /\ Ask(r, FirstLocks(r))
    /\ UNCHANGED <<data, ledger>>

Replay(r) ==
    /\ At(r, "claim")
    /\ \E e \in Entries(r) : e.in = In(r)
    /\ Finish(r)
    /\ UNCHANGED <<data, ledger>>

IsCurrent(r, c) ==
    /\ c \in syncs[In(r).sync].candidates
    /\ c \notin syncs[In(r).sync].done

LockAffected(r) ==
    /\ At(r, "fenced")
    /\ IsKind(r, {"commit"})
    /\ config.version = In(r).version
    /\ config.status = "ready"
    /\ \A c \in In(r).chosen : IsCurrent(r, c) /\ ~IsNewTemplate(c)
    /\ Goto(r, "work")
    /\ Ask(r, AffectedRows(r))
    /\ UNCHANGED <<data, ledger>>

LockParent(r) ==
    /\ At(r, "fenced")
    /\ IsKind(r, {"import"})
    /\ \E c \in syncs[In(r).sync].candidates :
           /\ IsCurrent(r, c)
           /\ IsNewTemplate(c)
           /\ c.id = In(r).id
           /\ Approved(c)
    /\ Goto(r, "work")
    /\ Ask(r, <<Shared(<<"signature", In(r).signature>>)>>)
    /\ UNCHANGED <<data, ledger>>

\* A key that a stored message names is stable.
IsUsed(t) == \E m \in messages : m.template = t

NextKey(r) == IF In(r).rename = None THEN templates[In(r).id].key ELSE In(r).rename

CheckUpdate(r) ==
    LET t == In(r).id IN
    /\ At(r, "fenced")
    /\ IsKind(r, {"updateTemplate"})
    /\ templates[t].version = In(r).version
    /\ NextKey(r) # templates[t].key => ~IsUsed(t)
    /\ Goto(r, "work")
    /\ IF Flip(In(r).enabled, templates[t].enabled)
       THEN /\ Approved(templates[t])
            /\ Ask(r, <<Shared(<<"signature", templates[t].signature>>)>>)
       ELSE UNCHANGED <<locks, todo>>
    /\ UNCHANGED <<data, ledger>>

\* Mutation: the template is read without a lock.
FindUnlocked(r) ==
    /\ \/ At(r, "begun") /\ IsKind(r, {"send"})
       \/ /\ At(r, "fenced")
          /\ IsKind(r, {"testSend"})
          /\ config.version = In(r).version
          /\ config.status = "ready"
          /\ config.enabled
    /\ \E t \in Known(templates) :
          /\ templates[t].key = In(r).key
          /\ req' = [req EXCEPT ![r].view = t, ![r].pc = "target"]
    /\ UNCHANGED <<data, ledger, locks, todo>>

\* findTemplateByKey, as it finds the row before it waits for its lock.
FindTemplate(r) ==
    /\ \/ At(r, "begun") /\ IsKind(r, {"send"})
       \/ /\ At(r, "fenced")
          /\ IsKind(r, {"testSend"})
          /\ config.version = In(r).version
          /\ config.status = "ready"
          /\ config.enabled
    /\ \E t \in Known(templates) :
          /\ templates[t].key = In(r).key
          /\ req' = [req EXCEPT ![r].view = t, ![r].pc = "target"]
          /\ Ask(r, <<Shared(<<"template", t>>)>>)
    /\ UNCHANGED <<data, ledger>>

\* The row it got the lock of must still have the key.
CheckTemplate(r) ==
    LET t == req[r].view IN
    /\ At(r, "target")
    /\ templates[t].key = In(r).key
    /\ UsableTemplate(t)
    /\ Goto(r, "work")
    /\ Ask(r, <<Shared(<<"signature", templates[t].signature>>)>>)
    /\ UNCHANGED <<data, ledger>>

-----------------------------------------------------------------------------
(* The last step of each operation: it decides under all its locks and       *)
(* commits.                                                                 *)

AtWork(r, kinds) == At(r, "work") /\ IsKind(r, kinds)

Complete(r) ==
    /\ ledger' = IF IsKind(r, Claimed) THEN ledger \cup {EntryOf(r)} ELSE ledger
    /\ Finish(r)

\* connectionInputsChanged; an unconfigured provider has none.
InputsChanged(current, inputs) == current.inputs # inputs

\* The statement of PgConfigRepository.update for the row that is there.
UpdatedConfig(inputs, enabled, reset) ==
    [status |-> IF reset THEN "untested"
                ELSE IF ~enabled THEN "disabled"
                ELSE IF config.status # "disabled" THEN config.status
                ELSE IF config.test = "succeeded" THEN "ready" ELSE "untested",
     inputs |-> inputs,
     enabled |-> enabled /\ ~reset,
     test |-> IF reset THEN "never" ELSE config.test,
     version |-> config.version + 1]

\* save: whether the connection changed was decided on the row read before.
SaveConfig(r) ==
    /\ AtWork(r, {"save"})
    /\ config.version = In(r).version
    /\ config' = UpdatedConfig(In(r).inputs, In(r).enabled = "on",
                               InputsChanged(req[r].view, In(r).inputs))
    /\ Complete(r)
    /\ UNCHANGED <<lastProbe, signatures, templates, syncs, messages>>

\* patch: decided on the locked row.
PatchConfig(r) ==
    /\ AtWork(r, {"patch"})
    /\ config.version = In(r).version
    /\ config' = UpdatedConfig(In(r).inputs, Flip(In(r).enabled, config.enabled),
                               InputsChanged(config, In(r).inputs))
    /\ Complete(r)
    /\ UNCHANGED <<lastProbe, signatures, templates, syncs, messages>>

\* Mutation: the result of a test is recorded for whatever version there is.
VersionOfNow(r) == config.version

\* The row a test of the connection is about, and the version it must still have.
Tested(r) == IF IsKind(r, {"probe"}) THEN config ELSE req[r].view

VersionFor(r) == IF IsKind(r, {"probe"}) THEN In(r).version ELSE req[r].view.version

RecordConnectionTest(r) ==
    /\ AtWork(r, {"probe", "legacyProbe"})
    /\ Tested(r).status # "unconfigured"
    /\ config.version = VersionFor(r)
    /\ \E outcome \in {"succeeded", "failed"} :
          /\ lastProbe' = [inputs |-> Tested(r).inputs, outcome |-> outcome]
          /\ config' = [config EXCEPT !.test = outcome,
                                      !.status = IF outcome = "succeeded" THEN "ready" ELSE "degraded",
                                      !.version = @ + 1]
    /\ Complete(r)
    /\ UNCHANGED <<signatures, templates, syncs, messages>>

CreateSyncPreview(r) ==
    /\ AtWork(r, {"preview"})
    /\ config.version = In(r).version
    /\ config.status = "ready"
    /\ syncs' = Append(syncs, [candidates |-> req[r].view, done |-> {}])
    /\ Complete(r)
    /\ UNCHANGED <<config, lastProbe, signatures, templates, messages>>

\* assertTemplateSelectionsCurrent
SelectionCurrent(c) ==
    c.type = "template" /\ c.status # "unavailable" =>
        /\ templates[c.id].key = c.key
        /\ templates[c.id].signature = c.signature

\* The upsert of a candidate signature: only a new row is enabled by it.
CommittedSignature(s, chosen) ==
    LET C == {c \in chosen : c.type = "signature" /\ c.id = s}
        c == CHOOSE c \in C : TRUE
        row == signatures[s]
    IN  IF C = {} THEN row
        ELSE [status |-> c.status,
              enabled |-> Approved(c) /\ (row.status = "absent" \/ row.enabled),
              version |-> row.version + 1]

\* Mutation: a signature that is no longer approved leaves its templates as they are.
KeepChildren(t, chosen) == templates[t]

\* What the candidates of signatures do to the templates they own.
AfterSignatures(t, chosen) ==
    LET row == templates[t]
        C == {c \in chosen : c.type = "signature" /\ c.id = row.signature /\ ~Approved(c)}
    IN  IF C = {} THEN row
        ELSE [row EXCEPT !.enabled = FALSE, !.version = @ + 1,
                         !.status = IF \E c \in C : c.status = "unavailable"
                                    THEN "unavailable" ELSE @]

\* The candidates of templates follow: a refresh keeps an enabled template
\* enabled only under a signature that is usable now.
CommittedTemplate(t, chosen) ==
    LET C == {c \in chosen : c.type = "template" /\ c.id = t}
        c == CHOOSE c \in C : TRUE
        row == AfterSignatures(t, chosen)
        parent == CommittedSignature(row.signature, chosen)
    IN  IF C = {} THEN row
        ELSE [row EXCEPT !.status = c.status, !.version = @ + 1,
                         !.enabled = @ /\ Approved(c) /\ parent.enabled /\ Approved(parent)]

CommitSync(r) ==
    LET chosen == In(r).chosen IN
    /\ AtWork(r, {"commit"})
    /\ \A c \in chosen :
          /\ SelectionCurrent(c)
          /\ c.type = "signature" /\ c.status = "rejected" => c.id \in Known(signatures)
    /\ signatures' = [s \in Signatures |-> CommittedSignature(s, chosen)]
    /\ templates' = [t \in Templates |-> CommittedTemplate(t, chosen)]
    /\ syncs' = [syncs EXCEPT ![In(r).sync].done = @ \cup chosen]
    /\ Complete(r)
    /\ UNCHANGED <<config, lastProbe, messages>>

KeyIsFree(key, t) == \A u \in Known(templates) \ {t} : templates[u].key # key

ImportTemplate(r) ==
    LET s == In(r).signature IN
    /\ AtWork(r, {"import"})
    /\ UsableSignature(s)
    /\ signatures[s].version = In(r).version
    /\ In(r).id \notin Known(templates)
    /\ KeyIsFree(In(r).key, In(r).id)
    /\ templates' = [templates EXCEPT ![In(r).id] =
           [status |-> "approved", enabled |-> TRUE, version |-> 1,
            key |-> In(r).key, signature |-> s]]
    /\ syncs' = [syncs EXCEPT ![In(r).sync].done =
           @ \cup {c \in syncs[In(r).sync].candidates : c.id = In(r).id /\ IsNewTemplate(c)}]
    /\ Complete(r)
    /\ UNCHANGED <<config, lastProbe, signatures, messages>>

UpdateSignature(r) ==
    LET s == In(r).id IN
    /\ AtWork(r, {"updateSignature"})
    /\ signatures[s].version = In(r).version
    /\ In(r).enabled = "on" => Approved(signatures[s])
    /\ signatures' = [signatures EXCEPT ![s].enabled = In(r).enabled = "on", ![s].version = @ + 1]
    /\ Complete(r)
    /\ UNCHANGED <<config, lastProbe, templates, syncs, messages>>

UpdateTemplate(r) ==
    LET t == In(r).id
        enabled == Flip(In(r).enabled, templates[t].enabled)
    IN
    /\ AtWork(r, {"updateTemplate"})
    /\ enabled => UsableSignature(templates[t].signature)
    /\ KeyIsFree(NextKey(r), t)
    /\ templates' = [templates EXCEPT ![t].enabled = enabled, ![t].key = NextKey(r),
                                      ![t].version = @ + 1]
    /\ Complete(r)
    /\ UNCHANGED <<config, lastProbe, signatures, syncs, messages>>

\* createWithSendJob, for a send of the host or an administrator's test.
StoreMessage(r) ==
    LET t == req[r].view IN
    /\ AtWork(r, {"send", "testSend"})
    /\ UsableSignature(templates[t].signature)
    /\ messages' = messages \cup {[template |-> t, key |-> In(r).key, by |-> r]}
    /\ Complete(r)
    /\ UNCHANGED <<config, lastProbe, signatures, templates, syncs>>

-----------------------------------------------------------------------------

TakeLock(r) ==
    /\ Acquire(r)
    /\ UNCHANGED <<data, ledger, req>>

Work(r) ==
    \/ SaveConfig(r) \/ PatchConfig(r) \/ RecordConnectionTest(r)
    \/ CreateSyncPreview(r) \/ CommitSync(r) \/ ImportTemplate(r)
    \/ UpdateSignature(r) \/ UpdateTemplate(r) \/ StoreMessage(r)

Next == \E r \in Requests :
    \/ Begin(r) \/ (\E q \in Requests : Repeat(r, q)) \/ GiveUp(r)
    \/ ReadBefore(r) \/ Discover(r) \/ Claim(r) \/ Replay(r)
    \/ TakeLock(r)
    \/ LockAffected(r) \/ LockParent(r) \/ CheckUpdate(r)
    \/ FindTemplate(r) \/ CheckTemplate(r)
    \/ Work(r)

Spec == Init /\ [][Next]_vars

-----------------------------------------------------------------------------

\* A provider is ready only because the connection it has now, not the one it had
\* when somebody read the row, passed the last test (config-repository.ts: the
\* version in both updates).
ReadyWasTested ==
    /\ config.test # "never" => lastProbe = [inputs |-> config.inputs, outcome |-> config.test]
    /\ config.status = "ready" => config.test = "succeeded"
    /\ config.status = "degraded" => config.test = "failed"

\* The rows of the catalogue.
TypeOK ==
    /\ signatures \in [Signatures -> SignatureRow]
    /\ templates \in [Templates -> TemplateRow]

\* Whatever imports, stale previews, renames, updates and sends overtake each
\* other, an enabled template is approved and belongs to an approved signature,
\* no two templates have one key, and a stored message names the key that its
\* template still has.
CatalogueInv ==
    /\ TypeOK
    /\ \A s \in Signatures : signatures[s].enabled => Approved(signatures[s])
    /\ \A t \in Templates :
          templates[t].enabled => Approved(templates[t]) /\ Approved(signatures[templates[t].signature])
    /\ \A t \in Known(templates) : KeyIsFree(templates[t].key, t)
    /\ \A m \in messages : templates[m.template].key = m.key

\* What a send finds set up is what an administrator has tested and imported.
SetupInv == ReadyWasTested /\ CatalogueInv

\* The order in which the transactions take their locks admits no deadlock
\* (resource-repository.ts:151-157: templates before signatures).
LocksAreAcyclic == \A S \in (SUBSET Requests) \ {{}} : ~Deadlocked(S)

\* An operation of an administrator takes effect once for its key, also when its
\* answer was lost and it is repeated while the first call still runs.
OneEffectPerKey == \A d, e \in ledger : d.kind = e.kind /\ d.key = e.key => d = e

\* A message is stored only while its template and its signature may be used, and
\* an administrator's only on the configuration it was fenced with.
StoresUsable ==
    \A m \in messages' \ messages :
       /\ UsableTemplate(m.template)
       /\ templates[m.template].key = m.key
       /\ UsableSignature(templates[m.template].signature)
       /\ IsKind(m.by, {"testSend"}) =>
             /\ config.status = "ready"
             /\ config.enabled
             /\ config.version = In(m.by).version

SendsAreUsable == [][StoresUsable]_vars
=============================================================================
