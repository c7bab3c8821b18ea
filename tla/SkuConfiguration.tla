-------------------------- MODULE SkuConfiguration --------------------------
(***************************************************************************)
(* sku-kit: the sales specifications and SKUs of the products (SPUs) of    *)
(* one scope, as the application service (server/service.ts) keeps them in *)
(* PostgreSQL (postgres/store.ts).                                         *)
(*                                                                         *)
(* A command is a request a client builds from what it has read, sends     *)
(* and, when the answer is lost, sends again.  It is executed in two       *)
(* pieces: Prepare, the statements the service runs before it opens the    *)
(* transaction (bind the inventory authority, look the SPU code up), and   *)
(* one transaction under the advisory lock of the SPU.  A transaction that *)
(* throws rolls back and is a step that does not happen.                   *)
(*                                                                         *)
(* Labels, prices and images are left out: identity is made of ids only.   *)
(* A dimension is named by its position in dims, a value by its position   *)
(* in the dimension, a SKU by its sequence number; a negative number in a  *)
(* request is a draftKey, resolved to a new id when the save is executed.  *)
(* The id of a value is the place it was made for, or one of OwnIds: under *)
(* a new dimension the service takes whatever id the client gives a value. *)
(***************************************************************************)
EXTENDS Integers, FiniteSets, Sequences

CONSTANTS
  Spus,            \* products
  SpuCodes,        \* codes a host may register them under
  Commands,        \* requests, each retried with the same payload
  IdOf,            \* the commandId of each request
  Operations,      \* the operations clients use (bounds the model)
  Authorities,     \* inventory authorities the host's configuration may name
  Capacity,        \* SKUs of a product over its lifetime (100 in the code)
  OwnIds,          \* ids clients make themselves for values (bounds the model)
  MaxValues,       \* values of a product when a form adds some (bounds the model)
  MaxChoices,      \* combinations of a form (bounds the model)
  ReceiptsLapse,   \* TRUE: a retry may come after the seven days of a receipt
  NoDocument, NoSku, NoPayload, Unbound

ASSUME CapacityAssumption == Capacity \in Nat \ {0}
ASSUME BoundsAssumption == MaxValues \in Nat /\ MaxChoices \in Nat
ASSUME IdsAssumption == OwnIds \subseteq {0} \X Int
ASSUME CommandsAssumption == IsFiniteSet(Commands) /\ IdOf \in [Commands -> Commands]
ASSUME AuthoritiesAssumption == Unbound \notin Authorities \cup {"local", "external"}

VARIABLES
  docs,        \* sku_product_config and its child tables, per SPU
  authority,   \* sku_scope_config: the authority the scope is bound to
  sent,        \* the payload of each request
  prepared,    \* requests between Prepare and their transaction
  answer,      \* version reported by the last answer to a request, -1: none
  applied,     \* how many times a request took effect
  forwarded    \* the requests handed to the host's adapter for external stock
vars == <<docs, authority, sent, prepared, answer, applied, forwarded>>

Unversioned == -1
Sequences == 0 .. Capacity - 1

-----------------------------------------------------------------------------
(* The stored document                                                     *)

Rows(doc) == {n \in Sequences : doc.skus[n] # NoSku}
Active(doc) == {n \in Rows(doc) : ~doc.skus[n].archived}
Created(code) ==
  [code |-> code, structure |-> 0, next |-> 0, dims |-> << >>,
   skus |-> [n \in Sequences |-> NoSku], receipts |-> {}, lapsed |-> FALSE]
NewSku(key) ==
  [key |-> key, pairs |-> key, archived |-> FALSE, status |-> "disabled",
   config |-> 1, stock |-> 0, stockVersion |-> 1]

IsDefault(doc) == \E n \in Active(doc) : doc.skus[n].pairs = {}
HasStock(doc) == \E n \in Rows(doc) : doc.skus[n].stock # 0
CodeTaken(spu, code) == \E s \in Spus \ {spu} : docs[s] # NoDocument /\ docs[s].code = code
Stored(p) == IF docs[p.spu] = NoDocument THEN Created(p.code) ELSE docs[p.spu]

-----------------------------------------------------------------------------
(* What a save asks for.  form.specs holds the dimension-value pairs the   *)
(* form lists, form.choices the combinations it sells.                     *)

DimensionsOf(pairs) == {s[1] : s \in pairs}
DimensionId(doc, d) == IF d > 0 THEN d ELSE Len(doc.dims) - d
ValueId(doc, d, v) ==
  IF v > 0 THEN v ELSE (IF d > 0 THEN Len(doc.dims[d].values) ELSE 0) - v
Resolve(doc, pairs) == {<<DimensionId(doc, s[1]), ValueId(doc, s[1], s[2])>> : s \in pairs}

\* The values of a dimension: those the form lists, and those the document keeps.
ValueCount(doc, listed, d) ==
  Cardinality({s[2] : s \in {t \in listed : t[1] = d}}
                \cup (IF d \in DOMAIN doc.dims THEN DOMAIN doc.dims[d].values ELSE {}))

\* The id of a new value: under a new dimension the one the form gives it, if any.
NewId(doc, form, d, v) ==
  IF d \notin DOMAIN doc.dims /\ \E n \in form.named : n[1] = v
  THEN (CHOOSE n \in form.named : n[1] = v)[2]
  ELSE <<d, v>>

\* The specification of the save: what the form lists is active, every
\* other dimension and value of the document is kept and archived.
Dimensions(doc, form) ==
  LET listed == Resolve(doc, form.specs)
      old(d, v) == d \in DOMAIN doc.dims /\ v \in DOMAIN doc.dims[d].values
  IN  [d \in DOMAIN doc.dims \cup DimensionsOf(listed) |->
         [archived |-> d \notin DimensionsOf(listed),
          values   |-> [v \in 1 .. ValueCount(doc, listed, d) |->
             [archived |-> <<d, v>> \notin listed,
              moved    |-> old(d, v) /\ doc.dims[d].values[v].moved,
              id       |-> IF old(d, v) THEN doc.dims[d].values[v].id
                                        ELSE NewId(doc, form, d, v)]]]]

\* The dimensions are written in this order: those the form lists, in its order,
\* and then the archived ones.  form.before are those it lists before the new one.
Turn(doc, form, d) ==
  IF d \in form.before THEN 1 ELSE IF d \in DOMAIN doc.dims THEN 3 ELSE 2

Holders(dims, id) ==
  {d \in DOMAIN dims : \E v \in DOMAIN dims[d].values :
                          dims[d].values[v].id = id /\ ~dims[d].values[v].moved}

\* The specification as it is stored: there is one row for an id, which moves to the
\* last dimension written with it.
Persisted(doc, form) ==
  LET dims == Dimensions(doc, form)
      loses(d, v) == \E e \in Holders(dims, dims[d].values[v].id) :
                        Turn(doc, form, e) > Turn(doc, form, d)
  IN  [d \in DOMAIN dims |->
         [archived |-> dims[d].archived,
          values   |-> [v \in DOMAIN dims[d].values |->
             [archived |-> dims[d].values[v].archived,
              moved    |-> dims[d].values[v].moved \/ loses(d, v),
              id       |-> dims[d].values[v].id]]]]

\* One value for every dimension of the document, archived ones included.
Belongs(key, dims) ==
  /\ DimensionsOf(key) = DOMAIN dims
  /\ Cardinality(key) = Len(dims)
  /\ \A s \in key : s[2] \in DOMAIN dims[s[1]].values /\ ~dims[s[1]].values[s[2]].moved

Keys(doc, form) ==
  IF form.specs = {} THEN {{}} ELSE {Resolve(doc, choice) : choice \in form.choices}

\* Mutation: archived SKUs are not looked at.
LiveRowOf(doc, key) == {n \in Active(doc) : doc.skus[n].key = key}

RowOf(doc, key) == {n \in Rows(doc) : doc.skus[n].key = key}
Added(doc, form) == {key \in Keys(doc, form) : RowOf(doc, key) = {}}

\* Mutation: any version the product has had.
VersionHasBeen(doc, form) == form.expected <= doc.structure

VersionIsCurrent(doc, form) == form.expected \in {Unversioned, doc.structure}

\* The values listed by their id are still values of their dimension.
SpecsAreKnown(doc, form) ==
  \A s \in form.specs : s[1] > 0 /\ s[2] > 0 => ~doc.dims[s[1]].values[s[2]].moved

ModeChangeAllowed(doc, form) == IsDefault(doc) = (form.specs = {}) \/ ~HasStock(doc)
CombinationsResolve(doc, form) ==
  \A key \in Keys(doc, form) : Belongs(key, Dimensions(doc, form))
RestoresAreNamed(doc, form) ==
  \A key \in Keys(doc, form) : RowOf(doc, key) \ Active(doc) \subseteq form.restore

CapacitySuffices(doc, form) == doc.next + Cardinality(Added(doc, form)) <= Capacity

Acceptable(doc, form) ==
  /\ doc.code = form.code
  /\ VersionIsCurrent(doc, form)
  /\ SpecsAreKnown(doc, form)
  /\ ModeChangeAllowed(doc, form)
  /\ CombinationsResolve(doc, form)
  /\ RestoresAreNamed(doc, form)
  /\ CapacitySuffices(doc, form)

-----------------------------------------------------------------------------
(* The document after a save                                               *)

\* Mutation: counted from the SKUs in use.
AllocationByCount(doc, form) ==
  LET new   == Added(doc, form)
      first == Cardinality(Active(doc))
  IN  CHOOSE place \in [new -> first .. first + Cardinality(new) - 1] :
        \A k, l \in new : place[k] = place[l] => k = l

\* New combinations take the next sequence numbers.
Allocation(doc, form) ==
  LET new == Added(doc, form)
  IN  CHOOSE place \in [new -> doc.next .. doc.next + Cardinality(new) - 1] :
        \A k, l \in new : place[k] = place[l] => k = l

\* Mutation: restoring leaves the configuration version alone.
KeptQuietly(sku, keys) ==
  IF sku.key \in keys
  THEN [sku EXCEPT !.pairs = sku.key, !.archived = FALSE,
                   !.status = IF sku.archived THEN "disabled" ELSE @]
  ELSE IF sku.archived
       THEN [sku EXCEPT !.pairs = {}]
       ELSE [sku EXCEPT !.archived = TRUE, !.status = "archived", !.config = @ + 1]

\* A SKU the form keeps, restores or drops.  A SKU archived by an earlier save
\* is in no list the service writes back: its row stays, and its relations,
\* which the store deletes and writes anew for the listed SKUs only, do not.
Kept(sku, keys) ==
  IF sku.key \in keys
  THEN IF sku.archived
       THEN [sku EXCEPT !.pairs = sku.key, !.archived = FALSE,
                        !.status = "disabled", !.config = @ + 1]
       ELSE [sku EXCEPT !.pairs = sku.key]
  ELSE IF sku.archived
       THEN [sku EXCEPT !.pairs = {}]
       ELSE [sku EXCEPT !.archived = TRUE, !.status = "archived", !.config = @ + 1]

Saved(doc, form) ==
  LET keys  == Keys(doc, form)
      place == Allocation(doc, form)
      key(n) == CHOOSE k \in DOMAIN place : place[k] = n
  IN  [doc EXCEPT
        !.structure = @ + 1,
        !.next      = @ + Cardinality(Added(doc, form)),
        !.dims      = Persisted(doc, form),
        !.skus      = [n \in Sequences |->
                         IF \E k \in DOMAIN place : place[k] = n THEN NewSku(key(n))
                         ELSE IF doc.skus[n] = NoSku THEN NoSku
                         ELSE Kept(doc.skus[n], keys)]]

-----------------------------------------------------------------------------
(* What previewConfiguration shows of a save, from the document as it is.  *)
(* It looks at the dimensions and values of the form only, not at those    *)
(* the document keeps as archived.                                         *)

PreviewSucceeds(doc, form) ==
  LET listed == Resolve(doc, form.specs)
  IN  /\ doc.code = form.code
      /\ \A key \in Keys(doc, form) :
           /\ key \subseteq listed
           /\ DimensionsOf(key) = DimensionsOf(listed)
           /\ Cardinality(key) = Cardinality(DimensionsOf(listed))

Preview(doc, form) ==
  LET keys  == Keys(doc, form)
      named == {n \in Rows(doc) : doc.skus[n].key \in keys}
  IN  [added      |-> keys \ {doc.skus[n].key : n \in Rows(doc)},
       retained   |-> named \cap Active(doc),
       restorable |-> named \ Active(doc),
       archivable |-> Active(doc) \ named]

-----------------------------------------------------------------------------
(* Requests                                                                *)

\* The pairs a client may name: those of the document as it read it, and
\* drafts of new values and of one new dimension.
KnownSpecs(doc) ==
  {s \in UNION {{<<d, v>> : v \in DOMAIN doc.dims[d].values} : d \in DOMAIN doc.dims} :
     ~doc.dims[s[1]].values[s[2]].moved}
DraftSpecs(doc) ==
  {s \in (DOMAIN doc.dims \cup {-1}) \X (-MaxValues .. -1) :
     Cardinality(KnownSpecs(doc)) - s[2] <= MaxValues}

\* Ids the client may give the drafts of the new dimension: of values it has read, whether
\* the form lists them or not, or of its own making.
Namings(doc, specs) ==
  LET drafts == {-s[2] : s \in {t \in specs : t[1] = -1}}
      ids    == {doc.dims[s[1]].values[s[2]].id : s \in KnownSpecs(doc)} \cup OwnIds
  IN  {named \in SUBSET (drafts \X ids) :
         \A m, n \in named : m[1] = n[1] \/ m[2] = n[2] => m = n}

\* Drafts are numbered from -1 without gaps.
Gapless(specs) ==
  \A s \in specs : \A v \in s[2] .. -1 : <<s[1], v>> \in specs

\* A combination of a form: a blank line, a value for each listed dimension,
\* or, by a client that still shows them, for the archived dimensions too.
Choices(doc, specs) ==
  LET pairs == specs \cup KnownSpecs(doc)
      picks(D) == {f \in [D -> {s[2] : s \in pairs}] : \A d \in D : <<d, f[d]>> \in pairs}
  IN  UNION {{{<<d, f[d]>> : d \in D} : f \in picks(D)} :
              D \in {{}, DimensionsOf(specs), DimensionsOf(specs) \cup DOMAIN doc.dims}}

\* What a form may list, sell, and the order it may list old dimensions in.
Lists(doc) ==
  {specs \in SUBSET (KnownSpecs(doc) \cup DraftSpecs(doc)) :
     /\ Gapless(specs)
     /\ \/ specs \subseteq KnownSpecs(doc)
        \/ Cardinality(KnownSpecs(doc) \cup specs) <= MaxValues}
Fillings(doc, specs) ==
  LET lines == Choices(doc, specs)
  IN  IF specs = {} THEN {{}}
      ELSE {{f[i] : i \in 1 .. MaxChoices} : f \in [1 .. MaxChoices -> lines]}
Orders(doc, specs, named) ==
  IF named = {} THEN {{}} ELSE SUBSET (DimensionsOf(specs) \cap DOMAIN doc.dims)

\* The document is read outside a transaction, its version before its SKUs; a
\* version older than the SKUs is refused whenever the save is executed, so a
\* form carries the version it was read at or none.
Saves(spu, code, doc, specs, named) ==
  {[op |-> "save", spu |-> spu, code |-> code, specs |-> specs, choices |-> choices,
    named |-> named, before |-> before, restore |-> restore, expected |-> expected,
    seen |-> doc.next] :
      choices  \in Fillings(doc, specs),
      before   \in Orders(doc, specs, named),
      restore  \in {{}, Rows(doc) \ Active(doc)},
      expected \in {Unversioned, doc.structure}}

Forms(spu, code) ==
  LET doc == IF docs[spu] = NoDocument THEN Created(code) ELSE docs[spu]
      of(specs) == UNION {Saves(spu, code, doc, specs, named) : named \in Namings(doc, specs)}
  IN  UNION {of(specs) : specs \in Lists(doc)}

Send(c, payload) ==
  /\ sent[c] = NoPayload
  /\ sent' = [sent EXCEPT ![c] = payload]
  /\ UNCHANGED <<docs, authority, prepared, answer, applied, forwarded>>

SendSave(c) ==
  /\ "save" \in Operations /\ sent[c] = NoPayload
  /\ \E spu \in Spus, code \in SpuCodes : \E form \in Forms(spu, code) : Send(c, form)

\* A batch of one or two SKUs, each with the version the client has read.
SendPatch(c) ==
  /\ "patch" \in Operations
  /\ \E spu \in {s \in Spus : docs[s] # NoDocument} :
     LET doc == docs[spu]
         one(n) == [sku |-> n, expected |-> doc.skus[n].config]
     IN  \E n, m \in Active(doc) :
        \E expected \in {Unversioned, doc.structure} :
           Send(c, [op |-> "patch", spu |-> spu, expected |-> expected,
                    patches |-> IF n = m THEN <<one(n)>> ELSE <<one(n), one(m)>>])

SendCopy(c) ==
  /\ "copy" \in Operations
  /\ \E spu \in {s \in Spus : docs[s] # NoDocument} :
     \E n, m \in Active(docs[spu]) :
        n # m /\ Send(c, [op |-> "copy", spu |-> spu, source |-> n, target |-> m])

\* The host books one more item than it has read.
SendStock(c) ==
  /\ "stock" \in Operations
  /\ \E spu \in {s \in Spus : docs[s] # NoDocument} :
     \E n \in Active(docs[spu]) :
        Send(c, [op |-> "stock", spu |-> spu, sku |-> n,
                 quantity |-> docs[spu].skus[n].stock + 1,
                 expected |-> docs[spu].skus[n].stockVersion])

\* The same for stock that another system keeps.
SendExternal(c) ==
  /\ "external" \in Operations
  /\ \E spu \in {s \in Spus : docs[s] # NoDocument} :
     \E n \in Active(docs[spu]) :
        Send(c, [op |-> "external", spu |-> spu, sku |-> n])

\* Mutation: either authority may keep stock here.
PrepareAny(c) ==
  /\ sent[c] # NoPayload
  /\ c \notin prepared
  /\ \E a \in Authorities : authority \in {Unbound, a} /\ authority' = a
  /\ sent[c].op = "save" => ~CodeTaken(sent[c].spu, sent[c].code)
  /\ prepared' = prepared \cup {c}
  /\ UNCHANGED <<docs, sent, answer, applied, forwarded>>

\* Bind the authority of the scope, or find it bound to the same one; look for
\* another SPU that holds the code.
Prepare(c) ==
  /\ sent[c] # NoPayload
  /\ c \notin prepared
  /\ \E a \in Authorities :
       /\ authority \in {Unbound, a}
       /\ authority' = a
       /\ sent[c].op = "stock" => a = "local"
       /\ sent[c].op = "external" => a = "external"
  /\ sent[c].op = "save" => ~CodeTaken(sent[c].spu, sent[c].code)
  /\ prepared' = prepared \cup {c}
  /\ UNCHANGED <<docs, sent, answer, applied, forwarded>>

-----------------------------------------------------------------------------
(* Transactions under the lock of the SPU                                  *)

\* What the service remembers of a request is its input; `seen' is not in it, but is kept
\* here for a property.
Fingerprint(p) == IF p.op = "save" THEN [p EXCEPT !.seen = 0] ELSE p
SameInput(c, d) == Fingerprint(sent[c]) = Fingerprint(sent[d])

\* Mutation: the payload is part of the key.
ReceiptsOfPayload(doc, c) == {r \in doc.receipts : r.id = IdOf[c] /\ SameInput(r.command, c)}

Receipts(doc, c) == {r \in doc.receipts : r.id = IdOf[c]}

\* The request is executed for the first time, or its receipt has lapsed.
Opens(c, op) ==
  /\ c \in prepared
  /\ sent[c].op = op
  /\ Receipts(Stored(sent[c]), c) = {}

Commit(c, doc, version) ==
  /\ docs' = [docs EXCEPT ![sent[c].spu] =
       [doc EXCEPT !.receipts = @ \cup {[id |-> IdOf[c], command |-> c, version |-> version]}]]
  /\ answer' = [answer EXCEPT ![c] = version]
  /\ applied' = [applied EXCEPT ![c] = @ + 1]
  /\ prepared' = prepared \ {c}
  /\ UNCHANGED <<authority, sent, forwarded>>

\* A refusal returns the document too, and the store writes it.
Refuse(c, doc) ==
  /\ docs' = [docs EXCEPT ![sent[c].spu] = doc]
  /\ prepared' = prepared \ {c}
  /\ UNCHANGED <<authority, sent, answer, applied, forwarded>>

\* A transaction that throws writes nothing.
Abandon(c) ==
  /\ prepared' = prepared \ {c}
  /\ UNCHANGED <<docs, authority, sent, answer, applied, forwarded>>

\* A commandId with a live receipt: the stored result for the same payload,
\* IDEMPOTENCY_CONFLICT for another one.
Replay(c) ==
  /\ c \in prepared
  /\ \E r \in Receipts(Stored(sent[c]), c) :
       answer' = IF SameInput(r.command, c) THEN [answer EXCEPT ![c] = r.version] ELSE answer
  /\ prepared' = prepared \ {c}
  /\ UNCHANGED <<docs, authority, sent, applied, forwarded>>

\* Mutation: no unique constraint behind the lookup of the code.
SaveUnconstrained(c) ==
  /\ Opens(c, "save")
  /\ LET doc == Stored(sent[c])
     IN  IF Acceptable(doc, sent[c])
         THEN Commit(c, Saved(doc, sent[c]), doc.structure + 1)
         ELSE Refuse(c, doc)

SaveConfiguration(c) ==
  /\ Opens(c, "save")
  /\ LET doc == Stored(sent[c])
     IN  IF CodeTaken(sent[c].spu, doc.code) THEN Abandon(c)      \* the unique constraint
         ELSE IF Acceptable(doc, sent[c])
              THEN Commit(c, Saved(doc, sent[c]), doc.structure + 1)
              ELSE Refuse(c, doc)

\* The SKUs patched before the loop meets one it refuses.
Current(doc, patch) ==
  patch.sku \in Active(doc) /\ doc.skus[patch.sku].config = patch.expected
Reached(doc, patches) ==
  {patches[i].sku : i \in {j \in DOMAIN patches : \A k \in 1 .. j : Current(doc, patches[k])}}

Patched(doc, skus) ==
  [doc EXCEPT !.skus = [n \in Sequences |->
     IF n \in skus THEN [doc.skus[n] EXCEPT !.status = "enabled", !.config = @ + 1]
     ELSE doc.skus[n]]]

PatchSkuConfigurations(c) ==
  /\ Opens(c, "patch")
  /\ LET doc  == docs[sent[c].spu]
         done == IF VersionIsCurrent(doc, sent[c]) THEN Reached(doc, sent[c].patches) ELSE {}
     IN  IF Cardinality(done) = Len(sent[c].patches)
         THEN Commit(c, Patched(doc, done), doc.structure)
         ELSE Refuse(c, Patched(doc, done))

CopySkuConfiguration(c) ==
  /\ Opens(c, "copy")
  /\ LET doc == docs[sent[c].spu]
     IN  IF {sent[c].source, sent[c].target} \subseteq Active(doc)
         THEN Commit(c, [doc EXCEPT !.skus[sent[c].target].config = @ + 1], doc.structure)
         ELSE Refuse(c, doc)

SetLocalInventory(c) ==
  /\ Opens(c, "stock")
  /\ LET p   == sent[c]
         doc == docs[p.spu]
     IN  IF p.sku \in Active(doc) /\ doc.skus[p.sku].stockVersion = p.expected
         THEN Commit(c, [doc EXCEPT !.skus[p.sku].stock = p.quantity,
                                    !.skus[p.sku].stockVersion = @ + 1],
                     p.expected + 1)
         ELSE Refuse(c, doc)

\* The request goes to the host's adapter, without a receipt and without a look
\* at the document: repeated requests and unknown SKUs are the adapter's.
SetExternalInventory(c) ==
  /\ c \in prepared
  /\ sent[c].op = "external"
  /\ forwarded' = forwarded \cup {c}
  /\ prepared' = prepared \ {c}
  /\ UNCHANGED <<docs, authority, sent, answer, applied>>

\* Seven days without a write to the product; once per request in this model.
Lapse(spu) ==
  /\ ReceiptsLapse
  /\ docs[spu] # NoDocument
  /\ docs[spu].receipts # {}
  /\ \A r \in docs[spu].receipts : applied[r.command] < 2
  /\ docs' = [docs EXCEPT ![spu].receipts = {}, ![spu].lapsed = TRUE]
  /\ UNCHANGED <<authority, sent, prepared, answer, applied, forwarded>>

-----------------------------------------------------------------------------
Init ==
  /\ docs = [s \in Spus |-> NoDocument]
  /\ authority = Unbound
  /\ sent = [c \in Commands |-> NoPayload]
  /\ prepared = {}
  /\ answer = [c \in Commands |-> -1]
  /\ applied = [c \in Commands |-> 0]
  /\ forwarded = {}

Next ==
  \/ \E c \in Commands :
       \/ SendSave(c) \/ SendPatch(c) \/ SendCopy(c) \/ SendStock(c) \/ SendExternal(c)
       \/ Prepare(c) \/ Replay(c)
       \/ SaveConfiguration(c) \/ PatchSkuConfigurations(c)
       \/ CopySkuConfiguration(c) \/ SetLocalInventory(c) \/ SetExternalInventory(c)
  \/ \E spu \in Spus : Lapse(spu)

Spec == Init /\ [][Next]_vars

-----------------------------------------------------------------------------
(* Properties                                                              *)

Pairs == (Nat \ {0}) \X (Nat \ {0})
SkuRecord ==
  [key : SUBSET Pairs, pairs : SUBSET Pairs, archived : BOOLEAN,
   status : {"disabled", "enabled", "archived"}, config : Nat \ {0},
   stock : Nat, stockVersion : Nat \ {0}]
Value == [archived : BOOLEAN, moved : BOOLEAN, id : Int \X Int]
Dimension == [archived : BOOLEAN, values : Seq(Value)]
Receipt == [id : Commands, command : Commands, version : Nat]
Document ==
  [code : SpuCodes, structure : Nat, next : 0 .. Capacity, dims : Seq(Dimension),
   skus : [Sequences -> SkuRecord \cup {NoSku}], receipts : SUBSET Receipt, lapsed : BOOLEAN]

Version == Nat \cup {Unversioned}
SkuPatch == [sku : Sequences, expected : Nat]
Payload ==
  [op : {"save"}, spu : Spus, code : SpuCodes, specs : SUBSET (Int \X Int),
   choices : SUBSET SUBSET (Int \X Int), named : SUBSET (Int \X (Int \X Int)),
   before : SUBSET Int, restore : SUBSET Sequences,
   expected : Version, seen : 0 .. Capacity]
  \cup [op : {"patch"}, spu : Spus, expected : Version,
        patches : Seq(SkuPatch)]
  \cup [op : {"copy"}, spu : Spus, source : Sequences, target : Sequences]
  \cup [op : {"stock"}, spu : Spus, sku : Sequences, quantity : Nat, expected : Nat]
  \cup [op : {"external"}, spu : Spus, sku : Sequences]

ASSUME NothingAssumption ==
  NoSku \notin SkuRecord /\ NoDocument \notin Document /\ NoPayload \notin Payload

\* Types, and what the columns and their checks promise: the sequence counter
\* stays in 0..100, the status says archived when the archive mark does.
TypeOK ==
  /\ docs \in [Spus -> Document \cup {NoDocument}]
  /\ \A spu \in Spus : docs[spu] # NoDocument =>
       \A n \in Rows(docs[spu]) :
         docs[spu].skus[n].archived = (docs[spu].skus[n].status = "archived")
  /\ authority \in Authorities \cup {Unbound}
  /\ sent \in [Commands -> Payload \cup {NoPayload}]
  /\ prepared \subseteq Commands
  /\ answer \in [Commands -> Nat \cup {-1}]
  /\ applied \in [Commands -> Nat]
  /\ forwarded \subseteq Commands

\* The numbers given are those below the counter, and a SKU in use has kept its relations.
RowsAreGood ==
  \A spu \in Spus : docs[spu] # NoDocument =>
    \A n \in Rows(docs[spu]) :
      /\ n < docs[spu].next
      /\ ~docs[spu].skus[n].archived => docs[spu].skus[n].pairs = docs[spu].skus[n].key

\* What a client has read lies behind what is stored, and has changed only if the version
\* it names has; what a request that took effect has read is behind for good.
SaveFits(doc, p, times) ==
  /\ IsFiniteSet(p.specs) /\ IsFiniteSet(p.choices)
  /\ \A s \in p.specs : s[1] \in DOMAIN doc.dims \cup {-1}
  /\ p.expected <= doc.structure
  /\ p.expected = doc.structure => p.seen = doc.next
  /\ times > 0 /\ p.expected # Unversioned => p.expected < doc.structure

PatchFits(doc, p, times) ==
  /\ p.patches # << >>
  /\ \A i \in DOMAIN p.patches :
       p.patches[i].sku \in Rows(doc) /\ p.patches[i].expected <= doc.skus[p.patches[i].sku].config
  /\ times > 0 => p.patches[1].expected < doc.skus[p.patches[1].sku].config

StockFits(doc, p, times) ==
  LET sku == doc.skus[p.sku]
  IN  /\ p.sku \in Rows(doc)
      /\ p.expected <= sku.stockVersion
      /\ p.expected = sku.stockVersion => p.quantity = sku.stock + 1
      /\ times > 0 => p.expected < sku.stockVersion

Fits(c) ==
  LET p     == sent[c]
      doc   == docs[p.spu]
      times == applied[c]
  IN  /\ p = NoPayload => times = 0 /\ answer[c] = -1 /\ c \notin prepared
      /\ p # NoPayload =>
           /\ times > 0 \/ p.op # "save" => doc # NoDocument
           /\ p.op = "save"     => SaveFits(Stored(p), p, times)
           /\ p.op = "patch"    => PatchFits(doc, p, times)
           /\ p.op = "stock"    => StockFits(doc, p, times)
           /\ p.op = "external" => times = 0

ReadsLieBehind == \A c \in Commands : Fits(c)

\* ADR 0003, ADR 0006: one combination is one SKU for ever.  Two clients that
\* add the same combination at once, or drop and bring it back, never make two.
OneIdentityPerCombination ==
  \A spu \in Spus : docs[spu] # NoDocument =>
    \A n, m \in Rows(docs[spu]) : docs[spu].skus[n].key = docs[spu].skus[m].key => n = m

\* ADR 0003: a sequence number, once given, stays with its combination: no save
\* deletes the SKU, gives the number to another one or turns the counter back.
KeepsIdentities ==
  \A spu \in Spus : docs[spu] # NoDocument =>
    /\ docs'[spu] # NoDocument
    /\ docs'[spu].code = docs[spu].code
    /\ docs'[spu].next >= docs[spu].next
    /\ \A n \in Rows(docs[spu]) :
         /\ docs'[spu].skus[n] # NoSku
         /\ docs'[spu].skus[n].key = docs[spu].skus[n].key
IdentitiesAreKept == [][KeepsIdentities]_vars

\* ADR 0003: a registered SPU code belongs to one product of the scope, though
\* the service looks it up before the transaction that registers it.
CodesBelongToOneSpu ==
  \A s, t \in Spus :
    docs[s] # NoDocument /\ docs[t] # NoDocument /\ docs[s].code = docs[t].code => s = t

\* A request whose version tells a second execution from the first.
Guarded(payload) ==
  CASE payload.op = "save"  -> payload.expected # Unversioned
    [] payload.op = "patch" -> TRUE
    [] payload.op = "copy"  -> FALSE
    [] payload.op \in {"stock", "external"} -> TRUE

\* No receipt of the product has lapsed yet.
Remembered(spu) == docs[spu] # NoDocument /\ ~docs[spu].lapsed

\* ADR 0008: a request that arrives twice takes effect once, and of two requests
\* with the same commandId one does.  After the receipts have lapsed this holds
\* for the requests that name the version they change, not for the others.
CommandsTakeEffectOnce ==
  /\ \A c \in Commands :
       sent[c] # NoPayload /\ (Guarded(sent[c]) \/ Remembered(sent[c].spu)) => applied[c] <= 1
  /\ \A c, d \in Commands :
       /\ c # d /\ IdOf[c] = IdOf[d] /\ applied[c] > 0 /\ applied[d] > 0
       /\ Remembered(sent[c].spu)
       => sent[c].spu # sent[d].spu

\* ADR 0008: two requests under one commandId that were both answered had the
\* same payload and got the same answer, as long as the receipt lives.
RepliesAgree ==
  \A c, d \in Commands :
    /\ IdOf[c] = IdOf[d] /\ answer[c] # -1 /\ answer[d] # -1
    /\ sent[c].spu = sent[d].spu /\ Remembered(sent[c].spu)
    => SameInput(c, d) /\ answer[c] = answer[d]

\* As long as a receipt lives there is one for every request that took effect or was
\* answered, and only one under each commandId.
Receipted(c) ==
  sent[c] # NoPayload /\ Remembered(sent[c].spu) =>
    /\ applied[c] > 0 => \E r \in docs[sent[c].spu].receipts : r.id = IdOf[c] /\ r.command = c
    /\ answer[c] # -1 => \E r \in docs[sent[c].spu].receipts :
                           r.id = IdOf[c] /\ SameInput(r.command, c) /\ r.version = answer[c]

ReceiptsAreUnique ==
  \A spu \in Spus : docs[spu] # NoDocument =>
    \A r \in docs[spu].receipts :
      /\ r.id = IdOf[r.command] /\ sent[r.command] # NoPayload
      /\ \A q \in docs[spu].receipts : q.id = r.id => q = r

\* What a client that repeats its requests relies on.
CommandsAreIdempotent ==
  /\ CommandsTakeEffectOnce /\ RepliesAgree
  /\ ReceiptsAreUnique /\ \A c \in Commands : Receipted(c)

\* setLocalInventory is a compare-and-set: of the hosts that each book one item
\* over what they read, none overwrites another, in whatever order their
\* requests, retries and late duplicates arrive.
NoLostStock ==
  \A spu \in Spus : docs[spu] # NoDocument =>
    \A n \in Rows(docs[spu]) :
      docs[spu].skus[n].stock =
        Cardinality({c \in Commands : /\ applied[c] > 0
                                      /\ sent[c].op = "stock"
                                      /\ sent[c].spu = spu /\ sent[c].sku = n})

\* ADR 0012: stock is kept here only in a scope bound to the local authority, and
\* handed on only in one bound to the other, however deployments disagree.
StockHasOneAuthority ==
  /\ authority # "local" =>
       \A spu \in Spus : docs[spu] # NoDocument => ~HasStock(docs[spu])
  /\ authority # "external" => forwarded = {}
  /\ \A c \in prepared : /\ sent[c].op = "stock" => authority = "local"
                         /\ sent[c].op = "external" => authority = "external"

\* What the products of a scope share is decided once.
ScopeInv == CodesBelongToOneSpu /\ StockHasOneAuthority

\* What commands may rely on, of their own repetitions and of other products.
CommandInv == CommandsAreIdempotent /\ ScopeInv

\* No stock is left behind a default SKU that specifications have replaced: the
\* change is refused while there is stock, and none can be set afterwards.
NoStockBehindDefault ==
  \A spu \in Spus : docs[spu] # NoDocument =>
    \A n \in Rows(docs[spu]) :
      docs[spu].skus[n].key = {} /\ docs[spu].skus[n].archived => docs[spu].skus[n].stock = 0

\* Identities and stock of one product.
ProductInv ==
  /\ TypeOK /\ RowsAreGood /\ ReadsLieBehind
  /\ OneIdentityPerCombination /\ NoLostStock /\ NoStockBehindDefault

\* ADR 0008: whatever changes what a client has read of a SKU also changes the
\* version the client will be asked for, archiving and restoring included.
MovesVersions ==
  \A spu \in Spus : docs[spu] # NoDocument =>
    \A n \in Rows(docs[spu]) :
      LET old == docs[spu].skus[n]
          new == docs'[spu].skus[n]
      IN  /\ new.status # old.status => new.config > old.config
          /\ new.stock # old.stock => new.stockVersion > old.stockVersion
          /\ new.config >= old.config /\ new.stockVersion >= old.stockVersion
ChangesMoveTheVersion == [][MovesVersions]_vars

\* A reference to a SKU stays good: to the combination it stands for, and with its
\* version to what was read of it.
ReferencesStayGood == IdentitiesAreKept /\ ChangesMoveTheVersion

\* A save that names the structure version it was made from archives no SKU the
\* client had not seen: a save made at the same time is never undone unread.
ArchivesOnlySeen ==
  \A c \in Commands :
    /\ applied'[c] > applied[c]
    /\ sent[c].op = "save" /\ sent[c].expected # Unversioned
    /\ docs[sent[c].spu] # NoDocument
    => \A n \in Active(docs[sent[c].spu]) :
         docs'[sent[c].spu].skus[n].archived => n < sent[c].seen
NothingUnseenIsArchived == [][ArchivesOnlySeen]_vars

\* A save that succeeds does what a preview of it would have shown: it adds,
\* keeps, restores and archives the SKUs the preview puts under these headings.
\* The two compute their combinations from different lists of dimensions.
DoesWhatIsPreviewed ==
  \A c \in Commands :
    /\ applied'[c] > applied[c]
    /\ sent[c].op = "save"
    /\ PreviewSucceeds(Stored(sent[c]), sent[c])
    => LET old   == Stored(sent[c])
           new   == docs'[sent[c].spu]
           shown == Preview(old, sent[c])
           fresh == Rows(new) \ Rows(old)
       IN  /\ {new.skus[n].key : n \in fresh} = shown.added
           /\ Active(new) = shown.retained \cup shown.restorable \cup fresh
           /\ Active(old) \ Active(new) = shown.archivable
SavesDoWhatIsPreviewed == [][DoesWhatIsPreviewed]_vars

\* No save has an effect its author could not foresee.
SavesAreForeseen == NothingUnseenIsArchived /\ SavesDoWhatIsPreviewed

=============================================================================
