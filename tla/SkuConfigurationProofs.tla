----------------------- MODULE SkuConfigurationProofs -----------------------
(***************************************************************************)
(* Machine-checked proofs about SkuConfiguration: what every write of a      *)
(* document keeps of the one before, for any products, requests and forms;   *)
(* and from it what references, repeated requests and stock can rely on.     *)
(***************************************************************************)
EXTENDS SkuConfiguration, FiniteSetTheorems, SequenceTheorems, TLAPS

-----------------------------------------------------------------------------
(* What one document keeps of another                                       *)

\* A document as the store may hold it.
Good(doc) ==
  /\ doc \in Document
  /\ \A n \in Rows(doc) :
       /\ doc.skus[n].archived = (doc.skus[n].status = "archived")
       /\ n < doc.next
       /\ ~doc.skus[n].archived => doc.skus[n].pairs = doc.skus[n].key
       /\ doc.skus[n].key = {} /\ doc.skus[n].archived => doc.skus[n].stock = 0
  /\ \A n, m \in Rows(doc) : doc.skus[n].key = doc.skus[m].key => n = m

\* A SKU that was changed, and its versions with it.
Follows(new, old) ==
  /\ new.key = old.key
  /\ new.config >= old.config /\ new.stockVersion >= old.stockVersion
  /\ new.status # old.status => new.config > old.config
  /\ new.stock # old.stock => new.stockVersion > old.stockVersion

\* No write takes back what a client may have read.
Grows(new, old) ==
  /\ new.code = old.code
  /\ new.structure >= old.structure
  /\ new.structure = old.structure => new.next = old.next
  /\ new.next >= old.next
  /\ DOMAIN old.dims \subseteq DOMAIN new.dims
  /\ \A n \in Rows(old) : n \in Rows(new) /\ Follows(new.skus[n], old.skus[n])

\* Stock stays as it is, and a new SKU has none.
StockStays(new, old) ==
  \A n \in Rows(new) : new.skus[n].stock = IF n \in Rows(old) THEN old.skus[n].stock ELSE 0

\* The fields of a good document.
LEMMA DocumentFacts ==
  ASSUME NEW doc, Good(doc)
  PROVE  /\ doc.code \in SpuCodes /\ doc.structure \in Nat /\ doc.next \in 0 .. Capacity
         /\ doc.next \in Nat /\ doc.dims \in Seq(Dimension)
         /\ doc.skus \in [Sequences -> SkuRecord \cup {NoSku}]
         /\ doc.receipts \in SUBSET Receipt /\ doc.lapsed \in BOOLEAN
         /\ Rows(doc) \subseteq Sequences /\ Active(doc) \subseteq Rows(doc)
         /\ \A n \in Rows(doc) : doc.skus[n] \in SkuRecord
BY CapacityAssumption DEF Good, Document, Rows, Active

\* The fields of a SKU.
LEMMA SkuFacts ==
  ASSUME NEW sku \in SkuRecord
  PROVE  /\ sku # NoSku /\ sku.key \in SUBSET Pairs /\ sku.pairs \in SUBSET Pairs
         /\ sku.archived \in BOOLEAN /\ sku.status \in {"disabled", "enabled", "archived"}
         /\ sku.config \in Nat /\ sku.config > 0 /\ sku.stock \in Nat
         /\ sku.stockVersion \in Nat /\ sku.stockVersion > 0
BY NothingAssumption DEF SkuRecord

\* What a patch and a setting of stock make of a SKU.
LEMMA ChangedSku ==
  ASSUME NEW sku \in SkuRecord, NEW quantity \in Nat
  PROVE  /\ [sku EXCEPT !.status = "enabled", !.config = @ + 1] \in SkuRecord
         /\ [sku EXCEPT !.status = "enabled", !.config = @ + 1].archived = sku.archived
         /\ [sku EXCEPT !.stock = quantity, !.stockVersion = @ + 1] \in SkuRecord
         /\ [sku EXCEPT !.stock = quantity, !.stockVersion = @ + 1].archived = sku.archived
<1>1. [sku EXCEPT !.status = "enabled"] \in SkuRecord
  BY DEF SkuRecord
<1>2. PICK f \in SkuRecord : f = [sku EXCEPT !.status = "enabled"]
  BY <1>1
<1>3. [f EXCEPT !.config = @ + 1] \in SkuRecord
  BY DEF SkuRecord
<1>4. [sku EXCEPT !.status = "enabled", !.config = @ + 1] \in SkuRecord
  BY <1>2, <1>3 DEF SkuRecord
<1>5. [sku EXCEPT !.stock = quantity] \in SkuRecord
  BY DEF SkuRecord
<1>6. PICK g \in SkuRecord : g = [sku EXCEPT !.stock = quantity]
  BY <1>5
<1>7. [g EXCEPT !.stockVersion = @ + 1] \in SkuRecord
  BY DEF SkuRecord
<1>8. [sku EXCEPT !.stock = quantity, !.stockVersion = @ + 1] \in SkuRecord
  BY <1>6, <1>7 DEF SkuRecord
<1>9. [sku EXCEPT !.status = "enabled", !.config = @ + 1].archived = sku.archived
  BY DEF SkuRecord
<1>10. [sku EXCEPT !.stock = quantity, !.stockVersion = @ + 1].archived = sku.archived
  BY DEF SkuRecord
<1> QED  BY <1>4, <1>8, <1>9, <1>10

\* A SKU left as it is.
LEMMA FollowsItself ==
  ASSUME NEW sku \in SkuRecord
  PROVE  Follows(sku, sku)
BY SkuFacts DEF Follows

\* A document left as it is.
LEMMA GrowsItself ==
  ASSUME NEW doc, Good(doc)
  PROVE  Grows(doc, doc) /\ StockStays(doc, doc)
BY DocumentFacts, FollowsItself DEF Grows, StockStays

\* A new document has nothing in it.
LEMMA CreatedIsGood ==
  ASSUME NEW code \in SpuCodes
  PROVE  /\ Good(Created(code)) /\ Rows(Created(code)) = {}
         /\ Created(code).code = code /\ Created(code).structure = 0 /\ Created(code).next = 0
         /\ Created(code).dims = << >> /\ Created(code).receipts = {}
         /\ Created(code).lapsed = FALSE
<1>1. /\ Created(code).code = code /\ Created(code).structure = 0 /\ Created(code).next = 0
      /\ Created(code).dims = << >> /\ Created(code).receipts = {}
      /\ Created(code).lapsed = FALSE /\ Created(code).skus = [n \in Sequences |-> NoSku]
  BY DEF Created
<1>2. << >> \in Seq(Dimension) /\ 0 \in 0 .. Capacity
  BY CapacityAssumption
<1>3. Created(code) \in Document
  BY <1>2 DEF Created, Document
<1>4. Rows(Created(code)) = {}
  BY <1>1 DEF Rows
<1> QED  BY <1>1, <1>3, <1>4 DEF Good

-----------------------------------------------------------------------------
(* Writes that change SKUs one by one                                       *)

\* A write that replaces SKUs by ones that follow them.
LEMMA ReplaceGrows ==
  ASSUME NEW doc, Good(doc), NEW new \in Document,
         new.code = doc.code, new.structure = doc.structure, new.next = doc.next,
         new.dims = doc.dims,
         \A n \in Sequences : new.skus[n] = NoSku <=> doc.skus[n] = NoSku,
         \A n \in Rows(doc) :
           /\ Follows(new.skus[n], doc.skus[n])
           /\ new.skus[n].archived = doc.skus[n].archived
           /\ new.skus[n].archived = (new.skus[n].status = "archived")
           /\ new.skus[n].pairs = doc.skus[n].pairs
           /\ new.skus[n].archived => new.skus[n].stock = doc.skus[n].stock
  PROVE  Good(new) /\ Grows(new, doc) /\ Rows(new) = Rows(doc)
<1>1. Rows(new) = Rows(doc)
  BY DEF Rows
<1>2. Good(new)
  BY <1>1 DEF Good, Follows
<1>3. Grows(new, doc)
  BY <1>1, DocumentFacts DEF Grows
<1> QED  BY <1>1, <1>2, <1>3

\* A receipt changes nothing else.
LEMMA ReceiptAdded ==
  ASSUME NEW doc, NEW new, Good(new), Grows(new, doc), NEW r \in Receipt
  PROVE  LET full == [new EXCEPT !.receipts = @ \cup {r}]
         IN  /\ Good(full) /\ Grows(full, doc) /\ Rows(full) = Rows(new) /\ full.skus = new.skus
             /\ full.receipts = new.receipts \cup {r} /\ full.lapsed = new.lapsed
             /\ full.structure = new.structure /\ full.next = new.next /\ full.code = new.code
<1> DEFINE full == [new EXCEPT !.receipts = @ \cup {r}]
<1>1. new \in Document
  BY DEF Good
<1>2. /\ full.skus = new.skus /\ full.receipts = new.receipts \cup {r}
      /\ full.lapsed = new.lapsed /\ full.code = new.code /\ full.structure = new.structure
      /\ full.next = new.next /\ full.dims = new.dims
  BY <1>1 DEF Document
<1>3. full \in Document
  BY <1>1 DEF Document
<1> HIDE DEF full
<1>4. Rows(full) = Rows(new)
  BY <1>2 DEF Rows
<1>5. Good(full)
  BY <1>2, <1>3, <1>4 DEF Good
<1>6. Grows(full, doc)
  BY <1>2, <1>4 DEF Grows
<1> QED  BY <1>2, <1>4, <1>5, <1>6 DEF full

\* A list of patches: each SKU it reached has a new configuration version.
LEMMA PatchedGrows ==
  ASSUME NEW doc, Good(doc), NEW skus \in SUBSET Active(doc)
  PROVE  LET new == Patched(doc, skus)
         IN  /\ Good(new) /\ Grows(new, doc) /\ Rows(new) = Rows(doc) /\ StockStays(new, doc)
             /\ new.receipts = doc.receipts /\ new.lapsed = doc.lapsed
             /\ new.structure = doc.structure
             /\ \A n \in skus : new.skus[n].config = doc.skus[n].config + 1
<1> DEFINE sku(n) == [doc.skus[n] EXCEPT !.status = "enabled", !.config = @ + 1]
           new == Patched(doc, skus)
<1>1. doc \in Document /\ Active(doc) \subseteq Rows(doc) /\ Rows(doc) \subseteq Sequences
  BY DocumentFacts DEF Good
<1>2. /\ new.code = doc.code /\ new.structure = doc.structure /\ new.next = doc.next
      /\ new.dims = doc.dims /\ new.receipts = doc.receipts /\ new.lapsed = doc.lapsed
      /\ \A n \in Sequences : new.skus[n] = IF n \in skus THEN sku(n) ELSE doc.skus[n]
  BY <1>1 DEF Patched, Document
<1>3. ASSUME NEW n \in Rows(doc)
      PROVE  /\ sku(n) \in SkuRecord /\ sku(n).key = doc.skus[n].key
             /\ sku(n).pairs = doc.skus[n].pairs /\ sku(n).archived = doc.skus[n].archived
             /\ sku(n).status = "enabled" /\ sku(n).config = doc.skus[n].config + 1
             /\ sku(n).stock = doc.skus[n].stock
             /\ sku(n).stockVersion = doc.skus[n].stockVersion
  <2>1. doc.skus[n] \in SkuRecord
    BY DocumentFacts
  <2>2. sku(n) \in SkuRecord
    BY <2>1, ChangedSku
  <2>3. /\ sku(n).key = doc.skus[n].key /\ sku(n).pairs = doc.skus[n].pairs
        /\ sku(n).status = "enabled" /\ sku(n).config = doc.skus[n].config + 1
        /\ sku(n).stock = doc.skus[n].stock
        /\ sku(n).stockVersion = doc.skus[n].stockVersion
    BY <2>1 DEF SkuRecord
  <2>4. sku(n).archived = doc.skus[n].archived
    BY <2>1, ChangedSku
  <2> QED  BY <2>2, <2>3, <2>4
<1> HIDE DEF sku
<1>4. \A n \in Rows(doc) : doc.skus[n] \in SkuRecord
  BY DocumentFacts
<1>5. \A n \in skus : n \in Rows(doc) /\ doc.skus[n].archived = FALSE
  BY <1>1, <1>4, SkuFacts DEF Active
<1>6. new \in Document
  <2>1. [n \in Sequences |-> IF n \in skus THEN sku(n) ELSE doc.skus[n]]
          \in [Sequences -> SkuRecord \cup {NoSku}]
    BY <1>1, <1>3, <1>5 DEF Document
  <2> QED  BY <1>1, <2>1 DEF Patched, Document, sku
<1> HIDE DEF new
<1>7. \A n \in Sequences : new.skus[n] = NoSku <=> doc.skus[n] = NoSku
  BY <1>2, <1>3, <1>4, <1>5, SkuFacts
<1>8. ASSUME NEW n \in Rows(doc)
      PROVE  /\ Follows(new.skus[n], doc.skus[n])
             /\ new.skus[n].archived = doc.skus[n].archived
             /\ new.skus[n].archived = (new.skus[n].status = "archived")
             /\ new.skus[n].pairs = doc.skus[n].pairs
             /\ new.skus[n].stock = doc.skus[n].stock
  <2>1. CASE n \in skus
    <3>1. new.skus[n] = sku(n) /\ doc.skus[n].archived = FALSE
      BY <1>1, <1>2, <1>5, <2>1
    <3>2. doc.skus[n].config \in Nat /\ doc.skus[n].stockVersion \in Nat
      BY <1>4, SkuFacts
    <3>3. Follows(new.skus[n], doc.skus[n])
      BY <1>3, <3>1, <3>2 DEF Follows
    <3>4. new.skus[n].archived = FALSE /\ new.skus[n].status = "enabled"
      BY <1>3, <3>1
    <3> QED  BY <1>3, <3>1, <3>3, <3>4
  <2>2. CASE n \notin skus
    BY <1>1, <1>2, <1>4, <2>2, FollowsItself DEF Good
  <2> QED  BY <2>1, <2>2
<1>9. Good(new) /\ Grows(new, doc) /\ Rows(new) = Rows(doc)
  BY <1>2, <1>6, <1>7, <1>8, ReplaceGrows
<1>10. StockStays(new, doc)
  BY <1>8, <1>9 DEF StockStays
<1>11. \A n \in skus : new.skus[n].config = doc.skus[n].config + 1
  BY <1>1, <1>2, <1>3, <1>5
<1> QED  BY <1>2, <1>9, <1>10, <1>11 DEF new

\* Copied settings are left out of the model: they count as a new configuration.
LEMMA CopiedGrows ==
  ASSUME NEW doc, Good(doc), NEW target \in Active(doc)
  PROVE  LET new == [doc EXCEPT !.skus[target].config = @ + 1]
         IN  /\ Good(new) /\ Grows(new, doc) /\ Rows(new) = Rows(doc) /\ StockStays(new, doc)
             /\ new.receipts = doc.receipts /\ new.lapsed = doc.lapsed
             /\ new.structure = doc.structure
<1> DEFINE sku == [doc.skus[target] EXCEPT !.config = @ + 1]
           new == [doc EXCEPT !.skus[target].config = @ + 1]
<1>1. /\ doc \in Document /\ target \in Rows(doc) /\ target \in Sequences
      /\ doc.skus[target] \in SkuRecord
      /\ doc.skus \in [Sequences -> SkuRecord \cup {NoSku}]
  BY DocumentFacts DEF Good
<1>2. /\ new.code = doc.code /\ new.structure = doc.structure /\ new.next = doc.next
      /\ new.dims = doc.dims /\ new.receipts = doc.receipts /\ new.lapsed = doc.lapsed
      /\ new.skus = [doc.skus EXCEPT ![target] = sku]
  BY <1>1 DEF Document
<1>3. /\ sku \in SkuRecord /\ sku.key = doc.skus[target].key
      /\ sku.pairs = doc.skus[target].pairs /\ sku.archived = doc.skus[target].archived
      /\ sku.status = doc.skus[target].status /\ sku.config = doc.skus[target].config + 1
      /\ sku.stock = doc.skus[target].stock
      /\ sku.stockVersion = doc.skus[target].stockVersion
  BY <1>1 DEF SkuRecord
<1>4. new \in Document
  BY <1>1, <1>3 DEF Document
<1> HIDE DEF new, sku
<1>5. \A n \in Rows(doc) : doc.skus[n] \in SkuRecord
  BY DocumentFacts
<1>6. \A n \in Sequences : new.skus[n] = IF n = target THEN sku ELSE doc.skus[n]
  BY <1>1, <1>2
<1>7. \A n \in Sequences : new.skus[n] = NoSku <=> doc.skus[n] = NoSku
  BY <1>1, <1>3, <1>6, SkuFacts
<1>8. ASSUME NEW n \in Rows(doc)
      PROVE  /\ Follows(new.skus[n], doc.skus[n])
             /\ new.skus[n].archived = doc.skus[n].archived
             /\ new.skus[n].archived = (new.skus[n].status = "archived")
             /\ new.skus[n].pairs = doc.skus[n].pairs
             /\ new.skus[n].stock = doc.skus[n].stock
  <2>1. n \in Sequences
    BY DEF Rows
  <2>2. CASE n = target
    <3>1. new.skus[n] = sku
      BY <1>6, <2>1, <2>2
    <3>2. doc.skus[n].config \in Nat /\ doc.skus[n].stockVersion \in Nat
      BY <1>5, SkuFacts
    <3> QED  BY <1>3, <2>2, <3>1, <3>2 DEF Follows, Good
  <2>3. CASE n # target
    BY <1>5, <1>6, <2>1, <2>3, FollowsItself DEF Good
  <2> QED  BY <2>2, <2>3
<1>9. Good(new) /\ Grows(new, doc) /\ Rows(new) = Rows(doc)
  BY <1>2, <1>4, <1>7, <1>8, ReplaceGrows
<1>10. StockStays(new, doc)
  BY <1>8, <1>9 DEF StockStays
<1> QED  BY <1>2, <1>9, <1>10 DEF new

\* Stock is set of a SKU in use, with a new version.
Stocked(doc, target, quantity) ==
  [doc EXCEPT !.skus[target].stock = quantity, !.skus[target].stockVersion = @ + 1]

\* A setting of stock changes one SKU.
LEMMA StockedGrows ==
  ASSUME NEW doc, Good(doc), NEW target \in Active(doc), NEW quantity \in Nat
  PROVE  LET new == Stocked(doc, target, quantity)
         IN  /\ Good(new) /\ Grows(new, doc) /\ Rows(new) = Rows(doc)
             /\ new.receipts = doc.receipts /\ new.lapsed = doc.lapsed
             /\ new.structure = doc.structure
             /\ \A n \in Rows(doc) : n # target => new.skus[n].stock = doc.skus[n].stock
             /\ new.skus[target].stock = quantity
             /\ new.skus[target].stockVersion = doc.skus[target].stockVersion + 1
<1> DEFINE sku == [doc.skus[target] EXCEPT !.stock = quantity, !.stockVersion = @ + 1]
           new == Stocked(doc, target, quantity)
<1>1. /\ doc \in Document /\ target \in Rows(doc) /\ target \in Sequences
      /\ doc.skus[target] \in SkuRecord /\ doc.skus[target].archived = FALSE
      /\ doc.skus \in [Sequences -> SkuRecord \cup {NoSku}]
  BY DocumentFacts, SkuFacts DEF Good, Active
<1>2. /\ new.code = doc.code /\ new.structure = doc.structure /\ new.next = doc.next
      /\ new.dims = doc.dims /\ new.receipts = doc.receipts /\ new.lapsed = doc.lapsed
      /\ new.skus = [doc.skus EXCEPT ![target] = sku]
  BY <1>1 DEF Document, SkuRecord, Stocked
<1>3. /\ sku \in SkuRecord /\ sku.key = doc.skus[target].key
      /\ sku.pairs = doc.skus[target].pairs /\ sku.archived = doc.skus[target].archived
      /\ sku.status = doc.skus[target].status /\ sku.config = doc.skus[target].config
      /\ sku.stock = quantity
      /\ sku.stockVersion = doc.skus[target].stockVersion + 1
  <2>1. sku \in SkuRecord
    BY <1>1, ChangedSku
  <2>2. /\ sku.key = doc.skus[target].key /\ sku.pairs = doc.skus[target].pairs
        /\ sku.status = doc.skus[target].status /\ sku.config = doc.skus[target].config
        /\ sku.stock = quantity /\ sku.stockVersion = doc.skus[target].stockVersion + 1
    BY <1>1 DEF SkuRecord
  <2>3. sku.archived = doc.skus[target].archived
    BY <1>1, ChangedSku
  <2> QED  BY <2>1, <2>2, <2>3
<1>4. new \in Document
  BY <1>1, <1>3 DEF Document, Stocked
<1> HIDE DEF new, sku
<1>5. \A n \in Rows(doc) : doc.skus[n] \in SkuRecord
  BY DocumentFacts
<1>6. \A n \in Sequences : new.skus[n] = IF n = target THEN sku ELSE doc.skus[n]
  BY <1>1, <1>2
<1>7. \A n \in Sequences : new.skus[n] = NoSku <=> doc.skus[n] = NoSku
  BY <1>1, <1>3, <1>6, SkuFacts
<1>8. ASSUME NEW n \in Rows(doc)
      PROVE  /\ Follows(new.skus[n], doc.skus[n])
             /\ new.skus[n].archived = doc.skus[n].archived
             /\ new.skus[n].archived = (new.skus[n].status = "archived")
             /\ new.skus[n].pairs = doc.skus[n].pairs
             /\ new.skus[n].archived => new.skus[n].stock = doc.skus[n].stock
             /\ n # target => new.skus[n].stock = doc.skus[n].stock
  <2>1. n \in Sequences
    BY DEF Rows
  <2>2. CASE n = target
    <3>1. new.skus[n] = sku
      BY <1>6, <2>1, <2>2
    <3>2. doc.skus[n].config \in Nat /\ doc.skus[n].stockVersion \in Nat
      BY <1>5, SkuFacts
    <3> QED  BY <1>1, <1>3, <2>2, <3>1, <3>2 DEF Follows, Good
  <2>3. CASE n # target
    BY <1>5, <1>6, <2>1, <2>3, FollowsItself DEF Good
  <2> QED  BY <2>2, <2>3
<1>9. Good(new) /\ Grows(new, doc) /\ Rows(new) = Rows(doc)
  BY <1>2, <1>4, <1>7, <1>8, ReplaceGrows
<1> QED  BY <1>1, <1>2, <1>3, <1>6, <1>8, <1>9 DEF new

-----------------------------------------------------------------------------
(* A save                                                                   *)

\* An image of a finite set is finite.
LEMMA ImageFinite ==
  ASSUME NEW S, IsFiniteSet(S), NEW f, DOMAIN f = S
  PROVE  IsFiniteSet({f[x] : x \in S})
<1> DEFINE T == {f[x] : x \in S}
           g == [x \in S |-> f[x]]
<1>1. g \in Surjection(S, T)
  BY DEF Surjection
<1> QED  BY <1>1, FS_Surjection

\* A form names finitely many pairs, drafts resolved.
LEMMA ResolveFinite ==
  ASSUME NEW doc, NEW pairs, IsFiniteSet(pairs)
  PROVE  IsFiniteSet(Resolve(doc, pairs))
<1> DEFINE f == [s \in pairs |-> <<DimensionId(doc, s[1]), ValueId(doc, s[1], s[2])>>]
<1>1. IsFiniteSet({f[s] : s \in pairs})
  BY ImageFinite
<1>2. {f[s] : s \in pairs} = Resolve(doc, pairs)
  BY DEF Resolve
<1> QED  BY <1>1, <1>2

\* The dimensions that some pairs are about.
LEMMA ResolvedDimensions ==
  ASSUME NEW doc, NEW pairs
  PROVE  DimensionsOf(Resolve(doc, pairs)) = {DimensionId(doc, s[1]) : s \in pairs}
<1> DEFINE pair(s) == <<DimensionId(doc, s[1]), ValueId(doc, s[1], s[2])>>
<1>1. \A s : pair(s)[1] = DimensionId(doc, s[1])
  OBVIOUS
<1>2. Resolve(doc, pairs) = {pair(s) : s \in pairs}
  BY DEF Resolve
<1> HIDE DEF pair
<1>3. {t[1] : t \in {pair(s) : s \in pairs}} = {pair(s)[1] : s \in pairs}
  BY Zenon
<1>4. DimensionsOf(Resolve(doc, pairs)) = {pair(s)[1] : s \in pairs}
  BY <1>2, <1>3 DEF DimensionsOf
<1> QED  BY <1>1, <1>4, Zenon

\* It sells finitely many combinations.
LEMMA KeysFinite ==
  ASSUME NEW doc, NEW form, IsFiniteSet(form.choices)
  PROVE  IsFiniteSet(Keys(doc, form))
<1>1. CASE form.specs = {}
  BY <1>1, FS_Singleton DEF Keys
<1>2. CASE form.specs # {}
  <2> DEFINE f == [choice \in form.choices |-> Resolve(doc, choice)]
  <2>1. IsFiniteSet({f[choice] : choice \in form.choices})
    BY ImageFinite
  <2>2. {f[choice] : choice \in form.choices} = Keys(doc, form)
    BY <1>2 DEF Keys
  <2> QED  BY <2>1, <2>2
<1> QED  BY <1>1, <1>2

\* It adds finitely many SKUs, counted by a natural number.
LEMMA AddedFinite ==
  ASSUME NEW doc, NEW form, IsFiniteSet(form.choices)
  PROVE  /\ IsFiniteSet(Added(doc, form)) /\ Cardinality(Added(doc, form)) \in Nat
         /\ Added(doc, form) \subseteq Keys(doc, form)
<1>1. Added(doc, form) \subseteq Keys(doc, form)
  BY DEF Added
<1> QED  BY <1>1, KeysFinite, FS_Subset, FS_CardinalityType

\* What a save may name: specifications of the document as it was read, or new ones.
SpecsFit(doc, form) ==
  /\ IsFiniteSet(form.specs) /\ IsFiniteSet(form.choices)
  /\ \A s \in form.specs : s[1] \in DOMAIN doc.dims \cup {-1}
  /\ form.named \in SUBSET (Int \X (Int \X Int))

\* The values of a dimension can be counted.
LEMMA ValueCountFacts ==
  ASSUME NEW doc, Good(doc), NEW listed, IsFiniteSet(listed), NEW d
  PROVE  ValueCount(doc, listed, d) \in Nat
<1> DEFINE some == {t \in listed : t[1] = d}
           f == [s \in some |-> s[2]]
           kept == IF d \in DOMAIN doc.dims THEN DOMAIN doc.dims[d].values ELSE {}
<1>1. IsFiniteSet(some)
  BY FS_Subset
<1>2. IsFiniteSet({f[s] : s \in some})
  BY <1>1, ImageFinite
<1>3. {f[s] : s \in some} = {s[2] : s \in some}
  OBVIOUS
<1>4. IsFiniteSet(kept)
  <2>1. CASE d \in DOMAIN doc.dims
    <3>1. doc.dims[d] \in Dimension
      BY <2>1, DocumentFacts
    <3>2. doc.dims[d].values \in Seq(Value)
      BY <3>1 DEF Dimension
    <3>3. PICK k \in Nat : DOMAIN doc.dims[d].values = 1 .. k
      BY <3>2
    <3> QED  BY <2>1, <3>3, FS_Interval
  <2>2. CASE d \notin DOMAIN doc.dims
    BY <2>2, FS_EmptySet
  <2> QED  BY <2>1, <2>2
<1>5. IsFiniteSet({s[2] : s \in some} \cup kept)
  BY <1>2, <1>3, <1>4, FS_Union
<1> QED  BY <1>5, FS_CardinalityType DEF ValueCount

\* A value has an id.
LEMMA NewIdFacts ==
  ASSUME NEW doc, NEW form, SpecsFit(doc, form), NEW d \in Int, NEW v \in Int
  PROVE  NewId(doc, form, d, v) \in Int \X Int
<1>1. CASE d \notin DOMAIN doc.dims /\ \E n \in form.named : n[1] = v
  <2>1. PICK n \in form.named : n = CHOOSE m \in form.named : m[1] = v
    BY <1>1
  <2>2. n \in Int \X (Int \X Int)
    BY DEF SpecsFit
  <2> QED  BY <1>1, <2>1, <2>2 DEF NewId
<1>2. CASE ~(d \notin DOMAIN doc.dims /\ \E n \in form.named : n[1] = v)
  BY <1>2 DEF NewId
<1> QED  BY <1>1, <1>2

\* The specifications stay a list, which only grows.
LEMMA DimensionsFacts ==
  ASSUME NEW doc, Good(doc), NEW form, SpecsFit(doc, form)
  PROVE  /\ Dimensions(doc, form) \in Seq(Dimension)
         /\ DOMAIN doc.dims \subseteq DOMAIN Dimensions(doc, form)
         /\ form.specs # {} => DOMAIN Dimensions(doc, form) # {}
<1> DEFINE listed == Resolve(doc, form.specs)
           ids == DimensionsOf(listed)
           old(d, v) == d \in DOMAIN doc.dims /\ v \in DOMAIN doc.dims[d].values
           value(d, v) == [archived |-> <<d, v>> \notin listed,
                           moved    |-> old(d, v) /\ doc.dims[d].values[v].moved,
                           id       |-> IF old(d, v) THEN doc.dims[d].values[v].id
                                                     ELSE NewId(doc, form, d, v)]
           dim(d) == [archived |-> d \notin ids,
                      values   |-> [v \in 1 .. ValueCount(doc, listed, d) |-> value(d, v)]]
<1>1. PICK k \in Nat : k = Len(doc.dims) /\ DOMAIN doc.dims = 1 .. k
  BY DocumentFacts
<1>2. ids = {DimensionId(doc, s[1]) : s \in form.specs}
  BY ResolvedDimensions
<1>3. \A s \in form.specs : DimensionId(doc, s[1]) \in 1 .. k + 1
  <2> SUFFICES ASSUME NEW s \in form.specs
               PROVE  DimensionId(doc, s[1]) \in 1 .. k + 1
    OBVIOUS
  <2>1. s[1] \in 1 .. k \cup {-1}
    BY <1>1 DEF SpecsFit
  <2>2. CASE s[1] \in 1 .. k
    BY <2>2 DEF DimensionId
  <2>3. CASE s[1] = -1
    BY <1>1, <2>3 DEF DimensionId
  <2> QED  BY <2>1, <2>2, <2>3
<1>4. ids \subseteq 1 .. k + 1
  BY <1>2, <1>3
<1>5. PICK n \in Nat : 1 .. k \cup ids = 1 .. n
  <2>1. CASE k + 1 \in ids
    <3>1. 1 .. k \cup ids = 1 .. k + 1
      BY <1>4, <2>1
    <3> QED  BY <3>1
  <2>2. CASE k + 1 \notin ids
    <3>1. 1 .. k \cup ids = 1 .. k
      BY <1>4, <2>2
    <3> QED  BY <3>1
  <2> QED  BY <2>1, <2>2
<1>6. IsFiniteSet(listed)
  BY ResolveFinite DEF SpecsFit
<1>v. ASSUME NEW d \in Int, NEW v \in Int PROVE value(d, v) \in Value
  <2>1. PICK id : id = value(d, v).id
    OBVIOUS
  <2>2. ASSUME old(d, v) PROVE id \in Int \X Int
    <3>1. doc.dims[d] \in Dimension
      BY <2>2, DocumentFacts
    <3>2. doc.dims[d].values \in Seq(Value)
      BY <3>1 DEF Dimension
    <3>3. doc.dims[d].values[v] \in Value
      BY <2>2, <3>2
    <3> QED  BY <2>1, <2>2, <3>3 DEF Value
  <2>3. ASSUME ~old(d, v) PROVE id \in Int \X Int
    BY <2>1, <2>3, NewIdFacts
  <2>4. id \in Int \X Int
    BY <2>2, <2>3
  <2> QED  BY <2>1, <2>4 DEF Value
<1>8. Dimensions(doc, form) = [d \in 1 .. n |-> dim(d)]
  BY <1>1, <1>5 DEF Dimensions
<1> HIDE DEF value
<1>7. \A d \in 1 .. n : dim(d) \in Dimension
  <2> SUFFICES ASSUME NEW d \in 1 .. n PROVE dim(d) \in Dimension
    OBVIOUS
  <2>1. PICK m \in Nat : m = ValueCount(doc, listed, d)
    BY <1>6, ValueCountFacts
  <2>2. \A v \in 1 .. m : value(d, v) \in Value
    BY <1>v
  <2>3. [v \in 1 .. m |-> value(d, v)] \in Seq(Value)
    BY <2>2, IsASeq
  <2> QED  BY <2>1, <2>3 DEF Dimension
<1> HIDE DEF dim
<1>9. [d \in 1 .. n |-> dim(d)] \in Seq(Dimension)
  BY <1>7, IsASeq
<1>10. form.specs # {} => ids # {}
  BY <1>2
<1> HIDE DEF ids
<1>11. form.specs # {} => 1 .. n # {}
  BY <1>5, <1>10
<1> QED  BY <1>1, <1>5, <1>8, <1>9, <1>11

\* So they are when they are stored.
LEMMA PersistedFacts ==
  ASSUME NEW doc, Good(doc), NEW form, SpecsFit(doc, form)
  PROVE  /\ Persisted(doc, form) \in Seq(Dimension)
         /\ DOMAIN doc.dims \subseteq DOMAIN Persisted(doc, form)
<1>1. PICK dims \in Seq(Dimension) : dims = Dimensions(doc, form) /\ DOMAIN doc.dims \subseteq DOMAIN dims
  BY DimensionsFacts
<1>2. PICK n \in Nat : DOMAIN dims = 1 .. n
  OBVIOUS
<1> DEFINE loses(d, v) == \E e \in Holders(dims, dims[d].values[v].id) :
                            Turn(doc, form, e) > Turn(doc, form, d)
           value(d, v) == [archived |-> dims[d].values[v].archived,
                           moved    |-> dims[d].values[v].moved \/ loses(d, v),
                           id       |-> dims[d].values[v].id]
           dim(d) == [archived |-> dims[d].archived,
                      values   |-> [v \in DOMAIN dims[d].values |-> value(d, v)]]
<1>3. Persisted(doc, form) = [d \in 1 .. n |-> dim(d)]
  BY <1>1, <1>2 DEF Persisted
<1> HIDE DEF loses
<1>4. ASSUME NEW d \in 1 .. n PROVE dim(d) \in Dimension
  <2>1. dims[d] \in Dimension
    BY <1>2
  <2>2. dims[d].archived \in BOOLEAN /\ dims[d].values \in Seq(Value)
    BY <2>1 DEF Dimension
  <2>3. PICK m \in Nat : DOMAIN dims[d].values = 1 .. m
    BY <2>2
  <2>4. \A v \in 1 .. m : value(d, v) \in Value
    <3>1. \A v \in 1 .. m : dims[d].values[v] \in Value
      BY <2>2, <2>3
    <3> QED  BY <3>1 DEF Value
  <2> HIDE DEF value
  <2>5. [v \in 1 .. m |-> value(d, v)] \in Seq(Value)
    BY <2>4, IsASeq
  <2> QED  BY <2>2, <2>3, <2>5 DEF Dimension
<1> HIDE DEF dim
<1>5. [d \in 1 .. n |-> dim(d)] \in Seq(Dimension)
  BY <1>4, IsASeq
<1> QED  BY <1>1, <1>2, <1>3, <1>5

\* A finite set can be numbered from any number on.
LEMMA PlaceExists ==
  ASSUME NEW S, IsFiniteSet(S), NEW first \in Nat
  PROVE  \E place \in [S -> first .. first + Cardinality(S) - 1] :
           \A k, l \in S : place[k] = place[l] => k = l
<1>1. PICK n \in Nat : n = Cardinality(S)
  BY FS_CardinalityType
<1>2. first + n - 1 \in Int
  OBVIOUS
<1>3. /\ IsFiniteSet(first .. first + n - 1)
      /\ Cardinality(first .. first + n - 1) = IF first > first + n - 1 THEN 0 ELSE first + n - 1 - first + 1
  BY <1>2, FS_Interval
<1>4. Cardinality(first .. first + n - 1) = n
  BY <1>3
<1>5. ExistsBijection(S, first .. first + n - 1)
  BY <1>1, <1>3, <1>4, FS_SameCardinalityBij
<1>6. PICK f : f \in Bijection(S, first .. first + n - 1)
  BY <1>5 DEF ExistsBijection
<1>7. f \in [S -> first .. first + n - 1] /\ \A k, l \in S : f[k] = f[l] => k = l
  BY <1>6 DEF Bijection, Injection, IsInjective
<1> QED  BY <1>1, <1>7

\* The new combinations and the numbers they get.
LEMMA AllocationFacts ==
  ASSUME NEW doc, Good(doc), NEW form, SpecsFit(doc, form)
  PROVE  LET new == Added(doc, form)
         IN  /\ Allocation(doc, form) \in [new -> doc.next .. doc.next + Cardinality(new) - 1]
             /\ \A k, l \in new : Allocation(doc, form)[k] = Allocation(doc, form)[l] => k = l
<1> DEFINE new == Added(doc, form)
           fits(place) == \A k, l \in new : place[k] = place[l] => k = l
<1>1. IsFiniteSet(new) /\ doc.next \in Nat
  BY AddedFinite, DocumentFacts DEF SpecsFit
<1>2. \E place \in [new -> doc.next .. doc.next + Cardinality(new) - 1] : fits(place)
  BY <1>1, PlaceExists
<1>3. Allocation(doc, form) =
        CHOOSE place \in [new -> doc.next .. doc.next + Cardinality(new) - 1] : fits(place)
  BY DEF Allocation
<1> HIDE DEF fits
<1>4. /\ Allocation(doc, form) \in [new -> doc.next .. doc.next + Cardinality(new) - 1]
      /\ fits(Allocation(doc, form))
  BY <1>2, <1>3, Zenon
<1> QED  BY <1>4 DEF fits

\* A combination that belongs to a product consists of ids.
LEMMA KeyOfPairs ==
  ASSUME NEW doc, NEW form, NEW dims \in Seq(Dimension),
         NEW key \in Keys(doc, form), Belongs(key, dims)
  PROVE  key \in SUBSET Pairs
<1>1. key = {} \/ \E choice \in form.choices : key = Resolve(doc, choice)
  BY DEF Keys
<1>2. CASE key = {}
  BY <1>2
<1>3. ASSUME NEW choice \in form.choices, key = Resolve(doc, choice)
      PROVE  key \in SUBSET Pairs
  <2> SUFFICES ASSUME NEW t \in key PROVE t \in Pairs
    OBVIOUS
  <2>1. PICK a, b : t = <<a, b>>
    BY <1>3 DEF Resolve
  <2>2. t[1] = a /\ t[2] = b
    BY <2>1
  <2>3. a \in DOMAIN dims /\ b \in DOMAIN dims[a].values
    BY <2>2 DEF Belongs, DimensionsOf
  <2>4. dims[a].values \in Seq(Value)
    <3>1. dims[a] \in Dimension
      BY <2>3
    <3> QED  BY <3>1 DEF Dimension
  <2>5. a \in Nat \ {0} /\ b \in Nat \ {0}
    <3>1. PICK k \in Nat : DOMAIN dims = 1 .. k
      OBVIOUS
    <3>2. PICK l \in Nat : DOMAIN dims[a].values = 1 .. l
      BY <2>4
    <3> QED  BY <2>3, <3>1, <3>2
  <2> QED  BY <2>1, <2>5 DEF Pairs
<1> QED  BY <1>1, <1>2, <1>3

\* A SKU that a save adds.
LEMMA NewSkuFacts ==
  ASSUME NEW key \in SUBSET Pairs
  PROVE  /\ NewSku(key) \in SkuRecord /\ NewSku(key).key = key /\ NewSku(key).pairs = key
         /\ NewSku(key).archived = FALSE /\ NewSku(key).status = "disabled"
         /\ NewSku(key).stock = 0
<1>1. NewSku(key) \in SkuRecord
  BY DEF NewSku, SkuRecord
<1> QED  BY <1>1 DEF NewSku

\* What a save makes of a SKU.
LEMMA KeptFacts ==
  ASSUME NEW sku \in SkuRecord, NEW keys,
         sku.archived = (sku.status = "archived"), ~sku.archived => sku.pairs = sku.key
  PROVE  LET new == Kept(sku, keys)
         IN  /\ new \in SkuRecord /\ Follows(new, sku)
             /\ new.archived = (new.status = "archived") /\ new.archived = (sku.key \notin keys)
             /\ ~new.archived => new.pairs = new.key
             /\ new.stock = sku.stock
<1>1. sku.config \in Nat /\ sku.stockVersion \in Nat /\ sku.key \in SUBSET Pairs
  BY SkuFacts
<1>2. CASE sku.key \in keys /\ sku.archived
  <2> DEFINE new == [sku EXCEPT !.pairs = sku.key, !.archived = FALSE,
                                !.status = "disabled", !.config = @ + 1]
  <2>1. Kept(sku, keys) = new
    BY <1>2 DEF Kept
  <2>2. new \in SkuRecord
    <3>1. [sku EXCEPT !.pairs = sku.key] \in SkuRecord
      BY <1>1 DEF SkuRecord
    <3>2. PICK f \in SkuRecord : f = [sku EXCEPT !.pairs = sku.key]
      BY <3>1
    <3>3. [f EXCEPT !.archived = FALSE] \in SkuRecord
      BY DEF SkuRecord
    <3>4. PICK g \in SkuRecord : g = [f EXCEPT !.archived = FALSE]
      BY <3>3
    <3>5. [g EXCEPT !.status = "disabled"] \in SkuRecord
      BY DEF SkuRecord
    <3>6. PICK h \in SkuRecord : h = [g EXCEPT !.status = "disabled"]
      BY <3>5
    <3>7. [h EXCEPT !.config = @ + 1] \in SkuRecord
      BY DEF SkuRecord
    <3>8. new = [h EXCEPT !.config = @ + 1]
      BY <3>2, <3>4, <3>6 DEF SkuRecord
    <3> QED  BY <3>7, <3>8
  <2>3. /\ new.key = sku.key /\ new.pairs = sku.key /\ new.status = "disabled"
        /\ new.config = sku.config + 1 /\ new.stock = sku.stock
        /\ new.stockVersion = sku.stockVersion
    BY <1>1 DEF SkuRecord
  <2>4. new.archived = FALSE
    BY DEF SkuRecord
  <2> HIDE DEF new
  <2>5. Follows(new, sku)
    BY <1>1, <2>3 DEF Follows
  <2> QED  BY <1>2, <2>1, <2>2, <2>3, <2>4, <2>5
<1>3. CASE sku.key \in keys /\ ~sku.archived
  <2> DEFINE new == [sku EXCEPT !.pairs = sku.key]
  <2>1. Kept(sku, keys) = new
    BY <1>3 DEF Kept
  <2>2. new \in SkuRecord
    BY <1>1 DEF SkuRecord
  <2>3. /\ new.key = sku.key /\ new.pairs = sku.key /\ new.status = sku.status
        /\ new.config = sku.config /\ new.stock = sku.stock
        /\ new.stockVersion = sku.stockVersion
    BY DEF SkuRecord
  <2>4. new.archived = sku.archived
    BY DEF SkuRecord
  <2> HIDE DEF new
  <2>5. Follows(new, sku)
    BY <1>1, <2>3 DEF Follows
  <2> QED  BY <1>3, <2>1, <2>2, <2>3, <2>4, <2>5
<1>4. CASE sku.key \notin keys /\ sku.archived
  <2> DEFINE new == [sku EXCEPT !.pairs = {}]
  <2>1. Kept(sku, keys) = new
    BY <1>4 DEF Kept
  <2>2. new \in SkuRecord
    BY DEF SkuRecord
  <2>3. /\ new.key = sku.key /\ new.status = sku.status
        /\ new.config = sku.config /\ new.stock = sku.stock
        /\ new.stockVersion = sku.stockVersion
    BY DEF SkuRecord
  <2>4. new.archived = sku.archived
    BY DEF SkuRecord
  <2> HIDE DEF new
  <2>5. Follows(new, sku)
    BY <1>1, <2>3 DEF Follows
  <2> QED  BY <1>4, <2>1, <2>2, <2>3, <2>4, <2>5
<1>5. CASE sku.key \notin keys /\ ~sku.archived
  <2> DEFINE new == [sku EXCEPT !.archived = TRUE, !.status = "archived", !.config = @ + 1]
  <2>1. Kept(sku, keys) = new
    BY <1>5 DEF Kept
  <2>2. new \in SkuRecord
    <3>1. [sku EXCEPT !.archived = TRUE] \in SkuRecord
      BY DEF SkuRecord
    <3>2. PICK f \in SkuRecord : f = [sku EXCEPT !.archived = TRUE]
      BY <3>1
    <3>3. [f EXCEPT !.status = "archived"] \in SkuRecord
      BY DEF SkuRecord
    <3>4. PICK g \in SkuRecord : g = [f EXCEPT !.status = "archived"]
      BY <3>3
    <3>5. [g EXCEPT !.config = @ + 1] \in SkuRecord
      BY DEF SkuRecord
    <3>6. new = [g EXCEPT !.config = @ + 1]
      BY <3>2, <3>4 DEF SkuRecord
    <3> QED  BY <3>5, <3>6
  <2>3. /\ new.key = sku.key /\ new.status = "archived"
        /\ new.config = sku.config + 1 /\ new.stock = sku.stock
        /\ new.stockVersion = sku.stockVersion
    BY <1>1 DEF SkuRecord
  <2>4. new.archived = TRUE
    BY DEF SkuRecord
  <2> HIDE DEF new
  <2>5. Follows(new, sku)
    BY <1>1, <2>3 DEF Follows
  <2> QED  BY <1>5, <2>1, <2>2, <2>3, <2>4, <2>5
<1>6. sku.archived \in BOOLEAN
  BY SkuFacts
<1> QED  BY <1>2, <1>3, <1>4, <1>5, <1>6

\* What a save that is accepted writes.
LEMMA SavedFacts ==
  ASSUME NEW doc, Good(doc), NEW form, SpecsFit(doc, form), Acceptable(doc, form)
  PROVE  LET new   == Saved(doc, form)
             fresh == Rows(new) \ Rows(doc)
         IN  /\ Good(new) /\ Grows(new, doc) /\ StockStays(new, doc)
             /\ new.structure = doc.structure + 1
             /\ new.receipts = doc.receipts /\ new.lapsed = doc.lapsed
             /\ {new.skus[n].key : n \in fresh} = Added(doc, form)
             /\ \A n \in fresh : n >= doc.next /\ new.skus[n].archived = FALSE
             /\ \A n \in Rows(doc) : new.skus[n].archived = (doc.skus[n].key \notin Keys(doc, form))
<1> DEFINE new == Saved(doc, form)
           place == Allocation(doc, form)
           added == Added(doc, form)
           keys == Keys(doc, form)
           given == {n \in Sequences : \E k \in added : place[k] = n}
           key(n) == CHOOSE k \in added : place[k] = n
           skus == [n \in Sequences |->
                      IF n \in given THEN NewSku(key(n))
                      ELSE IF doc.skus[n] = NoSku THEN NoSku
                      ELSE Kept(doc.skus[n], keys)]
<1>1. PICK m \in Nat : m = Cardinality(added)
  BY AddedFinite DEF SpecsFit
<1>2. /\ doc \in Document /\ doc.next \in Nat /\ doc.structure \in Nat
      /\ doc.next \in 0 .. Capacity /\ Capacity \in Nat /\ doc.skus \in [Sequences -> SkuRecord \cup {NoSku}]
      /\ Rows(doc) \subseteq Sequences /\ \A n \in Rows(doc) : doc.skus[n] \in SkuRecord
  BY DocumentFacts, CapacityAssumption DEF Good
<1>3. /\ place \in [added -> doc.next .. doc.next + m - 1]
      /\ \A k, l \in added : place[k] = place[l] => k = l
  BY <1>1, AllocationFacts
<1>4. doc.next + m <= Capacity
  BY <1>1 DEF Acceptable, CapacitySuffices
<1>5. \A k \in added : place[k] \in Sequences /\ place[k] >= doc.next
  BY <1>2, <1>3, <1>4 DEF Sequences
<1>6. \A n \in given : n \notin Rows(doc) /\ n >= doc.next /\ n < doc.next + m
  <2> SUFFICES ASSUME NEW n \in given
               PROVE  n \notin Rows(doc) /\ n >= doc.next /\ n < doc.next + m
    OBVIOUS
  <2>1. n \in doc.next .. doc.next + m - 1
    BY <1>3
  <2>2. \A r \in Rows(doc) : r < doc.next
    BY DEF Good
  <2>3. \A r \in Rows(doc) : r \in Nat
    BY <1>2 DEF Sequences
  <2> QED  BY <1>2, <2>1, <2>2, <2>3
<1>7. \A n \in given : key(n) \in added /\ place[key(n)] = n
  OBVIOUS
<1>8. \A k \in added : place[k] \in given /\ key(place[k]) = k
  BY <1>3, <1>5, <1>7
<1> HIDE DEF key
<1>9. \A k \in added : k \in keys /\ k \in SUBSET Pairs /\ RowOf(doc, k) = {}
  <2> SUFFICES ASSUME NEW k \in added
               PROVE  k \in keys /\ k \in SUBSET Pairs /\ RowOf(doc, k) = {}
    OBVIOUS
  <2>1. k \in keys /\ RowOf(doc, k) = {}
    BY DEF Added
  <2>2. Belongs(k, Dimensions(doc, form))
    BY <2>1 DEF Acceptable, CombinationsResolve
  <2>3. Dimensions(doc, form) \in Seq(Dimension)
    BY DimensionsFacts
  <2> QED  BY <2>1, <2>2, <2>3, KeyOfPairs
<1>10. new = [doc EXCEPT !.structure = @ + 1, !.next = @ + m, !.dims = Persisted(doc, form), !.skus = skus]
  <2>1. DOMAIN place = added
    BY <1>3
  <2>2. [n \in Sequences |->
           IF \E k \in DOMAIN place : place[k] = n
           THEN NewSku(CHOOSE k \in DOMAIN place : place[k] = n)
           ELSE IF doc.skus[n] = NoSku THEN NoSku ELSE Kept(doc.skus[n], keys)] = skus
    BY <2>1 DEF key
  <2> QED  BY <1>1, <2>2 DEF Saved
<1> HIDE DEF skus
<1>11. /\ new.code = doc.code /\ new.structure = doc.structure + 1 /\ new.next = doc.next + m
       /\ new.dims = Persisted(doc, form) /\ new.skus = skus
       /\ new.receipts = doc.receipts /\ new.lapsed = doc.lapsed
  BY <1>2, <1>10 DEF Document
<1> HIDE DEF given
<1>12. /\ \A n \in given : n \in Sequences /\ skus[n] = NewSku(key(n))
       /\ \A n \in Rows(doc) : skus[n] = Kept(doc.skus[n], keys)
       /\ \A n \in Sequences : n \notin given /\ n \notin Rows(doc) => skus[n] = NoSku
  <2>1. given \subseteq Sequences
    BY DEF given
  <2>2. \A n \in Sequences : n \in Rows(doc) <=> doc.skus[n] # NoSku
    BY DEF Rows
  <2> QED  BY <1>2, <1>6, <2>1, <2>2 DEF skus
<1>13. ASSUME NEW n \in Rows(doc)
       PROVE  /\ skus[n] \in SkuRecord /\ Follows(skus[n], doc.skus[n])
              /\ skus[n].archived = (skus[n].status = "archived")
              /\ skus[n].archived = (doc.skus[n].key \notin keys)
              /\ ~skus[n].archived => skus[n].pairs = skus[n].key
              /\ skus[n].stock = doc.skus[n].stock
  <2>1. doc.skus[n] \in SkuRecord
    BY <1>2
  <2>2. /\ doc.skus[n].archived = (doc.skus[n].status = "archived")
        /\ ~doc.skus[n].archived => doc.skus[n].pairs = doc.skus[n].key
    BY DEF Good
  <2>3. skus[n] = Kept(doc.skus[n], keys)
    BY <1>12
  <2> QED  BY <2>1, <2>2, <2>3, KeptFacts
<1>14. ASSUME NEW n \in given
       PROVE  /\ skus[n] \in SkuRecord /\ skus[n].key = key(n) /\ skus[n].pairs = skus[n].key
              /\ skus[n].archived = FALSE /\ skus[n].status = "disabled" /\ skus[n].stock = 0
  <2>1. key(n) \in SUBSET Pairs
    BY <1>7, <1>9
  <2>2. /\ NewSku(key(n)) \in SkuRecord /\ NewSku(key(n)).key = key(n)
        /\ NewSku(key(n)).pairs = key(n) /\ NewSku(key(n)).archived = FALSE
        /\ NewSku(key(n)).status = "disabled" /\ NewSku(key(n)).stock = 0
    BY <2>1, NewSkuFacts
  <2>3. skus[n] = NewSku(key(n))
    BY <1>12
  <2> QED  BY <2>2, <2>3
<1>15. \A n \in Sequences : skus[n] \in SkuRecord \cup {NoSku}
  BY <1>12, <1>13, <1>14
<1>16. skus \in [Sequences -> SkuRecord \cup {NoSku}]
  BY <1>15 DEF skus
<1>17. Persisted(doc, form) \in Seq(Dimension) /\ doc.next + m \in 0 .. Capacity
  BY <1>2, <1>4, PersistedFacts
<1>18. new \in Document
  <2>1. [doc EXCEPT !.structure = @ + 1] \in Document
    BY <1>2 DEF Document
  <2>2. PICK f \in Document : f = [doc EXCEPT !.structure = @ + 1]
    BY <2>1
  <2>3. [f EXCEPT !.next = doc.next + m] \in Document
    BY <1>17 DEF Document
  <2>4. PICK g \in Document : g = [f EXCEPT !.next = doc.next + m]
    BY <2>3
  <2>5. [g EXCEPT !.dims = Persisted(doc, form)] \in Document
    BY <1>17 DEF Document
  <2>6. PICK h \in Document : h = [g EXCEPT !.dims = Persisted(doc, form)]
    BY <2>5
  <2>7. [h EXCEPT !.skus = skus] \in Document
    BY <1>16 DEF Document
  <2>8. new = [h EXCEPT !.skus = skus]
    BY <1>2, <1>10, <2>2, <2>4, <2>6 DEF Document
  <2> QED  BY <2>7, <2>8
<1> HIDE DEF new
<1>19. Rows(new) = Rows(doc) \cup given
  <2>1. \A n \in Sequences : new.skus[n] # NoSku <=> n \in Rows(doc) \/ n \in given
    BY <1>11, <1>12, <1>13, <1>14, SkuFacts
  <2>2. given \subseteq Sequences
    BY DEF given
  <2>3. Rows(new) = {n \in Sequences : new.skus[n] # NoSku}
    BY DEF Rows
  <2> QED  BY ONLY <1>2, <2>1, <2>2, <2>3
<1>20. \A n \in Rows(new) \ Rows(doc) : n \in given
  BY <1>19
<1>21. \A n \in given : n \in Rows(new) \ Rows(doc)
  BY <1>6, <1>19
<1>22. \A n \in Rows(doc) : n < doc.next /\ n \in Nat
  BY <1>2 DEF Good, Sequences
<1>23. ASSUME NEW n \in Rows(new)
       PROVE  /\ new.skus[n].archived = (new.skus[n].status = "archived")
              /\ n < new.next
              /\ ~new.skus[n].archived => new.skus[n].pairs = new.skus[n].key
              /\ new.skus[n].key = {} /\ new.skus[n].archived => new.skus[n].stock = 0
  <2>1. CASE n \in given
    BY <1>2, <1>6, <1>11, <1>14, <2>1
  <2>2. CASE n \in Rows(doc)
    <3>1. new.skus[n] = skus[n]
      BY <1>11
    <3>2. n < new.next
      BY <1>2, <1>11, <1>22, <2>2
    <3>3. ASSUME skus[n].key = {}, skus[n].archived
          PROVE  skus[n].stock = 0
      <4>1. doc.skus[n].key = {} /\ {} \notin keys
        BY <1>13, <2>2, <3>3 DEF Follows
      <4>2. form.specs # {}
        BY <4>1 DEF Keys
      <4>3. CASE doc.skus[n].archived
        BY <1>13, <2>2, <4>1, <4>3 DEF Good
      <4>4. CASE ~doc.skus[n].archived
        <5>1. n \in Active(doc) /\ doc.skus[n].pairs = {}
          BY <2>2, <4>1, <4>4 DEF Active, Good
        <5>2. IsDefault(doc)
          BY <5>1 DEF IsDefault
        <5>3. ~HasStock(doc)
          BY <4>2, <5>2 DEF Acceptable, ModeChangeAllowed, IsDefault
        <5> QED  BY <1>13, <2>2, <5>3 DEF HasStock
      <4> QED  BY <4>3, <4>4
    <3> QED  BY <1>13, <2>2, <3>1, <3>2, <3>3
  <2> QED  BY <1>19, <2>1, <2>2
<1>24. ASSUME NEW n \in Rows(new), NEW l \in Rows(new), new.skus[n].key = new.skus[l].key
       PROVE  n = l
  <2>1. \A r \in given : \A o \in Rows(doc) : skus[r].key # skus[o].key
    <3> SUFFICES ASSUME NEW r \in given, NEW o \in Rows(doc), skus[r].key = skus[o].key
                 PROVE  FALSE
      OBVIOUS
    <3>1. RowOf(doc, key(r)) = {}
      BY <1>7, <1>9
    <3>2. doc.skus[o].key = key(r)
      BY <1>13, <1>14 DEF Follows
    <3> QED  BY <3>1, <3>2 DEF RowOf
  <2>2. \A r, o \in Rows(doc) : skus[r].key = skus[o].key => r = o
    BY <1>13 DEF Good, Follows
  <2>3. \A r, o \in given : skus[r].key = skus[o].key => r = o
    <3> SUFFICES ASSUME NEW r \in given, NEW o \in given, skus[r].key = skus[o].key
                 PROVE  r = o
      OBVIOUS
    <3>1. key(r) = key(o)
      BY <1>14
    <3> QED  BY <1>7, <3>1
  <2>4. skus[n].key = skus[l].key
    BY <1>11, <1>24
  <2> QED  BY <1>19, <2>1, <2>2, <2>3, <2>4
<1>25. Good(new)
  BY <1>18, <1>23, <1>24 DEF Good
<1>26. Grows(new, doc)
  <2>1. \A n \in Rows(doc) : n \in Rows(new) /\ Follows(new.skus[n], doc.skus[n])
    BY <1>11, <1>13, <1>19
  <2>2. DOMAIN doc.dims \subseteq DOMAIN new.dims
    BY <1>11, PersistedFacts
  <2> QED  BY <1>2, <1>11, <2>1, <2>2 DEF Grows
<1>27. StockStays(new, doc)
  BY <1>11, <1>13, <1>14, <1>20 DEF StockStays
<1>28. {new.skus[n].key : n \in Rows(new) \ Rows(doc)} = added
  <2>1. \A n \in Rows(new) \ Rows(doc) : new.skus[n].key \in added
    BY <1>7, <1>11, <1>14, <1>20
  <2>2. \A k \in added : place[k] \in Rows(new) \ Rows(doc) /\ new.skus[place[k]].key = k
    BY <1>8, <1>11, <1>14, <1>21
  <2> QED  BY <2>1, <2>2
<1>29. \A n \in Rows(new) \ Rows(doc) : n >= doc.next /\ new.skus[n].archived = FALSE
  BY <1>6, <1>11, <1>14, <1>20
<1>30. \A n \in Rows(doc) : new.skus[n].archived = (doc.skus[n].key \notin Keys(doc, form))
  BY <1>11, <1>13
<1> QED  BY <1>11, <1>25, <1>26, <1>27, <1>28, <1>29, <1>30 DEF new

-----------------------------------------------------------------------------
(* The store, and what requests have read of it                             *)

StoredIn(store, p) == IF store[p.spu] = NoDocument THEN Created(p.code) ELSE store[p.spu]

\* Every product has a good document or none.
GoodStore(store) ==
  /\ store \in [Spus -> Document \cup {NoDocument}]
  /\ \A spu \in Spus : store[spu] # NoDocument => Good(store[spu])

\* No product is lost, and none takes back what was read of it.
StoreGrows(next, store) ==
  \A spu \in Spus : store[spu] # NoDocument =>
    next[spu] # NoDocument /\ Grows(next[spu], store[spu])

\* What a request has read lies behind the store.
Behind(store, p, times) ==
  /\ times > 0 \/ p.op # "save" => store[p.spu] # NoDocument
  /\ p.op = "save"     => SaveFits(StoredIn(store, p), p, times)
  /\ p.op = "patch"    => PatchFits(store[p.spu], p, times)
  /\ p.op = "stock"    => StockFits(store[p.spu], p, times)
  /\ p.op = "external" => times = 0

\* The fields of a request.
LEMMA PayloadFacts ==
  ASSUME NEW p \in Payload
  PROVE  /\ p # NoPayload /\ p.spu \in Spus
         /\ p.op \in {"save", "patch", "copy", "stock", "external"}
         /\ p.op = "save" => /\ p.code \in SpuCodes /\ p.expected \in Version
                             /\ p.seen \in 0 .. Capacity
                             /\ p.named \in SUBSET (Int \X (Int \X Int))
         /\ p.op = "patch" => /\ p.expected \in Version
                              /\ p.patches \in Seq(SkuPatch)
         /\ p.op = "copy" => p.source \in Sequences /\ p.target \in Sequences
         /\ p.op = "stock" => p.sku \in Sequences /\ p.quantity \in Nat /\ p.expected \in Nat
<1>1. p # NoPayload
  BY NothingAssumption
<1>2. CASE p \in [op : {"save"}, spu : Spus, code : SpuCodes, specs : SUBSET (Int \X Int),
                  choices : SUBSET SUBSET (Int \X Int), named : SUBSET (Int \X (Int \X Int)),
                  before : SUBSET Int, restore : SUBSET Sequences,
                  expected : Version, seen : 0 .. Capacity]
  BY <1>1, <1>2
<1>3. CASE p \in [op : {"patch"}, spu : Spus, expected : Version,
                  patches : Seq(SkuPatch)]
  BY <1>1, <1>3
<1>4. CASE p \in [op : {"copy"}, spu : Spus, source : Sequences, target : Sequences]
  BY <1>1, <1>4
<1>5. CASE p \in [op : {"stock"}, spu : Spus, sku : Sequences, quantity : Nat, expected : Nat]
  BY <1>1, <1>5
<1>6. CASE p \in [op : {"external"}, spu : Spus, sku : Sequences]
  BY <1>1, <1>6
<1> QED  BY <1>2, <1>3, <1>4, <1>5, <1>6 DEF Payload

\* The document a request is executed against, the stored or a new one.
LEMMA StoredIsGood ==
  ASSUME NEW store, GoodStore(store), NEW p \in Payload,
         p.op = "save" \/ store[p.spu] # NoDocument
  PROVE  /\ Good(StoredIn(store, p))
         /\ store[p.spu] = NoDocument =>
              /\ Rows(StoredIn(store, p)) = {} /\ StoredIn(store, p).receipts = {}
              /\ StoredIn(store, p).code = p.code /\ StoredIn(store, p).lapsed = FALSE
<1>1. p.spu \in Spus /\ (p.op = "save" => p.code \in SpuCodes)
  BY PayloadFacts
<1>2. CASE store[p.spu] = NoDocument
  BY <1>1, <1>2, CreatedIsGood DEF StoredIn
<1>3. CASE store[p.spu] # NoDocument
  BY <1>1, <1>3 DEF StoredIn, GoodStore
<1> QED  BY <1>2, <1>3

\* What a save has read stays behind a document that grows.
LEMMA SaveFitsOn ==
  ASSUME NEW old, Good(old), NEW new, Good(new), NEW times \in Nat,
         NEW p, p.expected \in Version, SaveFits(old, p, times),
         new.structure >= old.structure,
         new.structure = old.structure => new.next = old.next,
         DOMAIN old.dims \subseteq DOMAIN new.dims
  PROVE  SaveFits(new, p, times)
<1>1. old.structure \in Nat /\ new.structure \in Nat
  BY DocumentFacts
<1>2. p.expected \in Int
  BY DEF Version, Unversioned
<1> QED  BY <1>1, <1>2 DEF SaveFits

\* The same of a list of patches.
LEMMA PatchFitsOn ==
  ASSUME NEW old, Good(old), NEW new, Good(new), NEW times \in Nat, Grows(new, old),
         NEW p, p.patches \in Seq(SkuPatch), PatchFits(old, p, times)
  PROVE  PatchFits(new, p, times)
<1>1. \A i \in DOMAIN p.patches :
        /\ p.patches[i].sku \in Rows(old) /\ p.patches[i].expected \in Nat
        /\ p.patches[i].expected <= old.skus[p.patches[i].sku].config
  <2>1. \A i \in DOMAIN p.patches : p.patches[i] \in SkuPatch
    OBVIOUS
  <2>2. \A i \in DOMAIN p.patches : p.patches[i].expected \in Nat
    BY <2>1 DEF SkuPatch
  <2> QED  BY <2>2 DEF PatchFits
<1>2. \A n \in Rows(old) : /\ n \in Rows(new) /\ new.skus[n].config >= old.skus[n].config
                           /\ old.skus[n].config \in Nat /\ new.skus[n].config \in Nat
  BY DocumentFacts, SkuFacts DEF Grows, Follows
<1>3. \A i \in DOMAIN p.patches :
        /\ p.patches[i].sku \in Rows(new)
        /\ p.patches[i].expected <= new.skus[p.patches[i].sku].config
  <2> SUFFICES ASSUME NEW i \in DOMAIN p.patches
               PROVE  /\ p.patches[i].sku \in Rows(new)
                      /\ p.patches[i].expected <= new.skus[p.patches[i].sku].config
    OBVIOUS
  <2>1. PICK n \in Rows(old) : n = p.patches[i].sku
    BY <1>1
  <2>2. PICK seen \in Nat : seen = p.patches[i].expected
    BY <1>1
  <2>3. seen <= old.skus[n].config
    BY <1>1, <2>1, <2>2
  <2>4. /\ n \in Rows(new) /\ new.skus[n].config >= old.skus[n].config
        /\ old.skus[n].config \in Nat /\ new.skus[n].config \in Nat
    BY <1>2
  <2>5. seen <= new.skus[n].config
    BY <2>3, <2>4
  <2> QED  BY <2>1, <2>2, <2>4, <2>5
<1>4. 1 \in DOMAIN p.patches
  <2>1. p.patches # << >>
    BY DEF PatchFits
  <2> QED  BY <2>1
<1>5. times > 0 => p.patches[1].expected < new.skus[p.patches[1].sku].config
  BY <1>1, <1>2, <1>4 DEF PatchFits
<1> QED  BY <1>3, <1>5 DEF PatchFits

\* The same of a setting of stock.
LEMMA StockFitsOn ==
  ASSUME NEW old, Good(old), NEW new, Good(new), NEW times \in Nat, Grows(new, old),
         NEW p, p.expected \in Nat, StockFits(old, p, times)
  PROVE  StockFits(new, p, times)
<1>1. p.sku \in Rows(old)
  BY DEF StockFits
<1>2. /\ p.sku \in Rows(new) /\ Follows(new.skus[p.sku], old.skus[p.sku])
      /\ old.skus[p.sku].stockVersion \in Nat /\ new.skus[p.sku].stockVersion \in Nat
  BY <1>1, DocumentFacts, SkuFacts DEF Grows
<1> QED  BY <1>2 DEF StockFits, Follows

Written(store, spu, new) == [store EXCEPT ![spu] = new]

\* A write of one product, to one that grows out of it.
LEMMA WriteKeeps ==
  ASSUME NEW store, GoodStore(store), NEW p \in Payload,
         p.op = "save" \/ store[p.spu] # NoDocument,
         NEW new, Good(new), Grows(new, StoredIn(store, p))
  PROVE  LET next == Written(store, p.spu, new)
         IN  GoodStore(next) /\ StoreGrows(next, store) /\ next[p.spu] = new
<1> DEFINE next == Written(store, p.spu, new)
<1>1. p.spu \in Spus /\ store \in [Spus -> Document \cup {NoDocument}]
  BY PayloadFacts DEF GoodStore
<1>2. new \in Document /\ new # NoDocument
  BY NothingAssumption DEF Good
<1>3. /\ next \in [Spus -> Document \cup {NoDocument}] /\ next[p.spu] = new
      /\ \A spu \in Spus : spu # p.spu => next[spu] = store[spu]
  BY <1>1, <1>2 DEF Written
<1> HIDE DEF next
<1>4. GoodStore(next)
  BY <1>3 DEF GoodStore
<1>5. StoreGrows(next, store)
  <2> SUFFICES ASSUME NEW spu \in Spus, store[spu] # NoDocument
               PROVE  next[spu] # NoDocument /\ Grows(next[spu], store[spu])
    BY DEF StoreGrows
  <2>1. CASE spu = p.spu
    BY <1>2, <1>3, <2>1 DEF StoredIn
  <2>2. CASE spu # p.spu
    <3>1. next[spu] = store[spu] /\ Good(store[spu])
      BY <1>3, <2>2 DEF GoodStore
    <3> QED  BY <3>1, GrowsItself
  <2> QED  BY <2>1, <2>2
<1> QED  BY <1>3, <1>4, <1>5 DEF next

\* It leaves every request with what it has read.
LEMMA WriteKeepsBehind ==
  ASSUME NEW store, GoodStore(store), NEW p \in Payload,
         p.op = "save" \/ store[p.spu] # NoDocument,
         NEW new, Good(new), Grows(new, StoredIn(store, p)),
         NEW q \in Payload, NEW times \in Nat, Behind(store, q, times)
  PROVE  Behind(Written(store, p.spu, new), q, times)
<1> DEFINE next == Written(store, p.spu, new)
<1>1. /\ q.spu \in Spus /\ p.spu \in Spus /\ next[p.spu] = new /\ new # NoDocument
      /\ \A spu \in Spus : spu # p.spu => next[spu] = store[spu]
  BY PayloadFacts, NothingAssumption DEF GoodStore, Good, Written
<1> HIDE DEF next
<1>2. ASSUME q.spu # p.spu PROVE Behind(next, q, times)
  BY <1>1, <1>2 DEF Behind, StoredIn
<1>3. ASSUME q.spu = p.spu PROVE Behind(next, q, times)
  <2>1. next[q.spu] = new /\ StoredIn(next, q) = new /\ new # NoDocument
    BY <1>1, <1>3 DEF StoredIn
  <2>2. q.op = "save" => SaveFits(new, q, times)
    <3> SUFFICES ASSUME q.op = "save" PROVE SaveFits(new, q, times)
      OBVIOUS
    <3>1. SaveFits(StoredIn(store, q), q, times) /\ Good(StoredIn(store, q))
      BY StoredIsGood DEF Behind
    <3>2. /\ StoredIn(store, q).structure = StoredIn(store, p).structure
          /\ StoredIn(store, q).next = StoredIn(store, p).next
          /\ StoredIn(store, q).dims = StoredIn(store, p).dims
      BY <1>3 DEF StoredIn, Created
    <3>3. q.expected \in Version
      BY PayloadFacts
    <3> QED  BY <3>1, <3>2, <3>3, SaveFitsOn DEF Grows
  <2>3. q.op # "save" => store[q.spu] # NoDocument
    BY DEF Behind
  <2>4. q.op # "save" => Good(store[q.spu]) /\ Grows(new, store[q.spu])
    BY <1>1, <1>3, <2>3 DEF GoodStore, StoredIn
  <2>5. q.op = "patch" => PatchFits(new, q, times)
    <3> SUFFICES ASSUME q.op = "patch" PROVE PatchFits(new, q, times)
      OBVIOUS
    <3>1. q.patches \in Seq(SkuPatch)
      BY PayloadFacts
    <3>2. PatchFits(store[q.spu], q, times)
      BY DEF Behind
    <3>3. Good(store[q.spu]) /\ Grows(new, store[q.spu])
      BY <2>4
    <3> QED  BY ONLY <3>1, <3>2, <3>3, Good(new), times \in Nat, PatchFitsOn, SMTT(30)
  <2>6. q.op = "stock" => StockFits(new, q, times)
    BY <2>4, StockFitsOn, PayloadFacts DEF Behind
  <2>7. q.op = "external" => times = 0
    BY DEF Behind
  <2> QED  BY <2>1, <2>2, <2>5, <2>6, <2>7 DEF Behind
<1> QED  BY <1>2, <1>3 DEF next

-----------------------------------------------------------------------------
(* The inductive invariant                                                  *)

Settings ==
  /\ authority \in Authorities \cup {Unbound}
  /\ sent \in [Commands -> Payload \cup {NoPayload}]
  /\ prepared \subseteq Commands
  /\ answer \in [Commands -> Nat \cup {-1}]
  /\ applied \in [Commands -> Nat]
  /\ forwarded \subseteq Commands

\* A request that was answered has left a product behind.
Reads(c) ==
  /\ sent[c] = NoPayload => applied[c] = 0 /\ answer[c] = -1 /\ c \notin prepared
  /\ sent[c] # NoPayload =>
       /\ Behind(docs, sent[c], applied[c])
       /\ answer[c] # -1 => docs[sent[c].spu] # NoDocument

StoreInv == Settings /\ GoodStore(docs) /\ \A c \in Commands : Reads(c)
StockInv == NoLostStock /\ StockHasOneAuthority

AppliedOnce(c) ==
  sent[c] # NoPayload /\ (Guarded(sent[c]) \/ Remembered(sent[c].spu)) => applied[c] <= 1
ReceiptInv == ReceiptsAreUnique /\ \A c \in Commands : Receipted(c) /\ AppliedOnce(c)

SkuInv == StoreInv /\ CodesBelongToOneSpu /\ StockInv /\ ReceiptInv

\* The product has moved past what the request has read.
Overtaken(p, doc) ==
  /\ p.op = "save" /\ p.expected # Unversioned => p.expected < doc.structure
  /\ p.op = "patch" => p.patches[1].expected < doc.skus[p.patches[1].sku].config
  /\ p.op = "stock" => p.expected < doc.skus[p.sku].stockVersion

\* A request that waits for its transaction.
LEMMA WaitingFacts ==
  ASSUME StoreInv, NEW c \in prepared
  PROVE  /\ c \in Commands /\ sent[c] \in Payload /\ sent[c] # NoPayload /\ sent[c].spu \in Spus
         /\ Behind(docs, sent[c], applied[c])
         /\ sent[c].op = "save" \/ docs[sent[c].spu] # NoDocument
         /\ Stored(sent[c]) = StoredIn(docs, sent[c]) /\ Good(Stored(sent[c]))
         /\ docs[sent[c].spu] # NoDocument =>
              Stored(sent[c]) = docs[sent[c].spu] /\ Good(docs[sent[c].spu])
         /\ docs[sent[c].spu] = NoDocument =>
              /\ Rows(Stored(sent[c])) = {} /\ Stored(sent[c]).receipts = {}
              /\ Stored(sent[c]).code = sent[c].code /\ Stored(sent[c]).lapsed = FALSE
<1>1. c \in Commands /\ Reads(c)
  BY DEF StoreInv, Settings
<1>2. sent[c] # NoPayload /\ sent[c] \in Payload
  BY <1>1 DEF StoreInv, Settings, Reads
<1>3. Behind(docs, sent[c], applied[c])
  BY <1>1, <1>2 DEF Reads
<1>4. sent[c].op = "save" \/ docs[sent[c].spu] # NoDocument
  BY <1>3 DEF Behind
<1>5. sent[c].spu \in Spus
  BY <1>2, PayloadFacts
<1>6. Stored(sent[c]) = StoredIn(docs, sent[c])
  BY DEF Stored, StoredIn
<1>7. /\ Good(StoredIn(docs, sent[c]))
      /\ docs[sent[c].spu] = NoDocument =>
           /\ Rows(StoredIn(docs, sent[c])) = {} /\ StoredIn(docs, sent[c]).receipts = {}
           /\ StoredIn(docs, sent[c]).code = sent[c].code
           /\ StoredIn(docs, sent[c]).lapsed = FALSE
  BY <1>2, <1>4, StoredIsGood DEF StoreInv
<1>8. docs[sent[c].spu] # NoDocument =>
        Stored(sent[c]) = docs[sent[c].spu] /\ Good(docs[sent[c].spu])
  BY <1>5 DEF Stored, StoreInv, GoodStore
<1> QED  BY <1>1, <1>2, <1>3, <1>4, <1>5, <1>6, <1>7, <1>8

\* Once overtaken, a request has nothing more to fear from its version.
LEMMA BehindAnyTimes ==
  ASSUME NEW store, NEW p, NEW times \in Nat, NEW later \in Nat, Behind(store, p, times),
         later > 0 => \/ times > 0
                      \/ /\ store[p.spu] # NoDocument /\ p.op # "external"
                         /\ Overtaken(p, store[p.spu])
  PROVE  Behind(store, p, later)
<1>1. store[p.spu] # NoDocument => StoredIn(store, p) = store[p.spu]
  BY DEF StoredIn
<1>2. later > 0 \/ p.op # "save" => store[p.spu] # NoDocument
  BY DEF Behind
<1>3. p.op = "save" => SaveFits(StoredIn(store, p), p, later)
  BY <1>1 DEF Behind, SaveFits, Overtaken
<1>4. p.op = "patch" => PatchFits(store[p.spu], p, later)
  BY DEF Behind, PatchFits, Overtaken
<1>5. p.op = "stock" => StockFits(store[p.spu], p, later)
  BY DEF Behind, StockFits, Overtaken
<1>6. p.op = "external" => later = 0
  BY DEF Behind
<1> QED  BY <1>2, <1>3, <1>4, <1>5, <1>6 DEF Behind

\* A request that took effect has been overtaken, by its own effect or a later one.
LEMMA BehindIsOvertaken ==
  ASSUME NEW store, NEW p, NEW times \in Nat, times > 0, Behind(store, p, times)
  PROVE  /\ store[p.spu] # NoDocument /\ p.op # "external"
         /\ Overtaken(p, store[p.spu])
<1>1. store[p.spu] # NoDocument /\ p.op # "external"
  BY DEF Behind
<1>2. Overtaken(p, store[p.spu])
  BY <1>1 DEF Behind, StoredIn, SaveFits, PatchFits, StockFits, Overtaken
<1> QED  BY <1>1, <1>2

\* A transaction that writes, with or without an effect of the request.
LEMMA WriteKeepsStore ==
  ASSUME StoreInv, CodesBelongToOneSpu, NEW c \in prepared, sent[c].op # "external",
         NEW new, Good(new), Grows(new, Stored(sent[c])),
         docs[sent[c].spu] = NoDocument => ~CodeTaken(sent[c].spu, sent[c].code),
         docs' = [docs EXCEPT ![sent[c].spu] = new], prepared' = prepared \ {c},
         UNCHANGED <<authority, sent, forwarded>>,
         answer' \in [Commands -> Nat \cup {-1}], applied' \in [Commands -> Nat],
         \A d \in Commands \ {c} : answer'[d] = answer[d] /\ applied'[d] = applied[d],
         applied'[c] > 0 => applied[c] > 0 \/ Overtaken(sent[c], new)
  PROVE  StoreInv' /\ CodesBelongToOneSpu' /\ StoreGrows(docs', docs)
<1>p. PICK p \in Payload : p = sent[c]
  BY WaitingFacts
<1>1. /\ c \in Commands /\ p \in Payload /\ p # NoPayload /\ p.spu \in Spus
      /\ Behind(docs, p, applied[c]) /\ (p.op = "save" \/ docs[p.spu] # NoDocument)
      /\ Stored(p) = StoredIn(docs, p) /\ Good(Stored(p))
      /\ docs[p.spu] # NoDocument => Stored(p) = docs[p.spu]
      /\ docs[p.spu] = NoDocument => Stored(p).code = p.code
  BY <1>p, WaitingFacts
<1>2. GoodStore(docs)
  BY DEF StoreInv
<1>3. /\ GoodStore(docs') /\ StoreGrows(docs', docs) /\ docs'[p.spu] = new
  <2>1. p \in Payload /\ (p.op = "save" \/ docs[p.spu] # NoDocument)
    BY <1>1
  <2>2. Grows(new, StoredIn(docs, p))
    BY <1>1, <1>p
  <2>3. docs' = Written(docs, p.spu, new)
    BY <1>p DEF Written
  <2>4. Good(new)
    OBVIOUS
  <2>5. LET next == Written(docs, p.spu, new)
        IN  GoodStore(next) /\ StoreGrows(next, docs) /\ next[p.spu] = new
    BY ONLY <1>2, <2>1, <2>2, <2>4, WriteKeeps, Zenon
  <2> QED  BY ONLY <2>3, <2>5, Zenon
<1>4. new # NoDocument
  BY NothingAssumption DEF Good
<1>5. Settings'
  BY DEF StoreInv, Settings
<1>6. ASSUME NEW d \in Commands
      PROVE  Reads(d)'
  <2>1. Reads(d)
    BY DEF StoreInv
  <2>2. CASE sent[d] = NoPayload
    <3>1. d # c
      BY <1>1, <1>p, <2>2
    <3> QED  BY <2>1, <2>2, <3>1 DEF Reads
  <2>3. CASE sent[d] # NoPayload
    <3>1. sent[d] \in Payload /\ sent[d].spu \in Spus
      BY <2>3, PayloadFacts DEF StoreInv, Settings
    <3>2. applied[d] \in Nat /\ applied'[d] \in Nat
      BY DEF StoreInv, Settings
    <3>3. Behind(docs', sent[d], applied[d])
      <4>1. Behind(docs, sent[d], applied[d])
        BY <2>1, <2>3 DEF Reads
      <4>2. docs' = Written(docs, p.spu, new)
        BY <1>p DEF Written
      <4>3. Grows(new, StoredIn(docs, p)) /\ (p.op = "save" \/ docs[p.spu] # NoDocument)
        BY <1>1, <1>p
      <4>4. Good(new) /\ p \in Payload
        OBVIOUS
      <4>5. PICK q \in Payload : q = sent[d]
        BY <3>1
      <4>6. PICK times \in Nat : times = applied[d]
        BY <3>2
      <4>7. Behind(docs, q, times)
        BY <4>1, <4>5, <4>6
      <4>8. Behind(Written(docs, p.spu, new), q, times)
        BY ONLY q \in Payload, times \in Nat, <1>2, <4>3, <4>4, <4>7, WriteKeepsBehind, ZenonT(60)
      <4> QED  BY <4>2, <4>5, <4>6, <4>8, Zenon
    <3>4. applied'[d] > 0 =>
            \/ applied[d] > 0
            \/ /\ docs'[sent[d].spu] # NoDocument /\ sent[d].op # "external"
               /\ Overtaken(sent[d], docs'[sent[d].spu])
      <4>1. CASE d = c
        BY <1>3, <1>4, <1>p, <4>1
      <4>2. CASE d # c
        BY <4>2
      <4> QED  BY <4>1, <4>2
    <3>5. Behind(docs', sent[d], applied'[d])
      BY ONLY <3>2, <3>3, <3>4, BehindAnyTimes
    <3>6. answer'[d] # -1 => docs'[sent[d].spu] # NoDocument
      <4>1. CASE d = c
        BY <1>3, <1>4, <1>p, <4>1
      <4>2. CASE d # c
        BY <1>3, <2>1, <2>3, <3>1, <4>2 DEF Reads, StoreGrows
      <4> QED  BY <4>1, <4>2
    <3> QED  BY <2>3, <3>5, <3>6 DEF Reads
  <2> QED  BY <2>2, <2>3
<1>7. CodesBelongToOneSpu'
  <2>1. docs[p.spu] # NoDocument => new.code = docs[p.spu].code
    BY <1>1, <1>p DEF Grows
  <2>2. docs[p.spu] = NoDocument =>
          new.code = p.code /\ \A s \in Spus \ {p.spu} : docs[s] # NoDocument => docs[s].code # new.code
    BY <1>1, <1>p DEF Grows, CodeTaken
  <2>3. \A s \in Spus : docs'[s] = IF s = p.spu THEN new ELSE docs[s]
    BY <1>1, <1>2, <1>p DEF GoodStore
  <2> QED  BY <1>1, <2>1, <2>2, <2>3 DEF CodesBelongToOneSpu
<1> QED  BY <1>3, <1>5, <1>6, <1>7 DEF StoreInv

\* A request that took effect or was answered has left a product behind.
LEMMA EffectFacts ==
  ASSUME StoreInv, NEW d \in Commands, applied[d] > 0 \/ answer[d] # -1
  PROVE  /\ sent[d] # NoPayload /\ sent[d] \in Payload /\ sent[d].spu \in Spus
         /\ docs[sent[d].spu] # NoDocument /\ Behind(docs, sent[d], applied[d])
<1>1. Reads(d) /\ applied[d] \in Nat /\ sent[d] \in Payload \cup {NoPayload}
  BY DEF StoreInv, Settings
<1>2. sent[d] # NoPayload
  BY <1>1 DEF Reads
<1>3. Behind(docs, sent[d], applied[d])
  BY <1>1, <1>2 DEF Reads
<1>4. applied[d] > 0 => docs[sent[d].spu] # NoDocument
  BY <1>1, <1>3, BehindIsOvertaken
<1>5. docs[sent[d].spu] # NoDocument
  BY <1>1, <1>2, <1>4 DEF Reads
<1> QED  BY <1>1, <1>2, <1>3, <1>5, PayloadFacts

\* The requests that booked an item of a SKU.
Booked(spu, n) ==
  {c \in Commands : /\ applied[c] > 0
                    /\ sent[c].op = "stock"
                    /\ sent[c].spu = spu /\ sent[c].sku = n}

\* Only finitely many requests book an item, and only of a SKU that exists.
LEMMA BookedFacts ==
  ASSUME StoreInv, NEW spu, NEW n
  PROVE  /\ IsFiniteSet(Booked(spu, n))
         /\ Booked(spu, n) # {} => docs[spu] # NoDocument /\ n \in Rows(docs[spu])
<1>1. IsFiniteSet(Booked(spu, n))
  BY CommandsAssumption, FS_Subset DEF Booked
<1>2. ASSUME NEW d \in Booked(spu, n)
      PROVE  docs[spu] # NoDocument /\ n \in Rows(docs[spu])
  <2>1. /\ d \in Commands /\ applied[d] > 0 /\ sent[d].op = "stock"
        /\ sent[d].spu = spu /\ sent[d].sku = n
    BY DEF Booked
  <2>2. docs[spu] # NoDocument /\ Behind(docs, sent[d], applied[d])
    BY <2>1, EffectFacts
  <2>3. StockFits(docs[spu], sent[d], applied[d])
    BY <2>1, <2>2 DEF Behind
  <2> QED  BY <2>1, <2>2, <2>3 DEF StockFits
<1> QED  BY <1>1, <1>2

\* A write that leaves stock alone.
LEMMA WriteLeavesStock ==
  ASSUME StoreInv, StockInv, NEW c \in prepared,
         NEW new, Good(new), StockStays(new, Stored(sent[c])),
         docs' = [docs EXCEPT ![sent[c].spu] = new], prepared' = prepared \ {c},
         UNCHANGED <<authority, sent, forwarded>>,
         \A d \in Commands : sent[d].op = "stock" => (applied'[d] > 0 <=> applied[d] > 0)
  PROVE  StockInv'
<1>p. PICK p \in Payload : p = sent[c]
  BY WaitingFacts
<1>1. /\ p.spu \in Spus /\ docs \in [Spus -> Document \cup {NoDocument}]
      /\ docs[p.spu] # NoDocument => Stored(p) = docs[p.spu]
      /\ docs[p.spu] = NoDocument => Rows(Stored(p)) = {}
      /\ StockStays(new, Stored(p))
  BY <1>p, WaitingFacts DEF StoreInv, GoodStore
<1>2. \A s \in Spus : docs'[s] = IF s = p.spu THEN new ELSE docs[s]
  BY <1>p, <1>1
<1>3. ASSUME NEW spu, NEW n
      PROVE  Booked(spu, n)' = Booked(spu, n)
  BY DEF Booked
<1>4. NoLostStock'
  <2> SUFFICES ASSUME NEW spu \in Spus, docs'[spu] # NoDocument, NEW n \in Rows(docs'[spu])
               PROVE  docs'[spu].skus[n].stock = Cardinality(Booked(spu, n)')
    BY DEF NoLostStock, Booked
  <2>1. CASE spu # p.spu
    <3>1. docs'[spu] = docs[spu]
      BY <1>2, <2>1
    <3>2. docs[spu].skus[n].stock = Cardinality(Booked(spu, n))
      BY <3>1 DEF StockInv, NoLostStock, Booked
    <3> QED  BY <1>3, <3>1, <3>2
  <2>2. CASE spu = p.spu /\ n \in Rows(Stored(p))
    <3>1. docs[spu] # NoDocument /\ n \in Rows(docs[spu])
      BY <1>1, <2>2
    <3>2. docs'[spu].skus[n].stock = docs[spu].skus[n].stock
      BY <1>1, <1>2, <2>2, <3>1 DEF StockStays
    <3>3. docs[spu].skus[n].stock = Cardinality(Booked(spu, n))
      BY <3>1 DEF StockInv, NoLostStock, Booked
    <3> QED  BY <1>3, <3>2, <3>3
  <2>3. CASE spu = p.spu /\ n \notin Rows(Stored(p))
    <3>1. docs'[spu].skus[n].stock = 0
      BY <1>1, <1>2, <2>3 DEF StockStays
    <3>2. Booked(spu, n) = {}
      BY <1>1, <2>3, BookedFacts
    <3> QED  BY <1>3, <3>1, <3>2, FS_EmptySet
  <2> QED  BY <2>1, <2>2, <2>3
<1>5. StockHasOneAuthority'
  <2>1. HasStock(new) => docs[p.spu] # NoDocument /\ HasStock(docs[p.spu])
    BY <1>1 DEF HasStock, StockStays
  <2>2. authority # "local" => \A s \in Spus : docs'[s] # NoDocument => ~HasStock(docs'[s])
    BY <1>1, <1>2, <2>1 DEF StockInv, StockHasOneAuthority
  <2> QED  BY <2>2 DEF StockInv, StockHasOneAuthority, HasStock
<1> QED  BY <1>4, <1>5 DEF StockInv

\* Of the hosts that book an item, the one whose version is current does.
LEMMA BookingCounts ==
  ASSUME StoreInv, StockInv, NEW c \in prepared, sent[c].op = "stock",
         NEW new, Good(new), Rows(new) = Rows(docs[sent[c].spu]),
         docs[sent[c].spu].skus[sent[c].sku].stockVersion = sent[c].expected,
         \A n \in Rows(new) \ {sent[c].sku} :
           new.skus[n].stock = docs[sent[c].spu].skus[n].stock,
         new.skus[sent[c].sku].stock = sent[c].quantity,
         docs' = [docs EXCEPT ![sent[c].spu] = new], prepared' = prepared \ {c},
         UNCHANGED <<authority, sent, forwarded>>,
         applied' = [applied EXCEPT ![c] = @ + 1]
  PROVE  StockInv'
<1>p. PICK p \in Payload : p = sent[c]
  BY WaitingFacts
<1>1. /\ c \in Commands /\ p.spu \in Spus /\ docs \in [Spus -> Document \cup {NoDocument}]
      /\ docs[p.spu] # NoDocument /\ StockFits(docs[p.spu], p, applied[c])
      /\ p.sku \in Sequences /\ p.expected \in Nat /\ p.quantity \in Nat /\ p.op = "stock"
      /\ Good(docs[p.spu])
  BY <1>p, WaitingFacts, PayloadFacts DEF StoreInv, GoodStore, Behind
<1>2. \A s \in Spus : docs'[s] = IF s = p.spu THEN new ELSE docs[s]
  BY <1>p, <1>1
<1>3. applied \in [Commands -> Nat]
  BY DEF StoreInv, Settings
<1>4. applied[c] = 0 /\ p.quantity = docs[p.spu].skus[p.sku].stock + 1
  BY <1>p, <1>1, <1>3, SMTT(60) DEF StockFits
<1>5. c \notin Booked(p.spu, p.sku)
  BY <1>4 DEF Booked
<1>6. ASSUME NEW spu, NEW n
      PROVE  Booked(spu, n)' = IF spu = p.spu /\ n = p.sku THEN Booked(spu, n) \cup {c}
                               ELSE Booked(spu, n)
  BY <1>p, <1>1, <1>3 DEF Booked
<1>7. NoLostStock'
  <2> SUFFICES ASSUME NEW spu \in Spus, docs'[spu] # NoDocument, NEW n \in Rows(docs'[spu])
               PROVE  docs'[spu].skus[n].stock = Cardinality(Booked(spu, n)')
    BY DEF NoLostStock, Booked
  <2>1. CASE spu # p.spu
    <3>1. docs'[spu] = docs[spu]
      BY <1>2, <2>1
    <3>2. docs[spu].skus[n].stock = Cardinality(Booked(spu, n))
      BY <3>1 DEF StockInv, NoLostStock, Booked
    <3>3. Booked(spu, n)' = Booked(spu, n)
      BY <1>6, <2>1
    <3> QED  BY <3>1, <3>2, <3>3
  <2>2. CASE spu = p.spu
    <3>1. n \in Rows(docs[p.spu]) /\ docs'[spu] = new
      BY <1>p, <1>2, <2>2
    <3>2. docs[p.spu].skus[n].stock = Cardinality(Booked(p.spu, n))
      BY <1>1, <3>1 DEF StockInv, NoLostStock, Booked
    <3>3. CASE n # p.sku
      BY <1>p, <1>6, <2>2, <3>1, <3>2, <3>3
    <3>4. CASE n = p.sku
      <4>1. Cardinality(Booked(p.spu, n) \cup {c}) = Cardinality(Booked(p.spu, n)) + 1
        BY <1>5, <3>4, BookedFacts, FS_AddElement
      <4> QED  BY <1>p, <1>4, <1>6, <2>2, <3>1, <3>2, <3>4, <4>1
    <3> QED  BY <3>3, <3>4
  <2> QED  BY <2>1, <2>2
<1>8. StockHasOneAuthority'
  <2>1. authority = "local"
    BY DEF StockInv, StockHasOneAuthority
  <2> QED  BY <2>1 DEF StockInv, StockHasOneAuthority
<1> QED  BY <1>7, <1>8 DEF StockInv

\* A write that gives no receipt.
LEMMA WriteKeepsReceipts ==
  ASSUME StoreInv, ReceiptInv, NEW c \in prepared,
         NEW new, new.receipts = Stored(sent[c]).receipts, new.lapsed = Stored(sent[c]).lapsed,
         docs' = [docs EXCEPT ![sent[c].spu] = new], UNCHANGED <<sent, answer, applied>>
  PROVE  ReceiptInv'
<1>p. PICK p \in Payload : p = sent[c]
  BY WaitingFacts
<1>1. /\ p.spu \in Spus /\ docs \in [Spus -> Document \cup {NoDocument}]
      /\ docs[p.spu] # NoDocument => Stored(p) = docs[p.spu]
      /\ docs[p.spu] = NoDocument => Stored(p).receipts = {}
  BY <1>p, WaitingFacts DEF StoreInv, GoodStore
<1>2. \A s \in Spus : docs'[s] = IF s = p.spu THEN new ELSE docs[s]
  BY <1>p, <1>1
<1>3. \A s \in Spus : docs[s] # NoDocument =>
        docs'[s].receipts = docs[s].receipts /\ docs'[s].lapsed = docs[s].lapsed
  BY <1>p, <1>1, <1>2
<1>4. ReceiptsAreUnique'
  <2> SUFFICES ASSUME NEW s \in Spus, docs'[s] # NoDocument, NEW r \in docs'[s].receipts
               PROVE  /\ r.id = IdOf[r.command] /\ sent[r.command] # NoPayload
                      /\ \A q \in docs'[s].receipts : q.id = r.id => q = r
    BY DEF ReceiptsAreUnique
  <2>1. docs[s] # NoDocument /\ docs'[s].receipts = docs[s].receipts
    BY <1>p, <1>1, <1>2, <1>3
  <2> QED  BY <2>1 DEF ReceiptInv, ReceiptsAreUnique
<1>5. ASSUME NEW d \in Commands
      PROVE  Receipted(d)' /\ AppliedOnce(d)'
  <2>1. Receipted(d) /\ AppliedOnce(d)
    BY DEF ReceiptInv
  <2>2. CASE applied[d] > 0 \/ answer[d] # -1
    <3>1. sent[d].spu \in Spus /\ docs[sent[d].spu] # NoDocument
      BY <2>2, EffectFacts
    <3>2. Remembered(sent[d].spu)' => Remembered(sent[d].spu)
      BY <1>3, <3>1 DEF Remembered
    <3>3. docs'[sent[d].spu].receipts = docs[sent[d].spu].receipts
      BY <1>3, <3>1
    <3>4. Receipted(d)'
      BY <2>1, <3>2, <3>3 DEF Receipted, SameInput
    <3>5. AppliedOnce(d)'
      BY <2>1, <3>2 DEF AppliedOnce
    <3> QED  BY <3>4, <3>5
  <2>3. CASE ~(applied[d] > 0) /\ answer[d] = -1
    <3>1. applied[d] \in Nat
      BY DEF StoreInv, Settings
    <3> QED  BY <2>3, <3>1 DEF Receipted, SameInput, AppliedOnce
  <2> QED  BY <2>2, <2>3
<1> QED  BY <1>4, <1>5 DEF ReceiptInv

\* A request that takes effect gets the only receipt under its commandId; had it taken
\* effect before, its receipt has lapsed and it names no version.
LEMMA EffectIsReceipted ==
  ASSUME StoreInv, ReceiptInv, NEW c \in prepared, Receipts(Stored(sent[c]), c) = {},
         Guarded(sent[c]) => applied[c] = 0,
         NEW version \in Nat, NEW r, r = [id |-> IdOf[c], command |-> c, version |-> version],
         NEW new, new.receipts = Stored(sent[c]).receipts \cup {r},
         new.lapsed = Stored(sent[c]).lapsed,
         docs' = [docs EXCEPT ![sent[c].spu] = new], sent' = sent,
         answer' = [answer EXCEPT ![c] = version], applied' = [applied EXCEPT ![c] = @ + 1]
  PROVE  ReceiptInv'
<1>p. PICK p \in Payload : p = sent[c]
  BY WaitingFacts
<1>1. /\ c \in Commands /\ p.spu \in Spus /\ docs \in [Spus -> Document \cup {NoDocument}]
      /\ docs[p.spu] # NoDocument => Stored(p) = docs[p.spu]
      /\ docs[p.spu] = NoDocument => Stored(p).receipts = {} /\ Stored(p).lapsed = FALSE
      /\ p # NoPayload
  BY <1>p, WaitingFacts DEF StoreInv, GoodStore
<1>2. \A s \in Spus : docs'[s] = IF s = p.spu THEN new ELSE docs[s]
  BY <1>p, <1>1
<1>3. /\ r.id = IdOf[c] /\ r.command = c /\ r.version = version
      /\ answer \in [Commands -> Nat \cup {-1}] /\ applied \in [Commands -> Nat]
  BY DEF StoreInv, Settings
<1>4. \A q \in Stored(p).receipts : q.id # IdOf[c]
  BY <1>p DEF Receipts
<1>5. \A s \in Spus : docs[s] # NoDocument =>
        docs[s].receipts \subseteq docs'[s].receipts /\ docs'[s].lapsed = docs[s].lapsed
  BY <1>p, <1>1, <1>2
<1>6. ReceiptsAreUnique'
  <2> SUFFICES ASSUME NEW s \in Spus, docs'[s] # NoDocument, NEW q \in docs'[s].receipts
               PROVE  /\ q.id = IdOf[q.command] /\ sent[q.command] # NoPayload
                      /\ \A t \in docs'[s].receipts : t.id = q.id => t = q
    BY DEF ReceiptsAreUnique
  <2>1. CASE s # p.spu
    BY <1>2, <2>1 DEF ReceiptInv, ReceiptsAreUnique
  <2>2. CASE s = p.spu
    <3>1. docs'[s].receipts = Stored(p).receipts \cup {r}
      BY <1>p, <1>2, <2>2
    <3>2. \A t \in Stored(p).receipts :
            /\ t.id = IdOf[t.command] /\ sent[t.command] # NoPayload
            /\ \A o \in Stored(p).receipts : o.id = t.id => o = t
      BY <1>1 DEF ReceiptInv, ReceiptsAreUnique
    <3> QED  BY <1>p, <1>1, <1>3, <1>4, <3>1, <3>2
  <2> QED  BY <2>1, <2>2
<1>7. ASSUME NEW d \in Commands, d # c
      PROVE  Receipted(d)' /\ AppliedOnce(d)'
  <2>1. Receipted(d) /\ AppliedOnce(d) /\ applied'[d] = applied[d] /\ answer'[d] = answer[d]
    BY <1>3, <1>7 DEF ReceiptInv
  <2>2. CASE applied[d] > 0 \/ answer[d] # -1
    <3>1. sent[d].spu \in Spus /\ docs[sent[d].spu] # NoDocument
      BY <2>2, EffectFacts
    <3>2. Remembered(sent[d].spu)' => Remembered(sent[d].spu)
      BY <1>5, <3>1 DEF Remembered
    <3>3. docs[sent[d].spu].receipts \subseteq docs'[sent[d].spu].receipts
      BY <1>5, <3>1
    <3>4. Receipted(d)'
      BY <2>1, <3>2, <3>3 DEF Receipted, SameInput
    <3>5. AppliedOnce(d)'
      BY <2>1, <3>2 DEF AppliedOnce
    <3> QED  BY <3>4, <3>5
  <2>3. CASE ~(applied[d] > 0) /\ answer[d] = -1
    <3>1. applied[d] \in Nat
      BY DEF StoreInv, Settings
    <3> QED  BY <2>1, <2>3, <3>1 DEF Receipted, SameInput, AppliedOnce
  <2> QED  BY <2>2, <2>3
<1>8. Receipted(c)'
  <2>1. r \in docs'[p.spu].receipts /\ answer'[c] = version
    BY <1>1, <1>2, <1>3
  <2> QED  BY <1>p, <1>3, <2>1 DEF Receipted, SameInput
<1>9. AppliedOnce(c)'
  <2>1. applied'[c] = applied[c] + 1
    BY <1>1, <1>3
  <2>2. CASE applied[c] = 0
    BY <2>1, <2>2 DEF AppliedOnce
  <2>3. CASE applied[c] > 0
    <3>1. docs[p.spu] # NoDocument
      BY <1>p, <1>1, <2>3, EffectFacts
    <3>2. ~Guarded(p)
      BY <1>p, <2>3
    <3>3. ~Remembered(p.spu)
      BY <1>p, <1>1, <1>4, <2>3, <3>1 DEF ReceiptInv, Receipted, SameInput
    <3>4. ~Remembered(p.spu)'
      BY <1>1, <1>5, <3>1, <3>3 DEF Remembered
    <3> QED  BY <1>p, <3>2, <3>4 DEF AppliedOnce, Guarded
  <2> QED  BY <1>1, <1>3, <2>2, <2>3
<1> QED  BY <1>6, <1>7, <1>8, <1>9 DEF ReceiptInv

-----------------------------------------------------------------------------
(* Steps                                                                    *)

\* A transaction with a result.
LEMMA CommitKeeps ==
  ASSUME SkuInv, NEW c \in prepared, sent[c].op # "external",
         Receipts(Stored(sent[c]), c) = {},
         NEW new, Good(new), Grows(new, Stored(sent[c])),
         new.receipts = Stored(sent[c]).receipts, new.lapsed = Stored(sent[c]).lapsed,
         docs[sent[c].spu] = NoDocument => ~CodeTaken(sent[c].spu, sent[c].code),
         Guarded(sent[c]) => ~Overtaken(sent[c], Stored(sent[c])), Overtaken(sent[c], new),
         \/ sent[c].op # "stock" /\ StockStays(new, Stored(sent[c]))
         \/ /\ sent[c].op = "stock" /\ Rows(new) = Rows(docs[sent[c].spu])
            /\ docs[sent[c].spu].skus[sent[c].sku].stockVersion = sent[c].expected
            /\ \A n \in Rows(new) \ {sent[c].sku} :
                 new.skus[n].stock = docs[sent[c].spu].skus[n].stock
            /\ new.skus[sent[c].sku].stock = sent[c].quantity,
         NEW version \in Nat, Commit(c, new, version)
  PROVE  SkuInv' /\ StoreGrows(docs', docs)
<1> DEFINE r == [id |-> IdOf[c], command |-> c, version |-> version]
           full == [new EXCEPT !.receipts = @ \cup {r}]
<1>1. StoreInv /\ CodesBelongToOneSpu /\ StockInv /\ ReceiptInv
  BY DEF SkuInv
<1>2. c \in Commands
  BY <1>1, WaitingFacts
<1>3. r \in Receipt
  BY <1>2, CommandsAssumption DEF Receipt
<1>4. /\ Good(full) /\ Grows(full, Stored(sent[c])) /\ Rows(full) = Rows(new)
      /\ full.skus = new.skus /\ full.receipts = new.receipts \cup {r}
      /\ full.lapsed = new.lapsed /\ full.structure = new.structure
  BY <1>3, ReceiptAdded
<1>5. /\ docs' = [docs EXCEPT ![sent[c].spu] = full]
      /\ prepared' = prepared \ {c} /\ UNCHANGED <<authority, sent, forwarded>> /\ sent' = sent
      /\ answer' = [answer EXCEPT ![c] = version] /\ applied' = [applied EXCEPT ![c] = @ + 1]
  BY DEF Commit
<1> HIDE DEF full
<1>6. /\ answer \in [Commands -> Nat \cup {-1}] /\ applied \in [Commands -> Nat]
      /\ applied[c] \in Nat
  BY <1>1, <1>2 DEF StoreInv, Settings
<1>7. /\ answer' \in [Commands -> Nat \cup {-1}] /\ applied' \in [Commands -> Nat]
      /\ \A d \in Commands \ {c} : answer'[d] = answer[d] /\ applied'[d] = applied[d]
  BY <1>2, <1>5, <1>6
<1>8. Overtaken(sent[c], full)
  BY <1>4 DEF Overtaken
<1>9. StoreInv' /\ CodesBelongToOneSpu' /\ StoreGrows(docs', docs)
  BY <1>1, <1>4, <1>5, <1>7, <1>8, WriteKeepsStore
<1>10. Guarded(sent[c]) => applied[c] = 0
  <2> SUFFICES ASSUME Guarded(sent[c]), applied[c] > 0 PROVE FALSE
    BY <1>6
  <2>1. Behind(docs, sent[c], applied[c])
    BY <1>1, WaitingFacts
  <2>2. docs[sent[c].spu] # NoDocument /\ Overtaken(sent[c], docs[sent[c].spu])
    BY <1>6, <2>1, BehindIsOvertaken
  <2>3. Stored(sent[c]) = docs[sent[c].spu]
    BY <1>1, <2>2, WaitingFacts
  <2> QED  BY <2>2, <2>3
<1>11. ReceiptInv'
  <2>1. full.receipts = Stored(sent[c]).receipts \cup {r} /\ full.lapsed = Stored(sent[c]).lapsed
    BY <1>4
  <2> HIDE DEF r
  <2>2. r = [id |-> IdOf[c], command |-> c, version |-> version]
    BY DEF r
  <2> QED  BY <1>1, <1>5, <1>10, <2>1, <2>2, EffectIsReceipted
<1>12. StockInv'
  <2>1. CASE sent[c].op # "stock" /\ StockStays(new, Stored(sent[c]))
    <3>1. StockStays(full, Stored(sent[c]))
      BY <1>4, <2>1 DEF StockStays
    <3>2. \A d \in Commands : sent[d].op = "stock" => (applied'[d] > 0 <=> applied[d] > 0)
      BY <1>7, <2>1
    <3> QED  BY <1>1, <1>4, <1>5, <3>1, <3>2, WriteLeavesStock
  <2>2. CASE /\ sent[c].op = "stock" /\ Rows(new) = Rows(docs[sent[c].spu])
             /\ docs[sent[c].spu].skus[sent[c].sku].stockVersion = sent[c].expected
             /\ \A n \in Rows(new) \ {sent[c].sku} :
                  new.skus[n].stock = docs[sent[c].spu].skus[n].stock
             /\ new.skus[sent[c].sku].stock = sent[c].quantity
    <3>1. /\ Rows(full) = Rows(docs[sent[c].spu])
          /\ \A n \in Rows(full) \ {sent[c].sku} :
               full.skus[n].stock = docs[sent[c].spu].skus[n].stock
          /\ full.skus[sent[c].sku].stock = sent[c].quantity
      BY <1>4, <2>2
    <3> QED  BY <1>1, <1>4, <1>5, <2>2, <3>1, BookingCounts
  <2> QED  BY <2>1, <2>2
<1> QED  BY <1>9, <1>11, <1>12 DEF SkuInv

\* A transaction that returns a problem, and what it wrote before it met it.
LEMMA RefuseKeeps ==
  ASSUME SkuInv, NEW c \in prepared, sent[c].op # "external",
         NEW new, Good(new), Grows(new, Stored(sent[c])), StockStays(new, Stored(sent[c])),
         new.receipts = Stored(sent[c]).receipts, new.lapsed = Stored(sent[c]).lapsed,
         docs[sent[c].spu] = NoDocument => ~CodeTaken(sent[c].spu, sent[c].code),
         Refuse(c, new)
  PROVE  SkuInv' /\ StoreGrows(docs', docs)
<1>1. StoreInv /\ CodesBelongToOneSpu /\ StockInv /\ ReceiptInv
  BY DEF SkuInv
<1>2. /\ docs' = [docs EXCEPT ![sent[c].spu] = new] /\ prepared' = prepared \ {c}
      /\ UNCHANGED <<authority, sent, forwarded>> /\ UNCHANGED <<sent, answer, applied>>
  BY DEF Refuse
<1>3. answer' \in [Commands -> Nat \cup {-1}] /\ applied' \in [Commands -> Nat]
  BY <1>1, <1>2 DEF StoreInv, Settings
<1>4. StoreInv' /\ CodesBelongToOneSpu' /\ StoreGrows(docs', docs)
  BY <1>1, <1>2, <1>3, WriteKeepsStore
<1>5. ReceiptInv'
  BY <1>1, <1>2, WriteKeepsReceipts
<1>6. StockInv'
  BY <1>1, <1>2, WriteLeavesStock
<1> QED  BY <1>4, <1>5, <1>6 DEF SkuInv

\* A store that no step touches.
LEMMA SameGrows ==
  ASSUME StoreInv, docs' = docs
  PROVE  StoreGrows(docs', docs)
BY GrowsItself DEF StoreGrows, StoreInv, GoodStore

\* A request built from what its client has read.
LEMMA SendKeeps ==
  ASSUME SkuInv, NEW c \in Commands, NEW payload \in Payload, Behind(docs, payload, 0),
         Send(c, payload)
  PROVE  SkuInv' /\ StoreGrows(docs', docs)
<1>1. StoreInv /\ CodesBelongToOneSpu /\ StockInv /\ ReceiptInv
  BY DEF SkuInv
<1>2. /\ sent[c] = NoPayload /\ sent \in [Commands -> Payload \cup {NoPayload}]
      /\ applied \in [Commands -> Nat]
      /\ sent' = [sent EXCEPT ![c] = payload]
      /\ UNCHANGED <<docs, authority, prepared, answer, applied, forwarded>>
  BY <1>1 DEF Send, StoreInv, Settings
<1>3. applied[c] = 0 /\ answer[c] = -1 /\ c \notin prepared
  BY <1>1, <1>2 DEF StoreInv, Reads
<1>4. \A d \in Commands : sent'[d] = IF d = c THEN payload ELSE sent[d]
  BY <1>2
<1>5. payload # NoPayload
  BY PayloadFacts
<1>6. StoreInv'
  <2>1. Settings'
    BY <1>1, <1>2 DEF StoreInv, Settings
  <2>2. ASSUME NEW d \in Commands
        PROVE  Reads(d)'
    <3>1. Reads(d)
      BY <1>1 DEF StoreInv
    <3>2. CASE d = c
      BY <1>2, <1>3, <1>4, <1>5, <3>2 DEF Reads
    <3>3. CASE d # c
      <4>1. sent'[d] = sent[d]
        BY <1>4, <3>3
      <4> QED  BY <1>2, <3>1, <4>1 DEF Reads
    <3> QED  BY <3>2, <3>3
  <2>3. GoodStore(docs)'
    BY <1>1, <1>2 DEF StoreInv
  <2> QED  BY <2>1, <2>2, <2>3 DEF StoreInv
<1>7. StockInv'
  <2>1. ASSUME NEW spu, NEW n
        PROVE  Booked(spu, n)' = Booked(spu, n)
    BY <1>2, <1>3, <1>4 DEF Booked
  <2>2. NoLostStock'
    <3> SUFFICES ASSUME NEW spu \in Spus, docs[spu] # NoDocument, NEW n \in Rows(docs[spu])
                 PROVE  docs[spu].skus[n].stock = Cardinality(Booked(spu, n)')
      BY <1>2 DEF NoLostStock, Booked
    <3>1. docs[spu].skus[n].stock = Cardinality(Booked(spu, n))
      BY <1>1 DEF StockInv, NoLostStock, Booked
    <3> QED  BY <2>1, <3>1
  <2>3. \A d \in prepared : sent'[d] = sent[d]
    BY <1>1, <1>3, <1>4 DEF StoreInv, Settings
  <2>4. StockHasOneAuthority'
    BY <1>1, <1>2, <2>3 DEF StockInv, StockHasOneAuthority
  <2> QED  BY <2>2, <2>4 DEF StockInv
<1>8. ReceiptInv'
  <2>1. \A s \in Spus : docs[s] # NoDocument => \A r \in docs[s].receipts :
          r.command \in Commands /\ sent[r.command] # NoPayload /\ sent'[r.command] = sent[r.command]
    <3> SUFFICES ASSUME NEW s \in Spus, docs[s] # NoDocument, NEW r \in docs[s].receipts
                 PROVE  /\ r.command \in Commands /\ sent[r.command] # NoPayload
                        /\ sent'[r.command] = sent[r.command]
      OBVIOUS
    <3>1. r \in Receipt
      BY <1>1, DocumentFacts DEF StoreInv, GoodStore
    <3>2. r.command \in Commands
      BY <3>1 DEF Receipt
    <3>3. sent[r.command] # NoPayload
      BY <1>1 DEF ReceiptInv, ReceiptsAreUnique
    <3> QED  BY <1>2, <1>4, <3>2, <3>3
  <2>2. ReceiptsAreUnique'
    BY <1>1, <1>2, <2>1 DEF ReceiptInv, ReceiptsAreUnique
  <2>3. ASSUME NEW d \in Commands
        PROVE  Receipted(d)' /\ AppliedOnce(d)'
    <3>1. Receipted(d) /\ AppliedOnce(d)
      BY <1>1 DEF ReceiptInv
    <3>2. CASE d = c
      BY <1>2, <1>3, <3>2 DEF Receipted, SameInput, AppliedOnce
    <3>3. CASE d # c
      <4>1. sent'[d] = sent[d]
        BY <1>4, <3>3
      <4>2. AppliedOnce(d)'
        BY <1>2, <3>1, <4>1 DEF AppliedOnce, Remembered
      <4>3. CASE sent[d] # NoPayload /\ Remembered(sent[d].spu)
        <5>1. sent[d].spu \in Spus /\ docs[sent[d].spu] # NoDocument
          BY <1>2, <4>3, PayloadFacts DEF Remembered
        <5> QED  BY <1>2, <2>1, <3>1, <4>1, <4>2, <4>3, <5>1 DEF Receipted, SameInput
      <4>4. CASE ~(sent[d] # NoPayload /\ Remembered(sent[d].spu))
        BY <1>2, <4>1, <4>2, <4>4 DEF Receipted, SameInput, Remembered
      <4> QED  BY <4>3, <4>4
    <3> QED  BY <3>2, <3>3
  <2> QED  BY <2>2, <2>3 DEF ReceiptInv
<1>9. CodesBelongToOneSpu'
  BY <1>1, <1>2 DEF CodesBelongToOneSpu
<1>10. StoreGrows(docs', docs)
  BY <1>1, <1>2, SameGrows
<1> QED  BY <1>6, <1>7, <1>8, <1>9, <1>10 DEF SkuInv

\* Steps that leave documents, requests and their effects alone.
LEMMA AsideKeeps ==
  ASSUME SkuInv, UNCHANGED <<docs, sent, applied, answer>>,
         authority' \in Authorities \cup {Unbound}, prepared' \subseteq Commands,
         forwarded' \subseteq Commands, \A c \in prepared' : sent[c] # NoPayload,
         authority = "local" => authority' = "local",
         authority = "external" => authority' = "external",
         \A c \in prepared' \ prepared : /\ sent[c].op = "stock" => authority' = "local"
                                         /\ sent[c].op = "external" => authority' = "external",
         forwarded' = forwarded \/ authority' = "external"
  PROVE  SkuInv' /\ StoreGrows(docs', docs)
<1>1. StoreInv /\ CodesBelongToOneSpu /\ StockInv /\ ReceiptInv
  BY DEF SkuInv
<1>2. Settings'
  BY <1>1 DEF StoreInv, Settings
<1>3. ASSUME NEW d \in Commands
      PROVE  Reads(d)'
  BY <1>1 DEF StoreInv, Reads
<1>4. GoodStore(docs)'
  BY <1>1 DEF StoreInv
<1>5. StockInv'
  <2>1. NoLostStock'
    BY <1>1 DEF StockInv, NoLostStock
  <2>2. StockHasOneAuthority'
    BY <1>1 DEF StockInv, StockHasOneAuthority
  <2> QED  BY <2>1, <2>2 DEF StockInv
<1>6. ReceiptInv'
  BY <1>1 DEF ReceiptInv, ReceiptsAreUnique, Receipted, SameInput, AppliedOnce, Remembered
<1>7. CodesBelongToOneSpu'
  BY <1>1 DEF CodesBelongToOneSpu
<1>8. StoreGrows(docs', docs)
  BY <1>1, SameGrows
<1> QED  BY <1>2, <1>3, <1>4, <1>5, <1>6, <1>7, <1>8 DEF SkuInv, StoreInv

\* The statements before the transaction bind the authority once and for all.
LEMMA PrepareKeeps ==
  ASSUME SkuInv, NEW c \in Commands, Prepare(c)
  PROVE  SkuInv' /\ StoreGrows(docs', docs)
<1>1. PICK a \in Authorities :
        /\ authority \in {Unbound, a} /\ authority' = a
        /\ sent[c].op = "stock" => a = "local"
        /\ sent[c].op = "external" => a = "external"
  BY DEF Prepare
<1>2. /\ sent[c] # NoPayload /\ prepared' = prepared \cup {c}
      /\ UNCHANGED <<docs, sent, applied, answer>> /\ forwarded' = forwarded
  BY DEF Prepare
<1>3. /\ prepared \subseteq Commands /\ forwarded \subseteq Commands
      /\ \A d \in prepared : sent[d] # NoPayload
  BY DEF SkuInv, StoreInv, Settings, Reads
<1>4. /\ authority = "local" => authority' = "local"
      /\ authority = "external" => authority' = "external"
  BY <1>1, AuthoritiesAssumption
<1> QED  BY <1>1, <1>2, <1>3, <1>4, AsideKeeps

\* A transaction that throws.
LEMMA AbandonKeeps ==
  ASSUME SkuInv, NEW c \in prepared, Abandon(c)
  PROVE  SkuInv' /\ StoreGrows(docs', docs)
<1>1. /\ prepared' = prepared \ {c} /\ authority' = authority /\ forwarded' = forwarded
      /\ UNCHANGED <<docs, sent, applied, answer>>
  BY DEF Abandon
<1>2. /\ prepared \subseteq Commands /\ forwarded \subseteq Commands
      /\ authority \in Authorities \cup {Unbound}
      /\ \A d \in prepared : sent[d] # NoPayload
  BY DEF SkuInv, StoreInv, Settings, Reads
<1> QED  BY <1>1, <1>2, AsideKeeps

\* A request handed to the adapter for external stock.
LEMMA SetExternalKeeps ==
  ASSUME SkuInv, NEW c \in Commands, SetExternalInventory(c)
  PROVE  SkuInv' /\ StoreGrows(docs', docs)
<1>1. /\ c \in prepared /\ sent[c].op = "external" /\ prepared' = prepared \ {c}
      /\ forwarded' = forwarded \cup {c} /\ authority' = authority
      /\ UNCHANGED <<docs, sent, applied, answer>>
  BY DEF SetExternalInventory
<1>2. /\ prepared \subseteq Commands /\ forwarded \subseteq Commands
      /\ authority \in Authorities \cup {Unbound}
      /\ \A d \in prepared : sent[d] # NoPayload
  BY DEF SkuInv, StoreInv, Settings, Reads
<1>3. authority = "external"
  BY <1>1 DEF SkuInv, StockInv, StockHasOneAuthority
<1> QED  BY <1>1, <1>2, <1>3, AsideKeeps

\* A command whose receipt lives: its answer is the one the receipt holds.
LEMMA ReplayKeeps ==
  ASSUME SkuInv, NEW c \in Commands, Replay(c)
  PROVE  SkuInv' /\ StoreGrows(docs', docs)
<1>1. PICK r \in Receipts(Stored(sent[c]), c) :
        answer' = IF SameInput(r.command, c) THEN [answer EXCEPT ![c] = r.version] ELSE answer
  BY DEF Replay
<1>2. /\ c \in prepared /\ prepared' = prepared \ {c} /\ authority' = authority
      /\ forwarded' = forwarded /\ UNCHANGED <<docs, sent, applied>>
  BY DEF Replay
<1>3. StoreInv /\ CodesBelongToOneSpu /\ StockInv /\ ReceiptInv
  BY DEF SkuInv
<1>4. /\ prepared \subseteq Commands /\ forwarded \subseteq Commands
      /\ authority \in Authorities \cup {Unbound} /\ answer \in [Commands -> Nat \cup {-1}]
      /\ \A d \in prepared : sent[d] # NoPayload
  BY <1>3 DEF StoreInv, Settings, Reads
<1>5. CASE answer' = answer
  BY <1>2, <1>4, <1>5, AsideKeeps
<1>6. CASE SameInput(r.command, c) /\ answer' = [answer EXCEPT ![c] = r.version]
  <2>1. /\ docs[sent[c].spu] # NoDocument /\ Stored(sent[c]) = docs[sent[c].spu]
        /\ sent[c] # NoPayload
    BY <1>2, <1>3, WaitingFacts DEF Receipts
  <2>2. r \in docs[sent[c].spu].receipts /\ r.id = IdOf[c]
    BY <2>1 DEF Receipts
  <2>3. r \in Receipt
    BY <1>2, <1>3, <2>1, <2>2, WaitingFacts, DocumentFacts
  <2>4. r.version \in Nat
    BY <2>3 DEF Receipt
  <2>5. /\ answer' \in [Commands -> Nat \cup {-1}] /\ answer'[c] = r.version
        /\ \A d \in Commands : d # c => answer'[d] = answer[d]
    BY <1>4, <1>6, <2>4
  <2>6. Settings'
    BY <1>2, <1>3, <2>5 DEF StoreInv, Settings
  <2>7. ASSUME NEW d \in Commands
        PROVE  Reads(d)'
    <3>1. Reads(d)
      BY <1>3 DEF StoreInv
    <3>2. CASE d = c
      BY <1>2, <2>1, <3>1, <3>2 DEF Reads
    <3>3. CASE d # c
      BY <1>2, <2>5, <3>1, <3>3 DEF Reads
    <3> QED  BY <3>2, <3>3
  <2>8. StoreInv'
    BY <1>2, <1>3, <2>6, <2>7 DEF StoreInv
  <2>9. StockInv'
    <3>1. NoLostStock'
      BY <1>2, <1>3 DEF StockInv, NoLostStock
    <3>2. StockHasOneAuthority'
      BY <1>2, <1>3 DEF StockInv, StockHasOneAuthority
    <3> QED  BY <3>1, <3>2 DEF StockInv
  <2>10. ReceiptInv'
    <3>1. ReceiptsAreUnique'
      BY <1>2, <1>3 DEF ReceiptInv, ReceiptsAreUnique
    <3>2. ASSUME NEW d \in Commands
          PROVE  Receipted(d)' /\ AppliedOnce(d)'
      <4>1. Receipted(d) /\ AppliedOnce(d)
        BY <1>3 DEF ReceiptInv
      <4>2. AppliedOnce(d)'
        BY <1>2, <4>1 DEF AppliedOnce, Remembered
      <4>3. CASE d = c
        <5>1. Receipted(c)'
          BY <1>2, <1>6, <2>2, <2>5, <4>1, <4>3 DEF Receipted, SameInput, Remembered
        <5> QED  BY <4>2, <4>3, <5>1
      <4>4. CASE d # c
        <5>1. Receipted(d)'
          BY <1>2, <2>5, <4>1, <4>4 DEF Receipted, SameInput, Remembered
        <5> QED  BY <4>2, <5>1
      <4> QED  BY <4>3, <4>4
    <3> QED  BY <3>1, <3>2 DEF ReceiptInv
  <2>11. CodesBelongToOneSpu'
    BY <1>2, <1>3 DEF CodesBelongToOneSpu
  <2>12. StoreGrows(docs', docs)
    BY <1>2, <1>3, SameGrows
  <2> QED  BY <2>8, <2>9, <2>10, <2>11, <2>12 DEF SkuInv
<1> QED  BY <1>1, <1>5, <1>6

\* Receipts lapse: nothing is remembered of requests, and the versions remain.
LEMMA LapseKeeps ==
  ASSUME SkuInv, NEW spu \in Spus, Lapse(spu)
  PROVE  SkuInv' /\ StoreGrows(docs', docs)
<1> DEFINE old == docs[spu]
           new == [old EXCEPT !.receipts = {}, !.lapsed = TRUE]
<1>1. StoreInv /\ CodesBelongToOneSpu /\ StockInv /\ ReceiptInv
  BY DEF SkuInv
<1>2. /\ docs[spu] # NoDocument /\ Good(old) /\ old \in Document
      /\ docs \in [Spus -> Document \cup {NoDocument}]
  BY <1>1 DEF Lapse, StoreInv, GoodStore, Good
<1>3. docs' = [docs EXCEPT ![spu] = new]
  BY <1>2 DEF Lapse, Document
<1>4. UNCHANGED <<authority, sent, prepared, answer, applied, forwarded>>
  BY DEF Lapse
<1>5. /\ new.code = old.code /\ new.structure = old.structure /\ new.next = old.next
      /\ new.dims = old.dims /\ new.skus = old.skus /\ new.receipts = {}
  BY <1>2 DEF Document
<1>6. new.lapsed = TRUE
  BY <1>2 DEF Document
<1>7. new \in Document
  <2>1. [old EXCEPT !.receipts = {}] \in Document
    BY <1>2 DEF Document
  <2>2. PICK f \in Document : f = [old EXCEPT !.receipts = {}]
    BY <2>1
  <2>3. [f EXCEPT !.lapsed = TRUE] \in Document
    BY DEF Document
  <2>4. new = [f EXCEPT !.lapsed = TRUE]
    BY <1>2, <2>2 DEF Document
  <2> QED  BY <2>3, <2>4
<1> HIDE DEF new
<1>8. Rows(new) = Rows(old)
  BY <1>5 DEF Rows
<1>9. Good(new)
  BY <1>2, <1>5, <1>7, <1>8 DEF Good
<1>10. Grows(new, old)
  <2>1. Grows(old, old)
    BY <1>2, GrowsItself
  <2> QED  BY <1>5, <1>8, <2>1 DEF Grows
<1> DEFINE touch == [op |-> "external", spu |-> spu, sku |-> 0]
<1>11. touch \in Payload /\ touch.spu = spu
  BY CapacityAssumption DEF Payload, Sequences
<1> HIDE DEF touch
<1>12. docs' = Written(docs, touch.spu, new) /\ StoredIn(docs, touch) = old
       /\ docs[touch.spu] # NoDocument
  BY <1>2, <1>3, <1>11 DEF Written, StoredIn
<1>13. Grows(new, StoredIn(docs, touch)) /\ GoodStore(docs)
  BY <1>1, <1>10, <1>12 DEF StoreInv
<1>14. /\ GoodStore(Written(docs, touch.spu, new)) /\ StoreGrows(Written(docs, touch.spu, new), docs)
  BY <1>9, <1>11, <1>12, <1>13, WriteKeeps
<1>15. GoodStore(docs') /\ StoreGrows(docs', docs)
  BY <1>12, <1>14
<1>16. \A s \in Spus : docs'[s] = IF s = spu THEN new ELSE docs[s]
  BY <1>2, <1>3
<1>17. new # NoDocument
  BY <1>7, NothingAssumption
<1>18. ASSUME NEW d \in Commands
       PROVE  Reads(d)'
  <2>1. Reads(d) /\ applied[d] \in Nat
    BY <1>1 DEF StoreInv, Settings
  <2>2. CASE sent[d] = NoPayload
    BY <1>4, <2>1, <2>2 DEF Reads
  <2>3. CASE sent[d] # NoPayload
    <3>1. sent[d] \in Payload /\ sent[d].spu \in Spus
      BY <1>1, <2>3, PayloadFacts DEF StoreInv, Settings
    <3>2. Behind(docs, sent[d], applied[d])
      BY <2>1, <2>3 DEF Reads
    <3>3. PICK q \in Payload : q = sent[d]
      BY <3>1
    <3>4. PICK times \in Nat : times = applied[d]
      BY <2>1
    <3>5. Behind(docs, q, times) /\ Good(new)
      BY <1>9, <3>2, <3>3, <3>4
    <3>6. Behind(Written(docs, touch.spu, new), q, times)
      BY ONLY q \in Payload, times \in Nat, <1>11, <1>12, <1>13, <3>5, WriteKeepsBehind, ZenonT(60)
    <3>7. Behind(docs', sent[d], applied[d])
      BY <1>12, <3>3, <3>4, <3>6, Zenon
    <3>8. docs[sent[d].spu] # NoDocument => docs'[sent[d].spu] # NoDocument
      BY <1>16, <1>17, <3>1
    <3> QED  BY <1>4, <2>1, <2>3, <3>7, <3>8 DEF Reads
  <2> QED  BY <2>2, <2>3
<1>19. StoreInv'
  BY <1>1, <1>4, <1>15, <1>18 DEF StoreInv, Settings
<1>20. StockInv'
  <2>1. ASSUME NEW s, NEW n
        PROVE  Booked(s, n)' = Booked(s, n)
    BY <1>4 DEF Booked
  <2>2. NoLostStock'
    <3> SUFFICES ASSUME NEW s \in Spus, docs'[s] # NoDocument, NEW n \in Rows(docs'[s])
                 PROVE  docs'[s].skus[n].stock = Cardinality(Booked(s, n)')
      BY DEF NoLostStock, Booked
    <3>1. docs[s] # NoDocument /\ n \in Rows(docs[s]) /\ docs'[s].skus = docs[s].skus
      BY <1>2, <1>5, <1>8, <1>16
    <3>2. docs[s].skus[n].stock = Cardinality(Booked(s, n))
      BY <1>1, <3>1 DEF StockInv, NoLostStock, Booked
    <3> QED  BY <2>1, <3>1, <3>2
  <2>3. StockHasOneAuthority'
    <3>1. \A s \in Spus : docs'[s] # NoDocument => docs[s] # NoDocument
      BY <1>2, <1>16
    <3>2. \A s \in Spus : docs'[s] # NoDocument /\ HasStock(docs'[s]) => HasStock(docs[s])
      BY <1>5, <1>8, <1>16 DEF HasStock
    <3> QED  BY <1>1, <1>4, <3>1, <3>2 DEF StockInv, StockHasOneAuthority
  <2> QED  BY <2>2, <2>3 DEF StockInv
<1>21. ReceiptInv'
  <2>1. ReceiptsAreUnique'
    BY <1>1, <1>4, <1>5, <1>16 DEF ReceiptInv, ReceiptsAreUnique
  <2>2. ASSUME NEW d \in Commands
        PROVE  Receipted(d)' /\ AppliedOnce(d)'
    <3>1. Receipted(d) /\ AppliedOnce(d)
      BY <1>1 DEF ReceiptInv
    <3>2. CASE sent[d] = NoPayload
      BY <1>4, <3>2 DEF Receipted, SameInput, AppliedOnce
    <3>3. CASE sent[d] # NoPayload /\ sent[d].spu = spu
      <4>1. ~Remembered(spu)'
        BY <1>6, <1>16 DEF Remembered
      <4> QED  BY <1>4, <3>1, <3>3, <4>1 DEF Receipted, SameInput, AppliedOnce
    <3>4. CASE sent[d] # NoPayload /\ sent[d].spu # spu
      <4>1. sent[d].spu \in Spus
        BY <1>1, <3>4, PayloadFacts DEF StoreInv, Settings
      <4>2. docs'[sent[d].spu] = docs[sent[d].spu]
        BY <1>16, <3>4, <4>1
      <4> QED  BY <1>4, <3>1, <4>2 DEF Receipted, SameInput, AppliedOnce, Remembered
    <3> QED  BY <3>2, <3>3, <3>4
  <2> QED  BY <2>1, <2>2 DEF ReceiptInv
<1>22. CodesBelongToOneSpu'
  BY <1>1, <1>2, <1>5, <1>16 DEF CodesBelongToOneSpu
<1> QED  BY <1>15, <1>19, <1>20, <1>21, <1>22 DEF SkuInv

-----------------------------------------------------------------------------
(* Requests are built from what is stored                                   *)

\* The pairs a document holds: finitely many, of dimensions it has.
LEMMA KnownFacts ==
  ASSUME NEW doc, Good(doc)
  PROVE  /\ IsFiniteSet(KnownSpecs(doc))
         /\ \A s \in KnownSpecs(doc) : s \in Int \X Int /\ s[1] \in DOMAIN doc.dims
<1> DEFINE part(d) == {<<d, v>> : v \in DOMAIN doc.dims[d].values}
           f == [d \in DOMAIN doc.dims |-> part(d)]
<1>1. PICK k \in Nat : DOMAIN doc.dims = 1 .. k
  BY DocumentFacts
<1>2. ASSUME NEW d \in DOMAIN doc.dims
      PROVE  \E m \in Nat : DOMAIN doc.dims[d].values = 1 .. m
  <2>1. doc.dims[d] \in Dimension
    BY DocumentFacts
  <2>2. doc.dims[d].values \in Seq(Value)
    BY <2>1 DEF Dimension
  <2> QED  BY <2>2
<1>3. ASSUME NEW d \in DOMAIN doc.dims
      PROVE  IsFiniteSet(part(d)) /\ \A s \in part(d) : s \in Int \X Int /\ s[1] = d
  <2>1. PICK m \in Nat : DOMAIN doc.dims[d].values = 1 .. m
    BY <1>2
  <2> DEFINE g == [v \in 1 .. m |-> <<d, v>>]
  <2>2. IsFiniteSet({g[v] : v \in 1 .. m})
    <3>1. IsFiniteSet(1 .. m)
      BY FS_Interval
    <3>2. DOMAIN g = 1 .. m
      OBVIOUS
    <3> HIDE DEF g
    <3> QED  BY ONLY <3>1, <3>2, ImageFinite, Zenon
  <2>3. part(d) = {g[v] : v \in 1 .. m}
    BY <2>1
  <2>4. \A s \in part(d) : s \in Int \X Int /\ s[1] = d
    BY <1>1, <2>1
  <2> QED  BY <2>2, <2>3, <2>4
<1> HIDE DEF part
<1>4. IsFiniteSet({f[d] : d \in DOMAIN doc.dims})
  <2>1. IsFiniteSet(DOMAIN doc.dims)
    BY <1>1, FS_Interval
  <2>2. DOMAIN f = DOMAIN doc.dims
    OBVIOUS
  <2> HIDE DEF f
  <2> QED  BY ONLY <2>1, <2>2, ImageFinite, Zenon
<1>5. {f[d] : d \in DOMAIN doc.dims} = {part(d) : d \in DOMAIN doc.dims}
  OBVIOUS
<1>6. KnownSpecs(doc) \subseteq UNION {part(d) : d \in DOMAIN doc.dims}
  BY DEF KnownSpecs, part
<1>7. IsFiniteSet(UNION {part(d) : d \in DOMAIN doc.dims})
  <2>1. \A T \in {part(d) : d \in DOMAIN doc.dims} : IsFiniteSet(T)
    BY <1>3
  <2>2. IsFiniteSet({part(d) : d \in DOMAIN doc.dims})
    BY <1>4, <1>5
  <2> QED  BY ONLY <2>1, <2>2, FS_UNION, Zenon
<1>8. \A s \in KnownSpecs(doc) : s \in Int \X Int /\ s[1] \in DOMAIN doc.dims
  BY <1>3, <1>6
<1>9. IsFiniteSet(KnownSpecs(doc))
  BY <1>6, <1>7, FS_Subset
<1> QED  BY <1>8, <1>9

\* The drafts a form may name.
LEMMA DraftFacts ==
  ASSUME NEW doc, Good(doc)
  PROVE  /\ IsFiniteSet(DraftSpecs(doc))
         /\ \A s \in DraftSpecs(doc) : s \in Int \X Int /\ s[1] \in DOMAIN doc.dims \cup {-1}
<1>1. PICK k \in Nat : DOMAIN doc.dims = 1 .. k
  BY DocumentFacts
<1> DEFINE D == 1 .. k \cup {-1}
           V == -MaxValues .. -1
<1>2. IsFiniteSet(1 .. k) /\ IsFiniteSet(V)
  BY BoundsAssumption, FS_Interval
<1>3. IsFiniteSet(D)
  BY <1>2, FS_AddElement
<1>4. IsFiniteSet(D \X V)
  BY <1>2, <1>3, FS_Product
<1>5. DraftSpecs(doc) \subseteq D \X V
  BY <1>1 DEF DraftSpecs
<1>6. IsFiniteSet(DraftSpecs(doc))
  BY <1>4, <1>5, FS_Subset
<1>7. \A s \in DraftSpecs(doc) : s \in Int \X Int /\ s[1] \in DOMAIN doc.dims \cup {-1}
  BY <1>1, <1>5, BoundsAssumption
<1> QED  BY <1>6, <1>7

\* The combinations a form may sell.
LEMMA ChoicesFacts ==
  ASSUME NEW doc, Good(doc), NEW specs \in SUBSET (Int \X Int), NEW line \in Choices(doc, specs)
  PROVE  line \in SUBSET (Int \X Int)
<1> DEFINE pairs == specs \cup KnownSpecs(doc)
           picks(D) == {f \in [D -> {s[2] : s \in pairs}] : \A d \in D : <<d, f[d]>> \in pairs}
<1>1. \E D : \E f \in picks(D) : line = {<<d, f[d]>> : d \in D}
  BY DEF Choices
<1>2. PICK D, f : f \in picks(D) /\ line = {<<d, f[d]>> : d \in D}
  BY <1>1
<1>3. \A d \in D : <<d, f[d]>> \in pairs
  BY <1>2
<1>4. \A s \in pairs : s \in Int \X Int
  BY KnownFacts
<1> QED  BY <1>2, <1>3, <1>4

\* The ids a form may give.
LEMMA NamingsFacts ==
  ASSUME NEW doc, Good(doc), NEW specs \in SUBSET (Int \X Int), NEW named \in Namings(doc, specs)
  PROVE  named \in SUBSET (Int \X (Int \X Int))
<1> DEFINE drafts == {-s[2] : s \in {t \in specs : t[1] = -1}}
           read == {doc.dims[s[1]].values[s[2]].id : s \in KnownSpecs(doc)}
<1>1. named \subseteq drafts \X (read \cup OwnIds)
  BY DEF Namings
<1>2. drafts \subseteq Int
  OBVIOUS
<1>3. OwnIds \subseteq Int \X Int
  BY IdsAssumption
<1>4. ASSUME NEW s \in KnownSpecs(doc)
      PROVE  doc.dims[s[1]].values[s[2]].id \in Int \X Int
  <2>1. PICK d \in DOMAIN doc.dims : \E v \in DOMAIN doc.dims[d].values : s = <<d, v>>
    BY DEF KnownSpecs
  <2>2. PICK v \in DOMAIN doc.dims[d].values : s = <<d, v>>
    BY <2>1
  <2>3. doc.dims[d] \in Dimension
    BY DocumentFacts
  <2>4. doc.dims[d].values \in Seq(Value)
    BY <2>3 DEF Dimension
  <2>5. doc.dims[d].values[v] \in Value
    BY <2>4
  <2> QED  BY <2>2, <2>5 DEF Value
<1>5. read \subseteq Int \X Int
  BY <1>4
<1> QED  BY <1>1, <1>2, <1>3, <1>5

\* A form carries the version it was made from, or none.
LEMMA SavesFit ==
  ASSUME StoreInv, NEW spu \in Spus, NEW code \in SpuCodes, NEW form \in Forms(spu, code)
  PROVE  form \in Payload /\ Behind(docs, form, 0)
<1> DEFINE doc == IF docs[spu] = NoDocument THEN Created(code) ELSE docs[spu]
           of(specs) == UNION {Saves(spu, code, doc, specs, named) : named \in Namings(doc, specs)}
<1>1. Good(doc)
  BY CreatedIsGood DEF StoreInv, GoodStore
<1>2. form \in UNION {of(specs) : specs \in Lists(doc)}
  BY DEF Forms
<1> HIDE DEF doc, of
<1>s. PICK specs \in Lists(doc) : form \in of(specs)
  BY <1>2
<1>t. PICK named \in Namings(doc, specs) : form \in Saves(spu, code, doc, specs, named)
  BY <1>s DEF of
<1>3. PICK choices \in Fillings(doc, specs), before \in Orders(doc, specs, named),
           restore \in {{}, Rows(doc) \ Active(doc)}, expected \in {Unversioned, doc.structure} :
          form = [op |-> "save", spu |-> spu, code |-> code, specs |-> specs, choices |-> choices,
                  named |-> named, before |-> before, restore |-> restore, expected |-> expected,
                  seen |-> doc.next]
  BY <1>t DEF Saves
<1>4. /\ form.op = "save" /\ form.spu = spu /\ form.code = code /\ form.specs = specs
      /\ form.choices = choices /\ form.expected = expected /\ form.seen = doc.next
  BY <1>3
<1>5. specs \subseteq KnownSpecs(doc) \cup DraftSpecs(doc)
  BY DEF Lists
<1>6. IsFiniteSet(specs)
  BY <1>1, <1>5, KnownFacts, DraftFacts, FS_Union, FS_Subset
<1>7. \A s \in specs : s \in Int \X Int /\ s[1] \in DOMAIN doc.dims \cup {-1}
  BY <1>1, <1>5, KnownFacts, DraftFacts
<1>8. IsFiniteSet(choices) /\ choices \in SUBSET SUBSET (Int \X Int)
  <2>1. CASE specs = {}
    BY <2>1, FS_EmptySet DEF Fillings
  <2>2. CASE specs # {}
    <3>1. PICK f \in [1 .. MaxChoices -> Choices(doc, specs)] : choices = {f[i] : i \in 1 .. MaxChoices}
      BY <2>2 DEF Fillings
    <3>2. IsFiniteSet(choices)
      <4>1. IsFiniteSet(1 .. MaxChoices) /\ DOMAIN f = 1 .. MaxChoices
        BY <3>1, BoundsAssumption, FS_Interval
      <4> QED  BY ONLY <3>1, <4>1, ImageFinite, Zenon
    <3>3. \A line \in choices : line \in Choices(doc, specs)
      BY <3>1
    <3>4. \A line \in choices : line \in SUBSET (Int \X Int)
      BY <1>1, <1>7, <3>3, ChoicesFacts
    <3> QED  BY <3>2, <3>4
  <2> QED  BY <2>1, <2>2
<1>9. /\ doc.structure \in Nat /\ doc.next \in 0 .. Capacity
      /\ Rows(doc) \subseteq Sequences
  BY <1>1, DocumentFacts
<1>10. expected \in Version /\ expected <= doc.structure
  BY <1>9 DEF Version, Unversioned
<1>n. named \in SUBSET (Int \X (Int \X Int))
  BY <1>1, <1>7, NamingsFacts
<1>b. before \in SUBSET Int
  <2>1. DOMAIN doc.dims \subseteq Int
    BY <1>1, DocumentFacts
  <2> QED  BY <2>1 DEF Orders
<1>11. form \in Payload
  BY <1>3, <1>7, <1>8, <1>9, <1>10, <1>n, <1>b DEF Payload
<1>12. StoredIn(docs, form) = doc
  BY <1>4 DEF StoredIn, doc
<1>13. SaveFits(doc, form, 0)
  BY <1>4, <1>6, <1>7, <1>8, <1>10 DEF SaveFits
<1>14. Behind(docs, form, 0)
  BY <1>4, <1>12, <1>13 DEF Behind
<1> QED  BY <1>11, <1>14

\* Every request fits what is stored when it is sent.
LEMMA SendsKeep ==
  ASSUME SkuInv, NEW c \in Commands,
         SendSave(c) \/ SendPatch(c) \/ SendCopy(c) \/ SendStock(c) \/ SendExternal(c)
  PROVE  SkuInv' /\ StoreGrows(docs', docs)
<1>1. StoreInv
  BY DEF SkuInv
<1>2. \A spu \in Spus : docs[spu] # NoDocument =>
        /\ Good(docs[spu]) /\ Active(docs[spu]) \subseteq Rows(docs[spu])
        /\ Rows(docs[spu]) \subseteq Sequences
        /\ \A n \in Rows(docs[spu]) : docs[spu].skus[n] \in SkuRecord
  BY <1>1, DocumentFacts DEF StoreInv, GoodStore
<1>3. CASE SendSave(c)
  <2>1. PICK spu \in Spus, code \in SpuCodes : \E form \in Forms(spu, code) : Send(c, form)
    BY <1>3 DEF SendSave
  <2>2. PICK form \in Forms(spu, code) : Send(c, form)
    BY <2>1
  <2>3. form \in Payload /\ Behind(docs, form, 0)
    BY <1>1, SavesFit
  <2> QED  BY <2>2, <2>3, SendKeeps
<1>4. CASE SendPatch(c)
  <2> DEFINE one(doc, n) == [sku |-> n, expected |-> doc.skus[n].config]
             list(doc, n, m) == IF n = m THEN <<one(doc, n)>> ELSE <<one(doc, n), one(doc, m)>>
  <2>1. PICK spu \in Spus : docs[spu] # NoDocument /\ \E n, m \in Active(docs[spu]) :
          \E expected \in {Unversioned, docs[spu].structure} :
             Send(c, [op |-> "patch", spu |-> spu, expected |-> expected,
                      patches |-> list(docs[spu], n, m)])
    BY <1>4 DEF SendPatch
  <2>2. PICK doc : doc = docs[spu] /\ Good(doc)
    BY <1>2, <2>1
  <2>3. PICK n \in Active(doc), m \in Active(doc), expected \in {Unversioned, doc.structure} :
          Send(c, [op |-> "patch", spu |-> spu, expected |-> expected,
                   patches |-> list(doc, n, m)])
    BY <2>1, <2>2
  <2>4. n \in Rows(doc) /\ m \in Rows(doc) /\ n \in Sequences /\ m \in Sequences
    BY <2>2, DocumentFacts
  <2>5. doc.skus[n].config \in Nat /\ doc.skus[m].config \in Nat
    BY <2>2, <2>4, DocumentFacts, SkuFacts
  <2>6. one(doc, n) \in SkuPatch /\ one(doc, m) \in SkuPatch
    BY <2>4, <2>5 DEF SkuPatch
  <2>7. /\ one(doc, n).sku = n /\ one(doc, n).expected = doc.skus[n].config
        /\ one(doc, m).sku = m /\ one(doc, m).expected = doc.skus[m].config
    OBVIOUS
  <2> HIDE DEF one
  <2>8. /\ list(doc, n, m) \in Seq(SkuPatch) /\ list(doc, n, m) # << >>
        /\ \A i \in DOMAIN list(doc, n, m) :
             list(doc, n, m)[i] = one(doc, n) \/ list(doc, n, m)[i] = one(doc, m)
    BY <2>6
  <2> HIDE DEF list
  <2> DEFINE p == [op |-> "patch", spu |-> spu, expected |-> expected,
                   patches |-> list(doc, n, m)]
  <2>9. /\ p.op = "patch" /\ p.spu = spu /\ p.patches = list(doc, n, m)
    OBVIOUS
  <2>10. expected \in Version
    BY <2>2, DocumentFacts DEF Version
  <2>11. p \in Payload
    BY <2>8, <2>10 DEF Payload
  <2> HIDE DEF p
  <2>12. \A i \in DOMAIN p.patches : /\ p.patches[i].sku \in Rows(doc)
                                     /\ p.patches[i].expected <= doc.skus[p.patches[i].sku].config
    <3> SUFFICES ASSUME NEW i \in DOMAIN p.patches
                 PROVE  /\ p.patches[i].sku \in Rows(doc)
                        /\ p.patches[i].expected <= doc.skus[p.patches[i].sku].config
      OBVIOUS
    <3>1. p.patches[i] = one(doc, n) \/ p.patches[i] = one(doc, m)
      BY <2>8, <2>9
    <3>2. CASE p.patches[i] = one(doc, n)
      BY <2>4, <2>5, <2>7, <3>2
    <3>3. CASE p.patches[i] = one(doc, m)
      BY <2>4, <2>5, <2>7, <3>3
    <3> QED  BY <3>1, <3>2, <3>3
  <2>13. PatchFits(doc, p, 0)
    BY <2>8, <2>9, <2>12 DEF PatchFits
  <2>14. Behind(docs, p, 0)
    BY <2>1, <2>2, <2>9, <2>13 DEF Behind
  <2>15. Send(c, p)
    BY <2>3 DEF p
  <2> QED  BY <2>11, <2>14, <2>15, SendKeeps
<1>5. CASE SendCopy(c)
  <2>1. PICK spu \in Spus : docs[spu] # NoDocument /\ \E n, m \in Active(docs[spu]) :
          Send(c, [op |-> "copy", spu |-> spu, source |-> n, target |-> m])
    BY <1>5 DEF SendCopy
  <2>2. PICK n \in Active(docs[spu]), m \in Active(docs[spu]) :
          Send(c, [op |-> "copy", spu |-> spu, source |-> n, target |-> m])
    BY <2>1
  <2>3. n \in Sequences /\ m \in Sequences
    BY <1>2, <2>1
  <2> DEFINE p == [op |-> "copy", spu |-> spu, source |-> n, target |-> m]
  <2>4. p \in Payload
    BY <2>3 DEF Payload
  <2>5. Behind(docs, p, 0)
    BY <2>1 DEF Behind
  <2>6. Send(c, p)
    BY <2>2
  <2> HIDE DEF p
  <2> QED  BY <2>4, <2>5, <2>6, SendKeeps
<1>6. CASE SendStock(c)
  <2>1. PICK spu \in Spus : docs[spu] # NoDocument /\ \E n \in Active(docs[spu]) :
          Send(c, [op |-> "stock", spu |-> spu, sku |-> n,
                   quantity |-> docs[spu].skus[n].stock + 1,
                   expected |-> docs[spu].skus[n].stockVersion])
    BY <1>6 DEF SendStock
  <2>2. PICK n \in Active(docs[spu]) :
          Send(c, [op |-> "stock", spu |-> spu, sku |-> n,
                   quantity |-> docs[spu].skus[n].stock + 1,
                   expected |-> docs[spu].skus[n].stockVersion])
    BY <2>1
  <2>3. /\ n \in Rows(docs[spu]) /\ n \in Sequences
        /\ docs[spu].skus[n].stock \in Nat /\ docs[spu].skus[n].stockVersion \in Nat
    BY <1>2, <2>1, SkuFacts
  <2> DEFINE p == [op |-> "stock", spu |-> spu, sku |-> n,
                   quantity |-> docs[spu].skus[n].stock + 1,
                   expected |-> docs[spu].skus[n].stockVersion]
  <2>4. p \in Payload
    BY <2>3 DEF Payload
  <2>5. Behind(docs, p, 0)
    BY <2>1, <2>3 DEF Behind, StockFits
  <2>6. Send(c, p)
    BY <2>2
  <2> HIDE DEF p
  <2> QED  BY <2>4, <2>5, <2>6, SendKeeps
<1>7. CASE SendExternal(c)
  <2>1. PICK spu \in Spus : docs[spu] # NoDocument /\ \E n \in Active(docs[spu]) :
          Send(c, [op |-> "external", spu |-> spu, sku |-> n])
    BY <1>7 DEF SendExternal
  <2>2. PICK n \in Active(docs[spu]) : Send(c, [op |-> "external", spu |-> spu, sku |-> n])
    BY <2>1
  <2>3. n \in Sequences
    BY <1>2, <2>1
  <2> DEFINE p == [op |-> "external", spu |-> spu, sku |-> n]
  <2>4. p \in Payload
    BY <2>3 DEF Payload
  <2>5. Behind(docs, p, 0)
    BY <2>1 DEF Behind
  <2>6. Send(c, p)
    BY <2>2
  <2> HIDE DEF p
  <2> QED  BY <2>4, <2>5, <2>6, SendKeeps
<1> QED  BY <1>3, <1>4, <1>5, <1>6, <1>7

-----------------------------------------------------------------------------
(* Transactions                                                             *)

\* What a save that is accepted does, of the product it found.
LEMMA AcceptedSave ==
  ASSUME StoreInv, NEW c \in prepared, sent[c].op = "save", Acceptable(Stored(sent[c]), sent[c])
  PROVE  /\ SpecsFit(Stored(sent[c]), sent[c]) /\ sent[c].expected \in Version
         /\ sent[c].expected # Unversioned => sent[c].expected = Stored(sent[c]).structure
<1>1. SaveFits(Stored(sent[c]), sent[c], applied[c]) /\ sent[c] \in Payload
  BY WaitingFacts DEF Behind
<1>2. sent[c].expected \in Version
  BY <1>1, PayloadFacts
<1>3. SpecsFit(Stored(sent[c]), sent[c])
  BY <1>1, PayloadFacts DEF SaveFits, SpecsFit
<1> QED  BY <1>2, <1>3 DEF Acceptable, VersionIsCurrent

\* A save: refused by the unique code, accepted, or refused with a problem.
LEMMA SaveKeeps ==
  ASSUME SkuInv, NEW c \in Commands, SaveConfiguration(c)
  PROVE  SkuInv' /\ StoreGrows(docs', docs)
<1>1. StoreInv /\ c \in prepared /\ sent[c].op = "save" /\ Receipts(Stored(sent[c]), c) = {}
  BY DEF SkuInv, SaveConfiguration, Opens
<1>p. PICK p \in Payload : p = sent[c]
  BY <1>1, WaitingFacts
<1>2. PICK doc : doc = Stored(sent[c]) /\ Good(doc)
  BY <1>1, WaitingFacts
<1>3. docs[p.spu] = NoDocument => doc.code = p.code
  BY <1>1, <1>2, <1>p, WaitingFacts
<1>4. CASE CodeTaken(p.spu, doc.code)
  <2>1. Abandon(c)
    BY <1>2, <1>4, <1>p DEF SaveConfiguration
  <2> QED  BY <1>1, <2>1, AbandonKeeps
<1>5. CASE ~CodeTaken(p.spu, doc.code) /\ Acceptable(doc, p)
  <2>1. Commit(c, Saved(doc, p), doc.structure + 1)
    BY <1>2, <1>5, <1>p DEF SaveConfiguration
  <2>2. /\ SpecsFit(doc, p) /\ p.expected \in Version
        /\ p.expected # Unversioned => p.expected = doc.structure
    BY <1>1, <1>2, <1>5, <1>p, AcceptedSave
  <2>3. PICK new : new = Saved(doc, p)
    OBVIOUS
  <2>4. /\ Good(new) /\ Grows(new, doc) /\ StockStays(new, doc)
        /\ new.structure = doc.structure + 1
        /\ new.receipts = doc.receipts /\ new.lapsed = doc.lapsed
    BY <1>2, <1>5, <2>2, <2>3, SavedFacts
  <2>5. doc.structure \in Nat
    BY <1>2, DocumentFacts
  <2>6. Guarded(p) => ~Overtaken(p, doc)
    <3>1. p.op = "save"
      BY <1>1, <1>p
    <3>2. Guarded(p) => p.expected # Unversioned
      BY <3>1 DEF Guarded
    <3>3. p.expected # Unversioned => ~Overtaken(p, doc)
      BY <2>2, <2>5, <3>1 DEF Overtaken
    <3> QED  BY <3>2, <3>3
  <2>7. Overtaken(p, new)
    BY <1>1, <1>p, <2>2, <2>4, <2>5 DEF Overtaken
  <2>8. docs[p.spu] = NoDocument => ~CodeTaken(p.spu, p.code)
    BY <1>3, <1>5
  <2>9. doc.structure + 1 \in Nat /\ Commit(c, new, doc.structure + 1)
    BY <2>1, <2>3, <2>5
  <2> QED  BY <1>1, <1>2, <1>p, <2>4, <2>6, <2>7, <2>8, <2>9, CommitKeeps
<1>6. CASE ~CodeTaken(p.spu, doc.code) /\ ~Acceptable(doc, p)
  <2>1. Refuse(c, doc)
    BY <1>2, <1>6, <1>p DEF SaveConfiguration
  <2>2. Grows(doc, doc) /\ StockStays(doc, doc)
    BY <1>2, GrowsItself
  <2>3. docs[p.spu] = NoDocument => ~CodeTaken(p.spu, p.code)
    BY <1>3, <1>6
  <2> QED  BY <1>1, <1>2, <1>p, <2>1, <2>2, <2>3, RefuseKeeps
<1> QED  BY <1>4, <1>5, <1>6

\* A list of patches: all of it, or the SKUs before the first that is refused.
LEMMA PatchKeeps ==
  ASSUME SkuInv, NEW c \in Commands, PatchSkuConfigurations(c)
  PROVE  SkuInv' /\ StoreGrows(docs', docs)
<1>1. StoreInv /\ c \in prepared /\ sent[c].op = "patch" /\ Receipts(Stored(sent[c]), c) = {}
  BY DEF SkuInv, PatchSkuConfigurations, Opens
<1>p. PICK p \in Payload : p = sent[c]
  BY <1>1, WaitingFacts
<1>2. docs[p.spu] # NoDocument /\ Behind(docs, p, applied[c])
  BY <1>1, <1>p, WaitingFacts
<1>3. PICK doc : doc = docs[p.spu] /\ Good(doc) /\ Stored(p) = doc
  BY <1>1, <1>2, <1>p, WaitingFacts
<1>4. PICK done : done = IF VersionIsCurrent(doc, p) THEN Reached(doc, p.patches) ELSE {}
  OBVIOUS
<1>5. \A n \in done : \E i \in DOMAIN p.patches :
        n = p.patches[i].sku /\ \A k \in 1 .. i : Current(doc, p.patches[k])
  BY <1>4 DEF Reached
<1>6. p.patches \in Seq(SkuPatch) /\ p.patches # << >> /\ p.expected \in Version
  BY <1>1, <1>2, <1>p, PayloadFacts DEF Behind, PatchFits
<1>7. PICK k \in Nat \ {0} : k = Len(p.patches) /\ DOMAIN p.patches = 1 .. k
  BY <1>6
<1>8. done \in SUBSET Active(doc)
  <2> SUFFICES ASSUME NEW n \in done PROVE n \in Active(doc)
    OBVIOUS
  <2>1. PICK i \in 1 .. k : n = p.patches[i].sku /\ \A j \in 1 .. i : Current(doc, p.patches[j])
    BY <1>5, <1>7
  <2>2. Current(doc, p.patches[i])
    BY <2>1
  <2> QED  BY <2>1, <2>2 DEF Current
<1>9. PICK new : new = Patched(doc, done)
  OBVIOUS
<1>10. /\ Good(new) /\ Grows(new, doc) /\ StockStays(new, doc)
       /\ new.receipts = doc.receipts /\ new.lapsed = doc.lapsed
       /\ \A n \in done : new.skus[n].config = doc.skus[n].config + 1
  BY <1>3, <1>8, <1>9, PatchedGrows
<1>11. CASE Cardinality(done) = k
  <2>1. Commit(c, new, doc.structure)
    BY <1>3, <1>4, <1>7, <1>9, <1>11, <1>p DEF PatchSkuConfigurations
  <2>2. done # {}
    BY <1>11, FS_EmptySet
  <2>3. PICK n \in done, i \in 1 .. k : \A j \in 1 .. i : Current(doc, p.patches[j])
    BY <1>5, <1>7, <2>2
  <2>4. Current(doc, p.patches[1])
    BY <2>3
  <2>5. p.patches[1].sku \in done
    <3>1. done = Reached(doc, p.patches)
      BY <1>4, <2>2
    <3>2. 1 \in {j \in DOMAIN p.patches : \A l \in 1 .. j : Current(doc, p.patches[l])}
      BY <1>7, <2>4
    <3> QED  BY <3>1, <3>2 DEF Reached
  <2>6. PICK m \in done : m = p.patches[1].sku
    BY <2>5
  <2>7. doc.skus[m].config \in Nat
    BY <1>3, <1>8, DocumentFacts, SkuFacts
  <2>8. p.patches[1].expected = doc.skus[m].config
    BY <2>4, <2>6 DEF Current
  <2>9. ~Overtaken(p, doc)
    BY <1>1, <1>p, <2>6, <2>7, <2>8 DEF Overtaken
  <2>10. new.skus[m].config = doc.skus[m].config + 1
    BY <1>10
  <2>11. Overtaken(p, new)
    BY <1>1, <1>p, <2>6, <2>7, <2>8, <2>10 DEF Overtaken
  <2>12. doc.structure \in Nat
    BY <1>3, DocumentFacts
  <2> QED  BY <1>1, <1>2, <1>3, <1>10, <1>p, <2>1, <2>9, <2>11, <2>12, CommitKeeps
<1>12. CASE Cardinality(done) # k
  <2>1. Refuse(c, new)
    BY <1>3, <1>4, <1>7, <1>9, <1>12, <1>p DEF PatchSkuConfigurations
  <2> QED  BY <1>1, <1>2, <1>3, <1>10, <1>p, <2>1, RefuseKeeps
<1> QED  BY <1>11, <1>12

\* A copy of one SKU to another.
LEMMA CopyKeeps ==
  ASSUME SkuInv, NEW c \in Commands, CopySkuConfiguration(c)
  PROVE  SkuInv' /\ StoreGrows(docs', docs)
<1>1. StoreInv /\ c \in prepared /\ sent[c].op = "copy" /\ Receipts(Stored(sent[c]), c) = {}
  BY DEF SkuInv, CopySkuConfiguration, Opens
<1>p. PICK p \in Payload : p = sent[c]
  BY <1>1, WaitingFacts
<1>2. docs[p.spu] # NoDocument
  BY <1>1, <1>p, WaitingFacts
<1>3. PICK doc : doc = docs[p.spu] /\ Good(doc) /\ Stored(p) = doc
  BY <1>1, <1>2, <1>p, WaitingFacts
<1>4. CASE {p.source, p.target} \subseteq Active(doc)
  <2>1. PICK new : new = [doc EXCEPT !.skus[p.target].config = @ + 1]
    OBVIOUS
  <2>2. Commit(c, new, doc.structure)
    BY <1>3, <1>4, <1>p, <2>1 DEF CopySkuConfiguration
  <2>3. p.target \in Active(doc)
    BY <1>4
  <2>4. /\ Good(new) /\ Grows(new, doc) /\ StockStays(new, doc)
        /\ new.receipts = doc.receipts /\ new.lapsed = doc.lapsed
    BY <1>3, <2>1, <2>3, CopiedGrows
  <2>5. doc.structure \in Nat
    BY <1>3, DocumentFacts
  <2>6. ~Guarded(p) /\ Overtaken(p, new)
    BY <1>1, <1>p DEF Guarded, Overtaken
  <2> QED  BY <1>1, <1>2, <1>3, <1>p, <2>2, <2>4, <2>5, <2>6, CommitKeeps
<1>5. CASE ~({p.source, p.target} \subseteq Active(doc))
  <2>1. Refuse(c, doc)
    BY <1>3, <1>5, <1>p DEF CopySkuConfiguration
  <2>2. Grows(doc, doc) /\ StockStays(doc, doc)
    BY <1>3, GrowsItself
  <2> QED  BY <1>1, <1>2, <1>3, <1>p, <2>1, <2>2, RefuseKeeps
<1> QED  BY <1>4, <1>5

\* A setting of stock, compared with the version it was read at.
LEMMA StockKeeps ==
  ASSUME SkuInv, NEW c \in Commands, SetLocalInventory(c)
  PROVE  SkuInv' /\ StoreGrows(docs', docs)
<1>1. StoreInv /\ c \in prepared /\ sent[c].op = "stock" /\ Receipts(Stored(sent[c]), c) = {}
  BY DEF SkuInv, SetLocalInventory, Opens
<1>p. PICK p \in Payload : p = sent[c]
  BY <1>1, WaitingFacts
<1>2. docs[p.spu] # NoDocument /\ p.quantity \in Nat /\ p.expected \in Nat
  BY <1>1, <1>p, WaitingFacts, PayloadFacts
<1>3. PICK doc : doc = docs[p.spu] /\ Good(doc) /\ Stored(p) = doc
  BY <1>1, <1>2, <1>p, WaitingFacts
<1>4. CASE p.sku \in Active(doc) /\ doc.skus[p.sku].stockVersion = p.expected
  <2>1. PICK new : new = [doc EXCEPT !.skus[p.sku].stock = p.quantity,
                                     !.skus[p.sku].stockVersion = @ + 1]
    OBVIOUS
  <2>2. Commit(c, new, p.expected + 1)
    BY <1>3, <1>4, <1>p, <2>1 DEF SetLocalInventory
  <2>3. p.sku \in Active(doc)
    BY <1>4
  <2>4. /\ Good(new) /\ Grows(new, doc) /\ Rows(new) = Rows(doc)
        /\ new.receipts = doc.receipts /\ new.lapsed = doc.lapsed
        /\ \A n \in Rows(doc) : n # p.sku => new.skus[n].stock = doc.skus[n].stock
        /\ new.skus[p.sku].stock = p.quantity
        /\ new.skus[p.sku].stockVersion = doc.skus[p.sku].stockVersion + 1
    <3>1. PICK target \in Active(doc) : target = p.sku
      BY <2>3
    <3>2. PICK quantity \in Nat : quantity = p.quantity
      BY <1>2
    <3>3. new = Stocked(doc, target, quantity)
      BY <2>1, <3>1, <3>2 DEF Stocked
    <3>4. Good(doc)
      BY <1>3
    <3>5. LET s == Stocked(doc, target, quantity)
          IN  /\ Good(s) /\ Grows(s, doc) /\ Rows(s) = Rows(doc)
              /\ s.receipts = doc.receipts /\ s.lapsed = doc.lapsed
              /\ s.structure = doc.structure
              /\ \A n \in Rows(doc) : n # target => s.skus[n].stock = doc.skus[n].stock
              /\ s.skus[target].stock = quantity
              /\ s.skus[target].stockVersion = doc.skus[target].stockVersion + 1
      BY ONLY <3>4, target \in Active(doc), quantity \in Nat, StockedGrows, Zenon
    <3> QED  BY ONLY <3>1, <3>2, <3>3, <3>5, Zenon
  <2>5. p.expected + 1 \in Nat
    BY <1>2
  <2>6. ~Overtaken(p, doc) /\ Overtaken(p, new)
    BY <1>1, <1>2, <1>4, <1>p, <2>4 DEF Overtaken
  <2>7. \A n \in Rows(new) \ {p.sku} : new.skus[n].stock = doc.skus[n].stock
    BY <2>4
  <2> QED  BY <1>1, <1>2, <1>3, <1>4, <1>p, <2>2, <2>4, <2>5, <2>6, <2>7, CommitKeeps
<1>5. CASE ~(p.sku \in Active(doc) /\ doc.skus[p.sku].stockVersion = p.expected)
  <2>1. Refuse(c, doc)
    BY <1>3, <1>5, <1>p DEF SetLocalInventory
  <2>2. Grows(doc, doc) /\ StockStays(doc, doc)
    BY <1>3, GrowsItself
  <2> QED  BY <1>1, <1>2, <1>3, <1>p, <2>1, <2>2, RefuseKeeps
<1> QED  BY <1>4, <1>5

-----------------------------------------------------------------------------
(* The invariant                                                            *)

\* Nothing is stored and nothing was asked.
LEMMA InitHolds == Init => SkuInv
<1> SUFFICES ASSUME Init PROVE SkuInv
  OBVIOUS
<1>1. /\ \A spu \in Spus : docs[spu] = NoDocument
      /\ \A c \in Commands : sent[c] = NoPayload /\ answer[c] = -1 /\ applied[c] = 0
      /\ authority = Unbound /\ prepared = {} /\ forwarded = {}
  BY DEF Init
<1>2. Settings
  BY DEF Init, Settings
<1>3. GoodStore(docs)
  BY <1>1 DEF Init, GoodStore
<1>4. \A c \in Commands : Reads(c)
  BY <1>1 DEF Reads
<1>5. CodesBelongToOneSpu
  BY <1>1 DEF CodesBelongToOneSpu
<1>6. StockInv
  BY <1>1 DEF StockInv, NoLostStock, StockHasOneAuthority
<1>7. ReceiptInv
  BY <1>1 DEF ReceiptInv, ReceiptsAreUnique, Receipted, SameInput, AppliedOnce
<1> QED  BY <1>2, <1>3, <1>4, <1>5, <1>6, <1>7 DEF SkuInv, StoreInv

\* Every step keeps the invariant, and takes nothing back.
LEMMA StepKeeps ==
  ASSUME SkuInv, [Next]_vars
  PROVE  SkuInv' /\ StoreGrows(docs', docs)
<1>1. ASSUME NEW c \in Commands,
             SendSave(c) \/ SendPatch(c) \/ SendCopy(c) \/ SendStock(c) \/ SendExternal(c)
      PROVE  SkuInv' /\ StoreGrows(docs', docs)
  BY <1>1, SendsKeep
<1>2. ASSUME NEW c \in Commands, Prepare(c)
      PROVE  SkuInv' /\ StoreGrows(docs', docs)
  BY <1>2, PrepareKeeps
<1>3. ASSUME NEW c \in Commands, Replay(c)
      PROVE  SkuInv' /\ StoreGrows(docs', docs)
  BY <1>3, ReplayKeeps
<1>4. ASSUME NEW c \in Commands, SaveConfiguration(c)
      PROVE  SkuInv' /\ StoreGrows(docs', docs)
  BY <1>4, SaveKeeps
<1>5. ASSUME NEW c \in Commands, PatchSkuConfigurations(c)
      PROVE  SkuInv' /\ StoreGrows(docs', docs)
  BY <1>5, PatchKeeps
<1>6. ASSUME NEW c \in Commands, CopySkuConfiguration(c)
      PROVE  SkuInv' /\ StoreGrows(docs', docs)
  BY <1>6, CopyKeeps
<1>7. ASSUME NEW c \in Commands, SetLocalInventory(c)
      PROVE  SkuInv' /\ StoreGrows(docs', docs)
  BY <1>7, StockKeeps
<1>8. ASSUME NEW c \in Commands, SetExternalInventory(c)
      PROVE  SkuInv' /\ StoreGrows(docs', docs)
  BY <1>8, SetExternalKeeps
<1>9. ASSUME NEW spu \in Spus, Lapse(spu)
      PROVE  SkuInv' /\ StoreGrows(docs', docs)
  BY <1>9, LapseKeeps
<1>10. CASE UNCHANGED vars
  <2>1. /\ UNCHANGED <<docs, sent, applied, answer>> /\ authority' = authority
        /\ prepared' = prepared /\ forwarded' = forwarded
    BY <1>10 DEF vars
  <2>2. /\ prepared \subseteq Commands /\ forwarded \subseteq Commands
        /\ authority \in Authorities \cup {Unbound}
        /\ \A c \in prepared : sent[c] # NoPayload
    BY DEF SkuInv, StoreInv, Settings, Reads
  <2> QED  BY <2>1, <2>2, AsideKeeps
<1> QED
  BY <1>1, <1>2, <1>3, <1>4, <1>5, <1>6, <1>7, <1>8, <1>9, <1>10 DEF Next

\* What the invariant says of the products.
LEMMA InvGivesProducts ==
  ASSUME SkuInv
  PROVE  ProductInv
<1>1. Settings /\ GoodStore(docs) /\ (\A c \in Commands : Reads(c)) /\ NoLostStock
  BY DEF SkuInv, StoreInv, StockInv
<1>2. TypeOK
  BY <1>1 DEF TypeOK, Settings, GoodStore, Good
<1>3. RowsAreGood
  BY <1>1 DEF RowsAreGood, GoodStore, Good
<1>4. ReadsLieBehind
  BY <1>1 DEF ReadsLieBehind, Fits, Reads, Behind, Stored, StoredIn
<1>5. OneIdentityPerCombination
  BY <1>1 DEF OneIdentityPerCombination, GoodStore, Good
<1>6. NoStockBehindDefault
  BY <1>1 DEF NoStockBehindDefault, GoodStore, Good
<1> QED  BY <1>1, <1>2, <1>3, <1>4, <1>5, <1>6 DEF ProductInv

\* What it says of repeated requests, and of what products share.
LEMMA InvGivesCommands ==
  ASSUME SkuInv
  PROVE  CommandInv
<1>1. /\ StoreInv /\ CodesBelongToOneSpu /\ StockHasOneAuthority /\ ReceiptsAreUnique
      /\ \A c \in Commands : Receipted(c) /\ AppliedOnce(c)
  BY DEF SkuInv, StockInv, ReceiptInv
<1>2. ASSUME NEW c \in Commands, NEW d \in Commands, c # d, IdOf[c] = IdOf[d],
             applied[c] > 0, applied[d] > 0, Remembered(sent[c].spu)
      PROVE  sent[c].spu # sent[d].spu
  <2> SUFFICES ASSUME sent[c].spu = sent[d].spu PROVE FALSE
    OBVIOUS
  <2>1. /\ sent[c] # NoPayload /\ sent[d] # NoPayload
        /\ sent[c].spu \in Spus /\ docs[sent[c].spu] # NoDocument
    BY <1>1, <1>2, EffectFacts
  <2>2. PICK r \in docs[sent[c].spu].receipts : r.id = IdOf[c] /\ r.command = c
    BY <1>1, <1>2, <2>1 DEF Receipted, SameInput
  <2>3. PICK q \in docs[sent[c].spu].receipts : q.id = IdOf[d] /\ q.command = d
    BY <1>1, <1>2, <2>1 DEF Receipted, SameInput
  <2>4. q = r
    BY <1>1, <1>2, <2>1, <2>2, <2>3 DEF ReceiptsAreUnique
  <2> QED  BY <1>2, <2>2, <2>3, <2>4
<1>3. CommandsTakeEffectOnce
  BY <1>1, <1>2 DEF CommandsTakeEffectOnce, AppliedOnce
<1>4. RepliesAgree
  <2> SUFFICES ASSUME NEW c \in Commands, NEW d \in Commands, IdOf[c] = IdOf[d],
                      answer[c] # -1, answer[d] # -1, sent[c].spu = sent[d].spu,
                      Remembered(sent[c].spu)
               PROVE  SameInput(c, d) /\ answer[c] = answer[d]
    BY DEF RepliesAgree
  <2>1. /\ sent[c] # NoPayload /\ sent[d] # NoPayload
        /\ sent[c].spu \in Spus /\ docs[sent[c].spu] # NoDocument
    BY <1>1, EffectFacts
  <2>2. PICK r \in docs[sent[c].spu].receipts :
          r.id = IdOf[c] /\ SameInput(r.command, c) /\ r.version = answer[c]
    BY <1>1, <2>1 DEF Receipted, SameInput
  <2>3. PICK q \in docs[sent[c].spu].receipts :
          q.id = IdOf[d] /\ SameInput(q.command, d) /\ q.version = answer[d]
    BY <1>1, <2>1 DEF Receipted, SameInput
  <2>4. q = r
    BY <1>1, <2>1, <2>2, <2>3 DEF ReceiptsAreUnique
  <2> QED  BY <2>2, <2>3, <2>4 DEF SameInput
<1> QED
  BY <1>1, <1>3, <1>4 DEF CommandInv, CommandsAreIdempotent, ScopeInv

-----------------------------------------------------------------------------
(* What a step does to references, and to what a save was made from         *)

\* A step in which a save takes effect is the transaction of that save, and it
\* was accepted.
LEMMA EffectOfSave ==
  ASSUME StoreInv, [Next]_vars, NEW c \in Commands, applied'[c] > applied[c],
         sent[c].op = "save"
  PROVE  /\ c \in prepared /\ Acceptable(Stored(sent[c]), sent[c])
         /\ docs'[sent[c].spu].skus = Saved(Stored(sent[c]), sent[c]).skus
<1>1. applied \in [Commands -> Nat] /\ applied[c] \in Nat /\ docs \in [Spus -> Document \cup {NoDocument}]
  BY DEF StoreInv, Settings, GoodStore
<1>2. applied' # applied
  BY <1>1
<1>3. ASSUME NEW d \in Commands,
             PatchSkuConfigurations(d) \/ CopySkuConfiguration(d) \/ SetLocalInventory(d)
      PROVE  FALSE
  <2>1. sent[d].op # "save"
    BY <1>3 DEF PatchSkuConfigurations, CopySkuConfiguration, SetLocalInventory, Opens
  <2>2. applied' = applied \/ applied' = [applied EXCEPT ![d] = @ + 1]
    BY <1>3 DEF PatchSkuConfigurations, CopySkuConfiguration, SetLocalInventory, Commit, Refuse
  <2> QED  BY <1>1, <1>2, <2>1, <2>2
<1>4. PICK d \in Commands : SaveConfiguration(d)
  <2>1. ASSUME NEW d \in Commands,
               SendSave(d) \/ SendPatch(d) \/ SendCopy(d) \/ SendStock(d) \/ SendExternal(d)
        PROVE  applied' = applied
    BY <2>1 DEF SendSave, SendPatch, SendCopy, SendStock, SendExternal, Send
  <2>2. ASSUME NEW d \in Commands, Prepare(d) \/ Replay(d) \/ SetExternalInventory(d)
        PROVE  applied' = applied
    BY <2>2 DEF Prepare, Replay, SetExternalInventory
  <2>3. ASSUME NEW spu \in Spus, Lapse(spu)
        PROVE  applied' = applied
    BY <2>3 DEF Lapse
  <2>4. UNCHANGED vars => applied' = applied
    BY DEF vars
  <2> QED  BY <1>2, <1>3, <2>1, <2>2, <2>3, <2>4 DEF Next
<1>5. d \in prepared /\ ~CodeTaken(sent[d].spu, Stored(sent[d]).code)
      /\ Acceptable(Stored(sent[d]), sent[d])
      /\ Commit(d, Saved(Stored(sent[d]), sent[d]), Stored(sent[d]).structure + 1)
  BY <1>2, <1>4 DEF SaveConfiguration, Opens, Abandon, Refuse
<1>6. d = c
  BY <1>1, <1>5 DEF Commit
<1>p. PICK p \in Payload : p = sent[c] /\ p.spu \in Spus
  BY <1>5, <1>6, WaitingFacts
<1>7. PICK doc : doc = Stored(p) /\ Good(doc)
  BY <1>5, <1>6, <1>p, WaitingFacts
<1>8. PICK new : new = Saved(doc, p)
  OBVIOUS
<1>9. new \in Document
  <2>1. SpecsFit(doc, p)
    BY <1>5, <1>6, <1>7, <1>p, AcceptedSave
  <2> QED  BY <1>5, <1>6, <1>7, <1>8, <1>p, <2>1, SavedFacts, ZenonT(60) DEF Good
<1>10. docs'[p.spu].skus = new.skus
  <2>1. PICK r : docs' = [docs EXCEPT ![p.spu] = [new EXCEPT !.receipts = @ \cup {r}]]
    BY <1>5, <1>6, <1>7, <1>8, <1>p DEF Commit
  <2> QED  BY <1>1, <1>9, <1>p, <2>1 DEF Document
<1> QED  BY <1>5, <1>6, <1>7, <1>8, <1>10, <1>p

\* A store that grows keeps every number with its combination.
LEMMA StepKeepsIdentities ==
  ASSUME SkuInv, StoreGrows(docs', docs)
  PROVE  KeepsIdentities
<1> SUFFICES ASSUME NEW spu \in Spus, docs[spu] # NoDocument
             PROVE  /\ docs'[spu] # NoDocument
                    /\ docs'[spu].code = docs[spu].code
                    /\ docs'[spu].next >= docs[spu].next
                    /\ \A n \in Rows(docs[spu]) :
                         /\ docs'[spu].skus[n] # NoSku
                         /\ docs'[spu].skus[n].key = docs[spu].skus[n].key
  BY DEF KeepsIdentities
<1>1. docs'[spu] # NoDocument /\ Grows(docs'[spu], docs[spu])
  BY DEF StoreGrows
<1> QED  BY <1>1 DEF Grows, Follows, Rows

\* A store that grows moves the version of what it changes.
LEMMA StepMovesVersions ==
  ASSUME SkuInv, StoreGrows(docs', docs)
  PROVE  MovesVersions
<1> SUFFICES ASSUME NEW spu \in Spus, docs[spu] # NoDocument, NEW n \in Rows(docs[spu])
             PROVE  Follows(docs'[spu].skus[n], docs[spu].skus[n])
  BY DEF MovesVersions, Follows
<1>1. Grows(docs'[spu], docs[spu])
  BY DEF StoreGrows
<1> QED  BY <1>1 DEF Grows

\* A version that is current was read together with the SKUs the product has now.
LEMMA StepArchivesOnlySeen ==
  ASSUME SkuInv, [Next]_vars
  PROVE  ArchivesOnlySeen
<1>1. StoreInv
  BY DEF SkuInv
<1> SUFFICES ASSUME NEW c \in Commands, applied'[c] > applied[c], sent[c].op = "save",
                    sent[c].expected # Unversioned, docs[sent[c].spu] # NoDocument,
                    NEW n \in Active(docs[sent[c].spu])
             PROVE  n < sent[c].seen
  BY DEF ArchivesOnlySeen
<1>2. c \in prepared /\ Acceptable(Stored(sent[c]), sent[c])
  BY <1>1, EffectOfSave
<1>3. /\ Stored(sent[c]) = docs[sent[c].spu] /\ Good(docs[sent[c].spu])
      /\ SaveFits(Stored(sent[c]), sent[c], applied[c])
  BY <1>1, <1>2, WaitingFacts DEF Behind
<1>4. sent[c].expected = Stored(sent[c]).structure
  BY <1>1, <1>2, AcceptedSave
<1>5. sent[c].seen = docs[sent[c].spu].next
  BY <1>3, <1>4 DEF SaveFits
<1>6. n < docs[sent[c].spu].next
  BY <1>3, DocumentFacts DEF Good
<1> QED  BY <1>5, <1>6

\* The combinations a save adds are those no SKU of the product has had, and the
\* SKUs it archives those whose combination it does not name: what Preview lists.
LEMMA StepDoesWhatIsPreviewed ==
  ASSUME SkuInv, [Next]_vars
  PROVE  DoesWhatIsPreviewed
<1>1. StoreInv
  BY DEF SkuInv
<1> SUFFICES ASSUME NEW c \in Commands, applied'[c] > applied[c], sent[c].op = "save"
             PROVE  LET old   == Stored(sent[c])
                        new   == docs'[sent[c].spu]
                        shown == Preview(old, sent[c])
                        fresh == Rows(new) \ Rows(old)
                    IN  /\ {new.skus[n].key : n \in fresh} = shown.added
                        /\ Active(new) = shown.retained \cup shown.restorable \cup fresh
                        /\ Active(old) \ Active(new) = shown.archivable
  BY DEF DoesWhatIsPreviewed
<1>2. /\ c \in prepared /\ Acceptable(Stored(sent[c]), sent[c])
      /\ docs'[sent[c].spu].skus = Saved(Stored(sent[c]), sent[c]).skus
  BY <1>1, EffectOfSave
<1>p. PICK p : p = sent[c]
  OBVIOUS
<1>3. PICK old : old = Stored(p) /\ Good(old)
  BY <1>1, <1>2, <1>p, WaitingFacts
<1>4. PICK new : new = Saved(old, p)
  OBVIOUS
<1>5. PICK after : after = docs'[p.spu] /\ after.skus = new.skus
  BY <1>2, <1>3, <1>4, <1>p
<1>6. Rows(after) = Rows(new) /\ Active(after) = Active(new)
  BY <1>5 DEF Rows, Active
<1>7. SpecsFit(old, p)
  BY <1>1, <1>2, <1>3, <1>p, AcceptedSave
<1>8. /\ Good(new) /\ Grows(new, old)
      /\ {new.skus[n].key : n \in Rows(new) \ Rows(old)} = Added(old, p)
      /\ \A n \in Rows(new) \ Rows(old) : n >= old.next /\ new.skus[n].archived = FALSE
      /\ \A n \in Rows(old) : new.skus[n].archived = (old.skus[n].key \notin Keys(old, p))
  <2>1. Good(old) /\ SpecsFit(old, p) /\ Acceptable(old, p)
    BY <1>2, <1>3, <1>7, <1>p
  <2>2. LET s     == Saved(old, p)
            fresh == Rows(s) \ Rows(old)
        IN  /\ Good(s) /\ Grows(s, old) /\ StockStays(s, old)
            /\ s.structure = old.structure + 1
            /\ s.receipts = old.receipts /\ s.lapsed = old.lapsed
            /\ {s.skus[n].key : n \in fresh} = Added(old, p)
            /\ \A n \in fresh : n >= old.next /\ s.skus[n].archived = FALSE
            /\ \A n \in Rows(old) : s.skus[n].archived = (old.skus[n].key \notin Keys(old, p))
    BY ONLY <2>1, SavedFacts, Zenon
  <2> QED  BY ONLY <1>4, <2>2, Zenon
<1>9. PICK shown : shown = Preview(old, p)
  OBVIOUS
<1>10. PICK named : named = {n \in Rows(old) : old.skus[n].key \in Keys(old, p)}
  OBVIOUS
<1>11. /\ shown.added = Keys(old, p) \ {old.skus[n].key : n \in Rows(old)}
       /\ shown.retained = named \cap Active(old) /\ shown.restorable = named \ Active(old)
       /\ shown.archivable = Active(old) \ named
  BY <1>9, <1>10 DEF Preview
<1>12. Added(old, p) = shown.added
  BY <1>11 DEF Added, RowOf
<1>13. Rows(old) \subseteq Rows(new)
  BY <1>8 DEF Grows
<1>14. Active(new) = named \cup (Rows(new) \ Rows(old))
  BY <1>8, <1>10, <1>13 DEF Active
<1>15. Active(old) \subseteq Rows(old)
  BY DEF Active
<1>16. {after.skus[n].key : n \in Rows(after) \ Rows(old)} = shown.added
  BY <1>5, <1>6, <1>8, <1>12
<1>17. Active(after) = shown.retained \cup shown.restorable \cup (Rows(after) \ Rows(old))
  BY <1>6, <1>11, <1>14
<1>18. Active(old) \ Active(after) = shown.archivable
  BY <1>6, <1>11, <1>14, <1>15
<1> QED  BY <1>3, <1>5, <1>9, <1>16, <1>17, <1>18, <1>p

-----------------------------------------------------------------------------
(* Theorems                                                                 *)

\* The invariant is inductive.
LEMMA InvHolds == Spec => []SkuInv
<1>1. SkuInv /\ [Next]_vars => SkuInv'
  BY StepKeeps
<1> QED  BY InitHolds, <1>1, PTL DEF Spec

\* Identities and stock: one SKU for every combination, for ever; versions that never lag
\* behind what they stand for; as many items in stock as requests booked one, in whatever
\* order saves, patches, copies and bookings of any clients arrive and are repeated.
THEOREM ProductsHold == Spec => []ProductInv
<1>1. SkuInv => ProductInv
  BY InvGivesProducts
<1> QED  BY InvHolds, <1>1, PTL

\* Repetition and sharing: a command takes effect once and its replies agree as long as its
\* receipt lives, and for ever if it names the version it changes; a code belongs to one
\* product, and one authority keeps the stock of the scope.
THEOREM CommandsHold == Spec => []CommandInv
<1>1. SkuInv => CommandInv
  BY InvGivesCommands
<1> QED  BY InvHolds, <1>1, PTL

\* No step gives a SKU's number to another combination, loses a product or changes what a
\* client has read without moving the version it will be asked for.
THEOREM ReferencesHold == Spec => ReferencesStayGood
<1>1. SkuInv /\ [Next]_vars => KeepsIdentities /\ MovesVersions
  BY StepKeeps, StepKeepsIdentities, StepMovesVersions
<1>2. Spec => [][KeepsIdentities]_vars
  BY InvHolds, <1>1, PTL DEF Spec
<1>3. Spec => [][MovesVersions]_vars
  BY InvHolds, <1>1, PTL DEF Spec
<1> QED
  BY <1>2, <1>3 DEF ReferencesStayGood, IdentitiesAreKept, ChangesMoveTheVersion

\* A save archives no SKU its author had not seen, and does what previewConfiguration
\* would have shown of it.
THEOREM SavesHold == Spec => SavesAreForeseen
<1>1. SkuInv /\ [Next]_vars => ArchivesOnlySeen /\ DoesWhatIsPreviewed
  BY StepArchivesOnlySeen, StepDoesWhatIsPreviewed
<1>2. Spec => [][ArchivesOnlySeen]_vars
  BY InvHolds, <1>1, PTL DEF Spec
<1>3. Spec => [][DoesWhatIsPreviewed]_vars
  BY InvHolds, <1>1, PTL DEF Spec
<1> QED
  BY <1>2, <1>3 DEF SavesAreForeseen, NothingUnseenIsArchived, SavesDoWhatIsPreviewed
=============================================================================
