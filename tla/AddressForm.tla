------------------------------ MODULE AddressForm ------------------------------
(***************************************************************************)
(* The form of addr-parse-kit's example host: a page that has a text        *)
(* parsed, lets the user take over a candidate, correct and check it, and   *)
(* confirm it; and the server that keeps the index and the saved addresses. *)
(*                                                                          *)
(* A call is under way until it is answered or fails, so answers overtake   *)
(* each other and the edits of the user.  The server handles a call when it *)
(* is answered; it may save an address whose answer is lost.  A deployment  *)
(* replaces the server's process and with it the version it serves.         *)
(***************************************************************************)
EXTENDS AddressParse

CONSTANTS
    NameWords,      \* the words the engine may take for a name
    ExistingPhone,  \* the phone the form already holds (EXISTING)
    NewDetail,      \* a detailed address the user types
    Mixes           \* what happens in a behaviour; see FormInit

ASSUME AddressFormConstants ==
    \A m \in Mixes :
        /\ m.version \in DOMAIN Snapshots
        /\ \A v \in DOMAIN Snapshots : \A file \in m.files[v] :
              file.codes \in Seq(DOMAIN Snapshots[v])

VARIABLES
    mix,    \* the choices of FormInit
    host,   \* the server: its version, its index and the load of it
    sorts,  \* the order of the regions in area-kit
    page,   \* the state of the page
    calls,  \* the calls under way
    saved,  \* the addresses saved
    left    \* what may still happen (bounds)

formVars == <<mix, host, sorts, page, calls, saved, left>>

-----------------------------------------------------------------------------
\* The region data as the server has it.
NoHost == [phase |-> "none", version |-> NoCode, load |-> NoLoad, nodes |-> {}]

Index == [c \in host.nodes |-> Snapshots[host.version][c]]

AreaTable == [c \in DOMAIN Snapshots[host.version] |->
                [Snapshots[host.version][c] EXCEPT !.sort = sorts[c]]]

ValidatePath(codes) ==
    IF mix.provider = "area" THEN DownThePathOfLast(Snapshots[host.version], codes)
    ELSE OnPathOfLast(Index, codes)

NoCandidate == [status |-> NoCode]
NoResult == [version |-> NoCode]
EmptyLists == [l \in 1..4 |-> {}]

\* The candidates a result offers.
Offers == IF page.result = NoResult THEN {} ELSE ToSet(page.result.parsed.candidates)

-----------------------------------------------------------------------------
\* The engine: for a code, which words of the text it may have matched each level of
\* its path by; none, for a level it infers.
EngineTexts(table, code, raw) ==
    {t \in {table[code].name, Front(table[code].name)} : FindSpan(raw, t, 1) # NoSpan}

Longest(texts) == CHOOSE t \in texts : \A u \in texts : Len(u) <= Len(t)

EnginePaths(table, code, raw) ==
    LET path == PathTo(table, code)
        located == [i \in DOMAIN path |-> EngineTexts(table, path[i], raw)]
        texts == [i \in DOMAIN path |->
                    IF ~ mix.free THEN IF located[i] = {} THEN {<< >>} ELSE {Longest(located[i])}
                    ELSE located[i] \cup {<< >>}
                           \cup (IF i = Len(path) THEN {table[code].name} ELSE {})]
        matched == {t \in [DOMAIN path -> UNION {texts[i] : i \in DOMAIN path}] :
                      /\ \A i \in DOMAIN path : t[i] \in texts[i]
                      /\ \E i \in DOMAIN path : FindSpan(raw, t[i], 1) # NoSpan
                      /\ \/ t[Len(path)] # << >>
                         \/ Len(path) > 1 /\ ChildrenOf(table, path[Len(path) - 1]) = {code}}
    IN {[i \in DOMAIN path |-> [code |-> path[i], text |-> t[i]]] : t \in matched}

EngineCandidates(table, raw) ==
    [path : UNION {EnginePaths(table, c, raw) : c \in {d \in DOMAIN table : LevelOf(table, d) <= 4}},
     name : IF mix.free THEN {<<w>> : w \in NameWords \cap ToSet(raw)} \cup {<< >>} ELSE {<< >>},
     phone : IF mix.free THEN (Phones \cap ToSet(raw)) \cup {NoCode} ELSE {NoCode},
     sameDetail : BOOLEAN,
     warnings : {{}}]

\* No answer when no region is found; else one, or two of them that end elsewhere.
EngineAnswers(table, raw) ==
    LET found == {c \in EngineCandidates(table, raw) : c.sameDetail \/ (mix.free /\ c.name = << >>)}
        alone == {c \in found : c.name = << >> /\ c.sameDetail}
        end(c) == Last(c.path).code
        flagged(c) == [c EXCEPT !.warnings = {"AMBIGUOUS"}]
    IN IF found = {} THEN {<< >>}
       ELSE {<<c>> : c \in found}
            \cup {<<flagged(e[1]), flagged(e[2])>> : e \in
                    {e \in alone \X alone : /\ end(e[1]) # end(e[2])
                                            /\ LevelOf(table, end(e[1])) = LevelOf(table, end(e[2]))}}

-----------------------------------------------------------------------------
\* selection: what the page sends of a level.
Selection(node) == IF node.match = "none" THEN NoNode ELSE node

\* applyRegion: the levels below the one that changes are cleared, and the group
\* unless it is above it; a group takes the place of the city.
ApplyRegion(c, level, option) ==
    LET base == ToWithStreet(c)
        cleared == [base EXCEPT !.slots = [l \in 1..4 |-> IF l >= level THEN NoNode ELSE @[l]],
                                !.group = IF @.level >= level THEN NoNode ELSE @]
        node == [code |-> option.code, name |-> option.name, level |-> option.level,
                 match |-> "explicit", text |-> << >>, range |-> NoSpan]
    IN IF option.code = NoCode THEN cleared
       ELSE IF option.kind = "group" THEN [cleared EXCEPT !.group = node]
       ELSE [cleared EXCEPT !.slots[level] = node]

NoOption == [code |-> NoCode, name |-> << >>, level |-> 0, kind |-> "region"]

\* An option applyRegion does not refuse.
Applicable(level, option) ==
    \/ option = NoOption
    \/ IF option.kind = "group" THEN level = 2 ELSE option.level = level

ApplyDetail(c, detail) == [ToWithStreet(c) EXCEPT !.detail = detail]

ApplyPhone(c, phone) == [ToWithStreet(c) EXCEPT !.recipient.phone = phone]

-----------------------------------------------------------------------------
Call(kind, body) == [id |-> left.moves, kind |-> kind, body |-> body]

\* syncLists: the regions to choose from at each level of a draft, asked for when the
\* draft changes.
SyncLists(draft) == Call("lists", [draft |-> draft, provinces |-> page.lists[1]])

ListsFor(body) ==
    LET below(code) == IF code \in DOMAIN Index THEN Offered(Index, code) ELSE {}
        city == IF body.draft.slots[2] # NoNode THEN body.draft.slots[2].code
                ELSE IF body.draft.group.level = 2 THEN body.draft.group.code ELSE NoCode
    IN <<IF body.provinces # {} THEN body.provinces ELSE Offered(Index, Root),
         below(body.draft.slots[1].code), below(city), below(body.draft.slots[3].code)>>

\* The codes a check or a confirmation is about, from the province down.
Codes(slots, group) ==
    <<Selection(slots[1]).code,
      IF group # NoNode THEN Selection(group).code ELSE Selection(slots[2]).code,
      Selection(slots[3]).code, Selection(slots[4]).code>>

FormInit ==
    /\ mix \in Mixes
    /\ host = [NoHost EXCEPT !.version = mix.version]
    /\ sorts = [c \in DOMAIN Snapshots[mix.version] |-> Snapshots[mix.version][c].sort]
    /\ page = [result |-> NoResult, draft |-> NoCandidate, lists |-> EmptyLists, overwrite |-> FALSE,
               reviewed |-> FALSE, check |-> "none", saved |-> FALSE, busy |-> FALSE]
    /\ calls = IF mix.provinces THEN {[id |-> mix.moves, kind |-> "provinces", body |-> NoCode]} ELSE {}
    /\ saved = {}
    /\ left = [moves |-> mix.moves, deployments |-> mix.deployments, sorts |-> mix.sorts,
               failures |-> mix.failures]

-----------------------------------------------------------------------------
(* The server *)

\* What the page makes of calls that failed: an error message and, after a parse, no
\* result; the draft stays.
Failed(failed) ==
    LET kinds == {call.kind : call \in failed} IN
    [page EXCEPT !.busy = @ /\ kinds \cap {"parse", "confirm"} = {},
                 !.result = IF "parse" \in kinds THEN NoResult ELSE @]

\* getHost: the calls that wait for an index that could not be built fail with it, and
\* the next one tries again.
FailStart ==
    \E waiting \in SUBSET calls \ {{}} :
        /\ host' = [NoHost EXCEPT !.version = host.version]
        /\ page' = Failed(waiting) /\ calls' = calls \ waiting

IndexReady(nodes) ==
    /\ host' = [host EXCEPT !.phase = "ready", !.nodes = nodes, !.load = NoLoad]
    /\ UNCHANGED <<page, calls>>

\* getHost: the first call after a start or a failed start builds the index; calls
\* that come meanwhile wait for the same one.
StartHost ==
    /\ host.phase = "none" /\ calls # {}
    /\ IF mix.provider = "area"
       THEN /\ host' = [host EXCEPT !.phase = "loading", !.load = StartLoad(host.version)]
            /\ UNCHANGED <<page, calls>>
       ELSE \E file \in mix.files[host.version] :
              IF Parsable(file) /\ Indexable(Snapshots[host.version], ToSet(file.codes))
              THEN IndexReady(ToSet(file.codes)) ELSE FailStart
    /\ UNCHANGED <<mix, sorts, saved, left>>

\* loadSnapshot: one page, in a transaction of its own.
LoadPage ==
    /\ host.phase = "loading" /\ ~ AllRead(host.load)
    /\ host' = [host EXCEPT !.load = ReadPage(@, AreaTable)]
    /\ UNCHANGED <<mix, sorts, page, calls, saved, left>>

\* loadSnapshot and initParser, when the last page is there.
FinishLoad ==
    /\ host.phase = "loading" /\ AllRead(host.load)
    /\ IF CountsAgree(host.load, AreaTable) /\ Indexable(AreaTable, host.load.nodes)
       THEN IndexReady(host.load.nodes) ELSE FailStart
    /\ UNCHANGED <<mix, sorts, saved, left>>

\* An operator moves a region to another place of the order.
EditSort ==
    /\ left.sorts > 0 /\ host.phase = "loading"
    /\ \E c \in DOMAIN sorts, n \in 0..Cardinality(DOMAIN sorts) + 1 :
         /\ \A d \in DOMAIN sorts : sorts[d] # n
         /\ sorts' = [sorts EXCEPT ![c] = n]
    /\ left' = [left EXCEPT !.sorts = @ - 1]
    /\ UNCHANGED <<mix, host, page, calls, saved>>

\* A new process, which serves another version.
Deploy ==
    /\ left.deployments > 0
    /\ \E v \in DOMAIN Snapshots \ {host.version} :
         host' = [NoHost EXCEPT !.version = v]
    /\ left' = [left EXCEPT !.deployments = @ - 1]
    /\ UNCHANGED <<mix, sorts, page, calls, saved>>

-----------------------------------------------------------------------------
(* The user *)

Move(kind, newPage, newCalls) ==
    /\ left.moves[kind] > 0
    /\ left' = [left EXCEPT !.moves[kind] = @ - 1]
    /\ page' = newPage
    /\ calls' = calls \cup newCalls
    /\ UNCHANGED <<mix, host, sorts, saved>>

RunParse ==
    /\ ~ page.busy
    /\ \E text \in mix.texts, options \in mix.options :
         Move("parse", [page EXCEPT !.busy = TRUE],
              {Call("parse", [text |-> text, options |-> options])})

\* adopt: the phone the form holds stays unless the user has ticked to overwrite it.
Adopt ==
    /\ \E c \in Offers :
         LET plain == ToWithStreet(c)
             draft == IF c.recipient.phone # ExistingPhone /\ ~ page.overwrite
                      THEN ApplyPhone(plain, ExistingPhone) ELSE plain
         IN Move("adopt", [page EXCEPT !.draft = draft, !.check = "none", !.saved = FALSE, !.reviewed = FALSE],
                 {SyncLists(draft)})

Edit(draft) ==
    Move("edit", [page EXCEPT !.draft = draft, !.check = "none", !.saved = FALSE], {SyncLists(draft)})

EditRegion ==
    /\ page.draft # NoCandidate
    /\ \E level \in 1..4 : \E option \in page.lists[level] \cup {NoOption} :
         Applicable(level, option) /\ Edit(ApplyRegion(page.draft, level, option))

EditDetail == page.draft # NoCandidate /\ Edit(ApplyDetail(page.draft, NewDetail))

Tick ==
    \/ /\ page.draft # NoCandidate /\ ~ page.reviewed
       /\ Move("tick", [page EXCEPT !.reviewed = TRUE], {})
    \/ /\ page.draft # NoCandidate /\ ~ page.overwrite
       /\ Move("tick", [page EXCEPT !.overwrite = TRUE], {})

CheckPath ==
    /\ page.draft # NoCandidate
    /\ Move("check", page, {Call("check", Codes(page.draft.slots, page.draft.group))})

\* confirm; the page sends the version of the parse result it shows.
Confirm ==
    /\ ~ page.busy /\ page.reviewed /\ page.check # "refused"
    /\ page.draft # NoCandidate /\ page.result # NoResult
    /\ Move("confirm", [page EXCEPT !.busy = TRUE],
            {Call("confirm",
                  [slots |-> [l \in 1..4 |-> Selection(page.draft.slots[l])],
                   group |-> Selection(page.draft.group), detail |-> page.draft.detail,
                   phone |-> page.draft.recipient.phone, status |-> page.draft.status,
                   version |-> page.result.version])})

-----------------------------------------------------------------------------
(* Answers *)

Answer(call, newPage, newSaved) ==
    /\ host.phase = "ready"
    /\ calls' = calls \ {call}
    /\ page' = newPage
    /\ saved' = newSaved
    /\ UNCHANGED <<mix, host, sorts, left>>

AnswerProvinces ==
    \E call \in calls :
      /\ call.kind = "provinces"
      /\ Answer(call, [page EXCEPT !.lists[1] = Offered(Index, Root)], saved)

AnswerLists ==
    \E call \in calls :
      /\ call.kind = "lists"
      /\ Answer(call, [page EXCEPT !.lists = ListsFor(call.body)], saved)

AnswerParse ==
    \E call \in calls :
      /\ call.kind = "parse"
      /\ \E answers \in EngineAnswers(Index, call.body.text) :
           Answer(call,
                  [page EXCEPT !.result = [version |-> host.version,
                                           parsed |-> Parse(call.body.text, Index, call.body.options, answers)],
                               !.draft = NoCandidate, !.check = "none", !.saved = FALSE,
                               !.reviewed = FALSE, !.busy = FALSE],
                  saved)

AnswerCheck ==
    \E call \in calls :
      /\ call.kind = "check"
      /\ Answer(call, [page EXCEPT !.check =
                         IF ValidSelection(Index, call.body) /\ ValidatePath(call.body)
                         THEN "passed" ELSE "refused"], saved)

\* selectionMatchesSnapshot
Matches(node) ==
    node = NoNode \/ (node.code \in DOMAIN Index /\ Node(Index, node.code) =
                        [code |-> node.code, name |-> node.name, level |-> node.level])

\* asMeta: the page has the version the server parses with.
SameMeta(body) == body.version = host.version

Ordered(body) == Filled(Codes(body.slots, body.group))

\* confirmAddress
Confirmable(body) ==
    /\ SameMeta(body)
    /\ \A l \in 1..4 : Matches(body.slots[l])
    /\ Matches(body.group)
    /\ ValidSelection(Index, Ordered(body)) /\ ValidatePath(Ordered(body))
    /\ body.detail # << >> \/ body.status = "unmatched"

Record(body) ==
    [codes |-> [l \in 1..4 |-> body.slots[l].code], names |-> [l \in 1..4 |-> body.slots[l].name],
     group |-> body.group.code, detail |-> body.detail, phone |-> body.phone, version |-> body.version]

AnswerConfirm ==
    \E call \in calls :
      /\ call.kind = "confirm"
      /\ IF Confirmable(call.body)
         THEN Answer(call, [page EXCEPT !.saved = TRUE, !.busy = FALSE], saved \cup {Record(call.body)})
         ELSE Answer(call, Failed({call}), saved)

\* The address is saved and the answer does not arrive.
LoseConfirm ==
    /\ left.failures > 0
    /\ \E call \in calls :
         /\ call.kind = "confirm" /\ host.phase = "ready" /\ Confirmable(call.body)
         /\ saved' = saved \cup {Record(call.body)}
         /\ page' = Failed({call}) /\ calls' = calls \ {call}
    /\ left' = [left EXCEPT !.failures = @ - 1]
    /\ UNCHANGED <<mix, host, sorts>>

\* A call does not reach the server, or its process went away; bounded.
FailCall ==
    /\ left.failures > 0
    /\ \E call \in calls : page' = Failed({call}) /\ calls' = calls \ {call}
    /\ left' = [left EXCEPT !.failures = @ - 1]
    /\ UNCHANGED <<mix, host, sorts, saved>>

FormNext ==
    \/ StartHost \/ LoadPage \/ FinishLoad \/ EditSort \/ Deploy
    \/ RunParse \/ Adopt \/ EditRegion \/ EditDetail \/ Tick \/ CheckPath \/ Confirm
    \/ AnswerProvinces \/ AnswerLists \/ AnswerParse \/ AnswerCheck \/ AnswerConfirm
    \/ LoseConfirm \/ FailCall

FormSpec == FormInit /\ [][FormNext]_formVars

-----------------------------------------------------------------------------
\* The server parses with the whole of the regions of the levels it asked area-kit
\* for, although operators move regions between the pages it reads: a load that
\* missed one is refused.
SnapshotComplete ==
    host.phase = "ready" /\ mix.provider = "area" =>
        host.nodes = {c \in DOMAIN AreaTable : LevelOf(AreaTable, c) \in Levels}

\* The regions of a saved address are one path of the version saved with it, each
\* under its name there, whatever lists the page showed, in whatever order answers
\* came and whatever version was deployed between the parse and the confirmation.
SavedPathIsReal ==
    \A r \in saved :
      LET table == Snapshots[r.version]
          given == {l \in 1..4 : r.codes[l] # NoCode}
      IN /\ \A l \in given : /\ r.codes[l] \in DOMAIN table
                            /\ LevelOf(table, r.codes[l]) = l /\ table[r.codes[l]].name = r.names[l]
         /\ \A k, l \in given : k < l => r.codes[k] \in Ancestors(table, r.codes[l])
         /\ r.group # NoCode => /\ r.codes[2] = NoCode
                                /\ \A l \in given : l > 2 => r.group \in Ancestors(table, r.codes[l])

\* The regions the server parses with and those that are saved are those of a version.
RegionsAreReal == SnapshotComplete /\ SavedPathIsReal

Occurrences(words, word) == Cardinality({i \in DOMAIN words : words[i] = word})

\* Nothing of a text is lost: a word is in the words a level was matched by, in the
\* name or the phones, in the detailed address or in the residual, as often as it
\* was in the text.  Labels, colons and spaces are not kept; nor are extensions,
\* which the phones after the first one lose.
NothingLost ==
    \A c \in Offers :
      LET located == SelectSeq(c.slots, LAMBDA n : n.range # NoSpan)
          kept == FlattenSeq([i \in DOMAIN located |-> located[i].text])
                    \o c.recipient.name \o <<c.recipient.phone>> \o c.recipient.extraPhones
                    \o c.detail \o c.residual
          input == page.result.parsed.input
      IN \A w \in ToSet(input) \ ({Space, Colon, Extension} \cup Labels) :
           Occurrences(input, w) <= Occurrences(kept, w)

\* A result that asks for no review has one candidate, down to the district at least,
\* whose levels the user wrote, one after the other and with nothing between them,
\* none of them the beginning of a road's name.
ReviewIsAsked ==
    page.result # NoResult /\ ~ page.result.parsed.requiresReview =>
        LET raw == page.result.parsed.input
            c == page.result.parsed.candidates[1]
            given == {l \in 1..4 : c.slots[l] # NoNode}
            table == Snapshots[page.result.version]
        IN /\ Offers = {c} /\ c.residual = << >>
           /\ \E l \in given : l >= 3
           /\ \A l \in given :
                LET n == c.slots[l]
                    rest == Spaceless(SubSeq(raw, n.range.end, Len(raw)))
                IN /\ n.match = "explicit" /\ Spaceless(Words(raw, n.range)) = n.text
                   /\ n.text # table[n.code].source =>
                        ~ (rest # << >> /\ Head(rest) = "lu")
=============================================================================
