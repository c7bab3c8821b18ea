------------------------------ MODULE AddressParse ------------------------------
(***************************************************************************)
(* How addr-parse-kit maps what the parsing engine finds in a text to       *)
(* candidates a user can confirm, and back to one line.                     *)
(*                                                                          *)
(* A text is a sequence of words; a Han word stands for two characters.     *)
(* A span is a half-open interval of its positions.  The engine is          *)
(* external: it answers with paths of the index, with the words it matched  *)
(* each level by (none for a level it inferred), a name and a phone.        *)
(***************************************************************************)
EXTENDS AddressRegions

Space == " "
Colon == ":"
Ampersand == "&"
Stop == "."
Number == "18"
NameLabel == "shoujianren"
PhoneLabel == "dianhua"
NoteLabel == "beizhu"
Phones == {"138", "139"}
Masked == "138*"
Extension == "zhuan802"
Roads == {"lu", "dao"}
Street == "jie"
PlaceSuffixes == {"zhou"}

Labels == {NameLabel, PhoneLabel}
Han(word) == word \notin {Space, Colon, Ampersand, Stop, Number, Masked, Extension} \cup Phones

-----------------------------------------------------------------------------
Span(start, end) == [start |-> start, end |-> end]
NoSpan == Span(0, 0)

Words(raw, span) == SubSeq(raw, span.start, span.end - 1)

Spaceless(words) == SelectSeq(words, LAMBDA w : w # Space)

\* The first position at or after p whose word is not in ws.
Skip(raw, p, ws) ==
    LET skip[q \in 1..Len(raw) + 1] ==
            IF q <= Len(raw) /\ raw[q] \in ws THEN skip[q + 1] ELSE q
    IN skip[p]

\* findSpan: the first exact occurrence, else the first one with spaces in between
\* and in front.
FindSpan(raw, needle, from) ==
    LET first(i) == Skip(raw, i, {Space})
        starts == {i \in from..Len(raw) : /\ needle # << >> /\ first(i) <= Len(raw)
                                          /\ raw[first(i)] = Head(needle)}
        exact == {i \in starts : IsPrefix(needle, SubSeq(raw, i, Len(raw)))}
        ends(i) == {j \in i + 1..Len(raw) + 1 : Spaceless(Words(raw, Span(i, j))) = needle}
        loose == {i \in starts : ends(i) # {}}
        Smallest(S) == CHOOSE i \in S : \A j \in S : i <= j
    IN IF loose = {} THEN NoSpan
       ELSE IF exact # {} THEN Span(Smallest(exact), Smallest(exact) + Len(needle))
       ELSE Span(Smallest(loose), Smallest(ends(Smallest(loose))))

\* stripSpans: what is left of a text without the spans, a span that begins inside
\* an earlier one passed over; sort is stable.
StripSpans(raw, spans) ==
    LET strip[p \in 1..Len(raw) + 1] ==
            IF p > Len(raw) THEN << >>
            ELSE IF \E i \in DOMAIN spans : spans[i].start = p
                 THEN strip[spans[SelectInSeq(spans, LAMBDA s : s.start = p)].end]
            ELSE <<raw[p]>> \o strip[p + 1]
    IN strip[1]

Trim(words) ==
    LET rest == SubSeq(words, Skip(words, 1, {Space}), Len(words))
    IN Reverse(SubSeq(Reverse(rest), Skip(Reverse(rest), 1, {Space}), Len(rest)))

\* Mutation: with the word before it, be it a label or not.
ExtendWithAny(raw, span) ==
    LET back == Reverse(SubSeq(raw, 1, span.start - 1))
        c == Skip(back, 1, {Space})
    IN IF c <= Len(back) THEN Span(span.start - c, span.end) ELSE span

\* extendWithLabel: with the label before it, a colon and spaces between them.
ExtendWithLabel(raw, span) ==
    LET back == Reverse(SubSeq(raw, 1, span.start - 1))
        c == Skip(back, 1, {Space})
        l == IF c <= Len(back) /\ back[c] = Colon THEN Skip(back, c + 1, {Space}) ELSE c
    IN IF l <= Len(back) /\ back[l] \in Labels THEN Span(span.start - l, span.end) ELSE span

\* findPhones: each with the extension that follows it.
FindPhones(raw) ==
    LET phone(p) ==
            LET e == Skip(raw, p + 1, {Space})
                extended == e <= Len(raw) /\ raw[e] = Extension
            IN [span |-> Span(p, IF extended THEN e + 1 ELSE p + 1), digits |-> raw[p],
                extended |-> extended]
    IN [i \in 1..Cardinality({p \in DOMAIN raw : raw[p] \in Phones}) |->
          phone(SetToSortSeq({p \in DOMAIN raw : raw[p] \in Phones}, <)[i])]

IsMasked(raw) == Masked \in ToSet(raw)

\* A run of two to six Han characters.
RunFrom(raw, p) ==
    LET end == CHOOSE e \in p..Len(raw) + 1 :
                   /\ e - p <= 3 /\ \A q \in p..e - 1 : Han(raw[q])
                   /\ e = Len(raw) + 1 \/ e - p = 3 \/ ~ Han(raw[e])
    IN IF p > Len(raw) THEN NoSpan ELSE IF end = p THEN NoSpan ELSE Span(p, end)

\* findLabeledNames: the name after a label, and the one joined to it.
FindLabeledNames(raw) ==
    LET colon(p) == Skip(raw, p + 1, {Space})
        from(p) == IF colon(p) <= Len(raw) /\ raw[colon(p)] = Colon
                   THEN Skip(raw, colon(p) + 1, {Space}) ELSE colon(p)
        first(p) == RunFrom(raw, from(p))
        joint(p) == Skip(raw, first(p).end, {Space})
        extra(p) == IF joint(p) <= Len(raw) /\ raw[joint(p)] = Ampersand
                    THEN RunFrom(raw, Skip(raw, joint(p) + 1, {Space})) ELSE NoSpan
        names[p \in 1..Len(raw) + 1] ==
            IF p > Len(raw) THEN << >>
            ELSE IF raw[p] # NameLabel \/ first(p) = NoSpan THEN names[p + 1]
            ELSE <<[span |-> first(p), name |-> Words(raw, first(p)),
                    extra |-> IF extra(p) = NoSpan THEN << >> ELSE <<Words(raw, extra(p))>>]>>
                 \o names[IF extra(p) = NoSpan THEN first(p).end ELSE extra(p).end]
    IN names[1]

\* precededByNoteLabel
PrecededByNoteLabel(raw, p) ==
    \E q \in 1..p - 1 : /\ raw[q] = NoteLabel /\ p - q <= 7
                        /\ \A r \in q + 1..p - 1 : raw[r] # Stop

\* guessNameBefore: the last two to four Han characters before a phone.
GuessNameBefore(raw, p) ==
    LET end == CHOOSE e \in 0..p - 1 : /\ \A q \in e + 1..p - 1 : raw[q] = Space
                                       /\ e = 0 \/ raw[e] # Space
        start == IF end > 1 /\ Han(raw[end - 1]) THEN end - 1 ELSE end
    IN IF end = 0 THEN NoSpan ELSE IF Han(raw[end]) THEN Span(start, end + 1) ELSE NoSpan

-----------------------------------------------------------------------------
\* LevelNode; text and range are its matchedText and matchedRange.
NoNode == [code |-> NoCode, name |-> << >>, level |-> 0, match |-> "none",
           text |-> << >>, range |-> NoSpan]

LevelNode(table, found) ==
    [code |-> found.code, name |-> table[found.code].name, level |-> LevelOf(table, found.code),
     match |-> IF found.text = << >> THEN "inferred" ELSE "explicit",
     text |-> found.text, range |-> NoSpan]

NoRecipient == [name |-> << >>, phone |-> NoCode, extended |-> FALSE,
                extraNames |-> {}, extraPhones |-> << >>, masked |-> FALSE]

\* collectSlots: the levels of a candidate as it gives them, without groups, unknown
\* codes, levels given twice and what the engine inferred unless that is allowed.
Taken(table, path, i) ==
    \E j \in 1..i - 1 : /\ path[j].code \in DOMAIN table /\ table[path[j].code].kind # "group"
                        /\ LevelOf(table, path[j].code) = LevelOf(table, path[i].code)

Part(table, path, i) ==
    IF path[i].code \notin DOMAIN table THEN "unknown"
    ELSE IF table[path[i].code].kind = "group" THEN "group"
    ELSE IF Taken(table, path, i) THEN "repeated"
    ELSE IF path[i].text = << >> THEN "inferred" ELSE "explicit"

\* assignSpans: each explicit level is looked for after the one before it, and from
\* the start of the text when it is not there.
AssignSpans(raw, table, path) ==
    LET assigned[i \in 0..Len(path)] ==
            IF i = 0 THEN [from |-> 1, spans |-> << >>]
            ELSE LET last == assigned[i - 1]
                     later == FindSpan(raw, path[i].text, last.from)
                     span == IF Part(table, path, i) # "explicit" THEN NoSpan
                             ELSE IF later # NoSpan THEN later ELSE FindSpan(raw, path[i].text, 1)
                 IN [from |-> IF span = NoSpan THEN last.from ELSE span.end,
                     spans |-> Append(last.spans, span)]
    IN assigned[Len(path)].spans

\* Mutation: a space before the word hides it.
SuspectRoadAdjacent(raw, source, text, span) ==
    /\ text # source /\ IsPrefix(text, source)
    /\ span.end <= Len(raw)
    /\ raw[span.end] \in Roads \cup {Street}

\* suspectRoadConsumption: a shortened name before the word for a road.
SuspectRoad(raw, source, text, span) ==
    LET next == Skip(raw, span.end, {Space}) IN
    /\ text # source /\ IsPrefix(text, source)
    /\ next <= Len(raw)
    /\ \/ raw[next] \in Roads /\ ~ (raw[next] = "dao" /\ raw[next - 1] = Street)
       \/ raw[next] = Street /\ (next = Len(raw) \/ raw[next + 1] # "dao")

\* What the scans of a text find.
Scan(raw) == [phones |-> FindPhones(raw), names |-> FindLabeledNames(raw)]

\* Whether the name the engine gives may be something else, and where it is.
Doubtful(raw, table, name, located) ==
    \/ name \in {<<w>> : w \in Labels \cup {NoteLabel}} \cup PlaceNames(table)
    \/ name # << >> /\ Last(name) \in PlaceSuffixes
    \/ located # NoSpan /\ PrecededByNoteLabel(raw, located.start)

Located(raw, names, name) ==
    LET known == SelectInSeq(names, LAMBDA l : l.name = name)
    IN IF known > 0 THEN names[known].span ELSE FindSpan(raw, name, 1)

PrimaryPhone(phones, phone) ==
    LET same == SelectInSeq(phones, LAMBDA p : p.digits = phone)
    IN IF phone = NoCode \/ phones = << >> THEN 0 ELSE IF same > 0 THEN same ELSE 1

\* The name: the engine's, else the first labeled one, else a guess.
ChooseName(raw, names, name, doubtful, located, guess) ==
    IF name # << >> /\ ~ doubtful THEN [name |-> name, span |-> located, guessed |-> FALSE]
    ELSE IF names # << >>
    THEN [name |-> names[1].name, span |-> names[1].span, guessed |-> FALSE]
    ELSE IF guess # NoSpan /\ ~ PrecededByNoteLabel(raw, guess.start)
    THEN [name |-> Words(raw, guess), span |-> guess, guessed |-> TRUE]
    ELSE [name |-> << >>, span |-> NoSpan, guessed |-> FALSE]

\* What is made of the phones, the primary one first, and the chosen name.
BuildRecipient(raw, cand, scan, primary, chosen, doubtful, located) ==
    LET first == [i \in 1..(IF primary = 0 THEN 0 ELSE 1) |-> scan.phones[primary]]
        others == IF primary = 0 THEN << >> ELSE RemoveAt(scan.phones, primary)
        extraNames == UNION {{l.name} \cup ToSet(l.extra) :
                                l \in {k \in ToSet(scan.names) : k.name # chosen.name}}
        spans == [i \in DOMAIN (first \o others) |-> (first \o others)[i].span]
                    \o SelectSeq(<<chosen.span>>, LAMBDA s : s # NoSpan)
        warned == [MULTIPLE_PHONES |-> others # << >>, PHONE_MASKED |-> IsMasked(raw),
                   NAME_MAY_BE_PLACE |-> cand.name # << >> /\ doubtful,
                   TEXT_SPAN_UNRESOLVED |-> cand.name # << >> /\ ~ doubtful /\ located = NoSpan,
                   RECIPIENTS_AMBIGUOUS |-> chosen.guessed \/ extraNames # {}]
    IN [recipient |->
            [name |-> chosen.name, phone |-> IF primary = 0 THEN NoCode ELSE first[1].digits,
             extended |-> primary # 0 /\ first[1].extended, extraNames |-> extraNames,
             extraPhones |-> [i \in DOMAIN others |-> others[i].digits],
             masked |-> IsMasked(raw)],
        spans |-> [i \in DOMAIN spans |-> ExtendWithLabel(raw, spans[i])],
        warnings |-> {w \in DOMAIN warned : warned[w]}]

\* buildRecipient, in the order of its steps.
RecipientOf(raw, table, cand, scan, primary, located) ==
    LET doubtful == Doubtful(raw, table, cand.name, located)
        guess == IF primary = 0 THEN NoSpan
                 ELSE GuessNameBefore(raw, scan.phones[primary].span.start)
    IN BuildRecipient(raw, cand, scan, primary,
                      ChooseName(raw, scan.names, cand.name, doubtful, located, guess),
                      doubtful, located)

Recipient(raw, table, cand, scan) ==
    RecipientOf(raw, table, cand, scan, PrimaryPhone(scan.phones, cand.phone),
                Located(raw, scan.names, cand.name))

\* rebuildText: the detailed address is what follows the last level, the residual
\* what is left before it.  Spans of the whole text are moved with its tail.
Shift(span, by) == Span(span.start - by, span.end - by)

RebuildText(raw, admin, entities) ==
    LET cut == IF admin = << >> THEN 1
               ELSE CHOOSE e \in {s.end : s \in ToSet(admin)} : \A s \in ToSet(admin) : s.end <= e
        behind == SelectSeq(entities, LAMBDA s : s.start >= cut)
        before == SelectSeq(entities, LAMBDA s : s.end <= cut)
    IN [detail |-> Trim(StripSpans(SubSeq(raw, cut, Len(raw)),
                                   [i \in DOMAIN behind |-> Shift(behind[i], cut - 1)])),
        residual |-> Trim(StripSpans(SubSeq(raw, 1, cut - 1), admin \o before))]

\* classify
Classify(explicit, inferred, answers, warnings, doubts) ==
    IF explicit = {} /\ ~ inferred THEN "unmatched"
    ELSE IF answers > 1 \/ warnings # {} THEN "ambiguous"
    ELSE IF (\E n \in explicit : n.level >= 3) /\ doubts = {} THEN "matched" ELSE "partial"

\* collectSlots, with the spans assigned: which indices of a path are what.
CollectSlots(raw, table, options, path, spans) ==
    LET parts == [i \in DOMAIN path |-> Part(table, path, i)]
        are(what) == {i \in DOMAIN path : parts[i] = what}
        suspects == {i \in are("explicit") : /\ spans[i] # NoSpan
                       /\ SuspectRoad(raw, table[path[i].code].source, path[i].text, spans[i])}
        inferred == IF options.allowInferred THEN are("inferred") ELSE {}
    IN [spans |-> spans, suspects |-> suspects, inferred |-> inferred,
        stripped |-> are("inferred") \ inferred,
        kept |-> (are("explicit") \ suspects) \cup inferred,
        unlocated |-> {i \in are("explicit") : spans[i] = NoSpan},
        unknown |-> are("unknown"), repeated |-> are("repeated"), groups |-> are("group")]

\* The spans of the levels that are kept, in the order of the path.
AdminSpans(slots) ==
    SelectSeq([i \in DOMAIN slots.spans |-> IF i \in slots.kept THEN slots.spans[i] ELSE NoSpan],
              LAMBDA s : s # NoSpan)

\* What mapCandidate makes of the slots, the recipient and the text rebuilt, for one of
\* a number of answers of the engine.
CandidateOf(table, cand, answers, slots, built, rebuilt) ==
    LET path == cand.path
        level(i) == LevelOf(table, path[i].code)
        doubts == UNION {slots.suspects, slots.unknown, slots.repeated, slots.unlocated,
                         {i \in slots.stripped : level(i) = 4}}
        explicit == {[level |-> level(i)] : i \in {k \in slots.kept : slots.spans[k] # NoSpan}}
        status == Classify(explicit, slots.inferred # {}, answers, cand.warnings, doubts)
        warned == [LEVELS_INFERRED |-> slots.inferred # {}, LEVELS_STRIPPED |-> slots.stripped # {},
                   STREET_MATCH_SUSPECT |-> slots.suspects # {},
                   TEXT_SPAN_UNRESOLVED |-> slots.unlocated \cup slots.unknown # {},
                   PATH_MISMATCH |-> slots.repeated # {},
                   ENGINE_DETAIL_MISMATCH |-> ~ cand.sameDetail /\ rebuilt.detail # << >>,
                   RESIDUAL_TEXT |-> rebuilt.residual # << >>]
        warnings == built.warnings \cup cand.warnings \cup {w \in DOMAIN warned : warned[w]}
        slot(i) == IF i \in slots.suspects
                   THEN [LevelNode(table, path[i]) EXCEPT !.match = "none", !.text = << >>]
                   ELSE [LevelNode(table, path[i]) EXCEPT !.range = slots.spans[i]]
        at(l) == {i \in slots.kept \cup slots.suspects : level(i) = l}
    IN [status |-> status,
        requiresReview |-> status # "matched" \/ warnings # {} \/ slots.inferred # {},
        warnings |-> warnings, mode |-> "withStreet",
        slots |-> [l \in 1..4 |-> IF at(l) = {} THEN NoNode ELSE slot(CHOOSE i \in at(l) : TRUE)],
        group |-> IF slots.groups = {} THEN NoNode
                  ELSE [LevelNode(table, path[CHOOSE i \in slots.groups :
                                                \A j \in slots.groups : i <= j])
                        EXCEPT !.text = << >>],
        detail |-> rebuilt.detail, residual |-> rebuilt.residual,
        recipient |-> built.recipient, folded |-> [street |-> NoNode, detail |-> << >>]]

Suppressed(cand) ==
    [recipient |-> NoRecipient, spans |-> << >>,
     warnings |-> IF cand.name # << >> \/ cand.phone # NoCode THEN {"RECIPIENT_SUPPRESSED"} ELSE {}]

MapWith(raw, table, cand, answers, slots, built) ==
    CandidateOf(table, cand, answers, slots, built,
                RebuildText(raw, AdminSpans(slots), built.spans))

MapCandidate(raw, table, options, cand, answers, scan) ==
    MapWith(raw, table, cand, answers,
            CollectSlots(raw, table, options, cand.path, AssignSpans(raw, table, cand.path)),
            IF options.extractRecipient THEN Recipient(raw, table, cand, scan) ELSE Suppressed(cand))

-----------------------------------------------------------------------------
\* fallbackCandidate, when the engine has no answer: the recipient is still looked
\* for, the first phone being the primary one.
FallbackOf(raw, options, names, found) ==
    LET extra == IF names = << >> THEN {}
                 ELSE UNION {{l.name} \cup ToSet(l.extra) : l \in ToSet(Tail(names))}
        guessed == names = << >> /\ found.recipient.name # << >>
        warnings == (found.warnings \ {"RECIPIENTS_AMBIGUOUS"})
                      \cup (IF extra # {} \/ guessed THEN {"RECIPIENTS_AMBIGUOUS"} ELSE {})
    IN [status |-> "unmatched", requiresReview |-> TRUE, mode |-> "withStreet",
        warnings |-> IF options.extractRecipient THEN warnings ELSE {"RECIPIENT_SUPPRESSED"},
        slots |-> [l \in 1..4 |-> NoNode], group |-> NoNode,
        detail |-> IF options.extractRecipient THEN Trim(StripSpans(raw, found.spans)) ELSE Trim(raw),
        residual |-> << >>,
        recipient |-> IF options.extractRecipient
                         /\ (found.recipient.phone # NoCode \/ found.recipient.name # << >>)
                      THEN [found.recipient EXCEPT !.extraNames = extra] ELSE NoRecipient,
        folded |-> [street |-> NoNode, detail |-> << >>]]

FallbackCandidate(raw, options, scan) ==
    LET first == IF scan.phones = << >> THEN NoCode ELSE scan.phones[1].digits
    IN FallbackOf(raw, options, scan.names,
                  Recipient(raw, << >>, [name |-> << >>, phone |-> first], scan))

\* applyRegionHint: candidates against the hint are left out, unless all are.
ApplyRegionHint(candidates, hint) ==
    LET conflicts(c) == \E l \in DOMAIN hint : /\ hint[l] # NoCode
                                               /\ c.slots[l].match = "explicit"
                                               /\ c.slots[l].code # hint[l]
        kept == {i \in DOMAIN candidates : ~ conflicts(candidates[i])}
    IN IF kept # {} THEN Filter(candidates, kept)
       ELSE [candidates EXCEPT ![1].warnings = @ \cup {"HINT_CONFLICT"}]

\* parse
ParseOf(raw, candidates) ==
    [input |-> raw, candidates |-> candidates, status |-> candidates[1].status,
     requiresReview |-> candidates[1].requiresReview \/ Len(candidates) > 1,
     warnings |-> candidates[1].warnings
                    \cup (IF Len(candidates) > 1 THEN {"AMBIGUOUS"} ELSE {})]

Candidates(raw, table, options, answers, scan) ==
    IF answers = << >> THEN <<FallbackCandidate(raw, options, scan)>>
    ELSE [i \in DOMAIN answers |->
            MapCandidate(raw, table, options, answers[i], Len(answers), scan)]

Parse(raw, table, options, answers) ==
    ParseOf(raw, ApplyRegionHint(Candidates(raw, table, options, answers, Scan(raw)), options.hint))

-----------------------------------------------------------------------------
\* toWithoutStreet: the street goes back to the front of the detailed address.
ToWithoutStreet(c) ==
    IF c.mode = "withoutStreet" THEN c
    ELSE IF c.slots[4].match # "explicit"
         THEN [c EXCEPT !.mode = "withoutStreet", !.slots[4] = NoNode]
    ELSE LET text == IF c.slots[4].text = << >> THEN c.slots[4].name ELSE c.slots[4].text IN
         [c EXCEPT !.mode = "withoutStreet", !.slots[4] = NoNode,
                   !.detail = IF @ = << >> THEN text ELSE text \o <<Space>> \o @,
                   !.folded = [street |-> c.slots[4], detail |-> c.detail]]

\* toWithStreet
ToWithStreet(c) ==
    LET unfolded == [c EXCEPT !.mode = "withStreet", !.folded = [street |-> NoNode, detail |-> << >>]]
    IN IF c.mode = "withStreet" \/ c.folded.street = NoNode THEN unfolded
       ELSE [unfolded EXCEPT !.slots[4] = c.folded.street, !.detail = c.folded.detail]

\* formatAddress: a part that repeats the one before it, ends it or begins with it
\* is passed over.
FormatAddress(c, mode) ==
    LET view == IF mode = "withoutStreet" THEN ToWithoutStreet(c) ELSE ToWithStreet(c)
        name(l) == IF view.slots[l].match = "none" THEN << >> ELSE view.slots[l].name
        parts == <<name(1), name(2), name(3), name(4), view.detail>>
        repeats(prev, s) == \/ prev = s
                            \/ IsSuffix(s, prev)
                            \/ IsPrefix(prev, s)
        shown[i \in 0..5] ==
            IF i = 0 THEN << >>
            ELSE IF parts[i] = << >> \/ (shown[i - 1] # << >> /\ repeats(Last(shown[i - 1]), parts[i]))
                 THEN shown[i - 1] ELSE Append(shown[i - 1], parts[i])
    IN FlattenSeq(shown[5])
=============================================================================
