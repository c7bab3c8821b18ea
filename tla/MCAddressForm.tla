----------------------------- MODULE MCAddressForm -----------------------------
EXTENDS AddressForm

Region(name, parent, level, kind, sort) ==
    [name |-> name, source |-> name, parent |-> parent, level |-> level, kind |-> kind,
     enabled |-> TRUE, sort |-> sort]

\* Two provinces; gd has a city with the districts e and x, and e a street that is named
\* after it; bj has nothing but a group, with a district of the same name as x.
Table(gd, above) ==
    [gd |-> Region(gd, Root, 1, "region", 1),
     bj |-> Region(<<"bj">>, Root, 1, "region", 2),
     sz |-> Region(<<"sz", "shi">>, "gd", 2, "region", 3),
     g  |-> Region(<<"shixiaqu">>, "bj", 2, "group", 4),
     e  |-> Region(<<"dong">>, "sz", 3, "region", 5),
     x  |-> Region(<<"gu">>, "sz", 3, "region", 6),
     y  |-> Region(<<"gu">>, "g", 3, "region", 7),
     st |-> Region(<<"dong", "jiedao">>, above, 4, "region", 8)]

\* The second version renames gd and moves the street to x.
TwoVersions == [v1 |-> Table(<<"gd", "sheng">>, "e"), v2 |-> Table(<<"gdxin">>, "x")]

AllCodes == <<"gd", "bj", "sz", "g", "e", "x", "y", "st">>
Good == [codes |-> AllCodes, malformed |-> FALSE]

GoodFiles == [v1 |-> {Good}, v2 |-> {Good}]
SomeFiles ==
    [v1 |-> {Good, [Good EXCEPT !.malformed = TRUE], [Good EXCEPT !.codes = Append(@, "e")],
             [Good EXCEPT !.codes = Remove(@, "e")]},
     v2 |-> {Good}]

Concat(a, b, c) == a \o b \o c

\* Beginnings, middles and ends of the texts; each triple is a text.
Regions == {<<"gd", "sheng", "sz", "shi", "dong">>, <<"gd", " ", "sheng", "sz", "dong", "dong", "jiedao">>,
            <<"sz", "shi", "dong", "dong", " ", "lu">>, <<"gu">>, <<"bj", "gu">>, <<"zhongxin">>}
Ends == {<< >>, <<" ", "lu", "18">>}
Persons == {<< >>, <<" ", "138", " ">>, <<"zhangwei", "138", "zhuan802", " ", "139", "zhuan802">>,
            <<"shoujianren", ":", "lina", "&", "zhangwei", " ", "dianhua", "138">>,
            <<" ", "beizhu", "lina", "138*">>}

AllTexts == {Concat(a, b, c) : a \in Regions, b \in Ends, c \in Persons}
              \cup {Concat(a, b, c) : a \in {p \in Persons : Len(p) > 5}, b \in Regions, c \in {<<"18">>}}

NoHint == <<NoCode, NoCode, NoCode>>
Options(extract, inferred, hint) ==
    [extractRecipient |-> extract, allowInferred |-> inferred, hint |-> hint]

AllOptions == {Options(TRUE, FALSE, NoHint), Options(FALSE, FALSE, NoHint),
               Options(TRUE, TRUE, [NoHint EXCEPT ![1] = "bj"])}

Mix(provider, free, texts, options, moves) ==
    [provider |-> provider, version |-> "v1", files |-> GoodFiles, provinces |-> FALSE, free |-> free,
     texts |-> texts, options |-> options, moves |-> moves, deployments |-> 0, sorts |-> 0,
     failures |-> 0]

OneText == {<<"gd", "sheng", "sz", "shi", "dong", "dong", "jiedao", "18">>}
Plain == {Options(TRUE, FALSE, NoHint)}

\* How often the user does what.
Moves(parse, adopt, edit, tick, check, confirm) ==
    [parse |-> parse, adopt |-> adopt, edit |-> edit, tick |-> tick, check |-> check,
     confirm |-> confirm]

NewDetailWords == <<"dong", "19">>

TextsMix == Mix("json", TRUE, AllTexts, AllOptions, Moves(1, 0, 0, 0, 0, 0))
EditsMix == [Mix("json", FALSE, OneText, Plain, Moves(1, 1, 2, 1, 0, 1))
             EXCEPT !.deployments = 1]
AnswersMix == [Mix("json", FALSE, {<<"gu", "18">>}, Plain, Moves(2, 1, 0, 1, 1, 1))
               EXCEPT !.files = SomeFiles, !.provinces = TRUE, !.failures = 1]
LoadMix == [Mix("area", FALSE, OneText, Plain, Moves(1, 1, 0, 1, 1, 1)) EXCEPT !.sorts = 2]

SomeMixes == {TextsMix, EditsMix, AnswersMix, LoadMix}
=============================================================================
