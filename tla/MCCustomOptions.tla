--------------------------- MODULE MCCustomOptions ---------------------------
(* Instances of CustomOptions: every literal against every type, on every kind of   *)
(* element; names in scopes; sub-paths, message literals and repeated options.      *)
EXTENDS CustomOptions

Field(name, number, type, of, repeated) ==
    [name |-> name, number |-> number, type |-> type, of |-> of, repeated |-> repeated,
     targets |-> {}, source |-> FALSE]
Source(f) == [f EXCEPT !.source = TRUE]
Scalar32(name, number) == Field(name, number, "int32", <<>>, FALSE)

\* Messages M and its group G, the MessageSet S, Any, and V with a field to vary.
M == <<"M">>
G == <<"M", "G">>
S == <<"S">>
V == <<"V">>
E == <<"E">>
AnyType == <<"any">>
FieldsOfM == {Scalar32("i", 1), Field("r", 2, "int32", <<>>, TRUE), Field("m", 3, "message", M, FALSE),
              Field("g", 4, "group", G, FALSE), Field("n", 5, "message", M, TRUE),
              Source(Scalar32("s", 6)), Field("any", 7, "message", AnyType, FALSE),
              Field("set", 8, "message", S, FALSE)}
Messages(vary) ==
    (M :> FieldsOfM) @@ (G :> {Scalar32("i", 1), Source(Scalar32("s", 6))}) @@ (S :> {})
    @@ (AnyType :> {Field("type_url", 1, "string", <<>>, FALSE), Field("value", 2, "bytes", <<>>, FALSE)})
    @@ (V :> {vary})

Extension(extendee, package, within, f) ==
    [extendee |-> extendee, package |-> package, within |-> within, field |-> f]
InSet == Extension(S, <<"q">>, <<>>, Field("x", 9, "message", M, FALSE))

Pool(extensions, vary) ==
    [messages |-> Messages(vary), sets |-> {S}, any |-> AnyType, packed |-> M,
     enums |-> E :> (("A" :> 0) @@ ("B" :> 1) @@ ("N" :> -1)),
     extensions |-> Append(extensions, InSet)]

NoLiteral == [token |-> "ident", minus |-> 0, n |-> 0, w |-> "none"]
Word(token, w) == [NoLiteral EXCEPT !.token = token, !.w = w]
Numeral(n) == [NoLiteral EXCEPT !.token = "int", !.n = n, !.w = ""]
Sym(w) == Word("symbol", w)
Ident(w) == Word("ident", w)

\* A statement as it is written.  Each element is in file 1, except the second file.
On(kind, element, name, path, sign, lit) ==
    [kind |-> kind, file |-> IF kind = "file" /\ element = "f" THEN 2 ELSE 1,
     elements |-> {element}, within |-> <<>>, features |-> FALSE,
     absolute |-> FALSE, name |-> name, path |-> path, aggregate |-> FALSE, fields |-> <<>>,
     negative |-> sign = 1, lit |-> lit]
Setting(kind, name, lit) ==
    [kind |-> kind, file |-> 1, elements |-> {"e"}, within |-> <<>>, type |-> "named",
     name |-> name, lit |-> lit, fields |-> <<>>]
IsStatement(x) == "path" \in DOMAIN x
Literally(s, fields) == [s EXCEPT !.aggregate = TRUE, !.fields = fields,
                                  !.lit = [NoLiteral EXCEPT !.token = "none"]]

Seg(name) == [paren |-> FALSE, absolute |-> FALSE, name |-> <<name>>]
ExtSeg(name) == [paren |-> TRUE, absolute |-> FALSE, name |-> name]

\* Entries of message literals, and how they are written: the separator after one, with
\* a colon or not, in angles or braces, in one list with those next to it or not, with
\* a comma to the next in the list or not.
EntryOf(name) == [name |-> <<name>>, extension |-> FALSE, url |-> FALSE, literal |-> FALSE,
                  positive |-> FALSE, trailing |-> FALSE, lit |-> NoLiteral, fields |-> <<>>,
                  separator |-> ",", colon |-> TRUE, angle |-> FALSE, list |-> FALSE, comma |-> TRUE]
Val(name, lit) == [EntryOf(name) EXCEPT !.lit = lit]
Sub(name, fields) == [EntryOf(name) EXCEPT !.literal = TRUE, !.fields = fields]
Trailing(name) == [EntryOf(name) EXCEPT !.trailing = TRUE, !.list = TRUE]
Listed(e) == [e EXCEPT !.list = TRUE]

-------------------------------------------------------------------------------
(* Texts. *)

Flat(ss) == FlattenSeq(ss)
Maybe(b, t) == IF b THEN <<t>> ELSE <<>>
Dotted(parts) == Flat([i \in DOMAIN parts |-> Maybe(i > 1, Sym(".")) \o <<Ident(parts[i])>>])
Parenthesized(absolute, name) == <<Sym("(")>> \o Maybe(absolute, Sym(".")) \o Dotted(name) \o <<Sym(")")>>
SegTokens(seg) == <<Sym(".")>> \o IF seg.paren THEN Parenthesized(seg.absolute, seg.name) ELSE Dotted(seg.name)
InTwo == Word("string", "abab")
LitTokens(lit) ==
    IF lit = InTwo THEN <<Word("string", "ab"), Word("string", "ab")>>
    ELSE Maybe(lit.minus = 1, Sym("-")) \o <<[lit EXCEPT !.minus = 0]>>

RECURSIVE EntriesTokens(_)
EntriesTokens(es) ==
    LET e == es[1]
        n == Max({n \in DOMAIN es : \A k \in 1 .. n : es[k].name = e.name /\ es[k].list = e.list})
        size == IF e.list THEN n ELSE 1
        head == IF ~e.extension THEN Dotted(e.name)
                ELSE <<Sym("[")>> \o (IF e.url THEN <<Ident("url"), Sym("/")>> ELSE <<>>) \o Dotted(e.name) \o <<Sym("]")>>
        Value(v) == IF v.trailing THEN <<>>
                    ELSE IF ~v.literal THEN Maybe(v.positive, Sym("+")) \o LitTokens(v.lit)
                    ELSE IF v.angle THEN <<Sym("<")>> \o EntriesTokens(v.fields) \o <<Sym(">")>>
                    ELSE <<Sym("{")>> \o EntriesTokens(v.fields) \o <<Sym("}")>>
        values == [k \in 1 .. size |-> Value(es[k]) \o Maybe(k < size /\ es[k].comma, Sym(","))]
    IN  IF es = <<>> THEN <<>>
        ELSE head \o Maybe(e.colon, Sym(":"))
             \o (IF e.list THEN <<Sym("[")>> \o Flat(values) \o <<Sym("]")>> ELSE values[1])
             \o Maybe(es[size].separator # "", Sym(es[size].separator))
             \o EntriesTokens(SubSeq(es, size + 1, Len(es)))

\* The other way to write all of a literal.
RECURSIVE Tersely(_)
Tersely(es) ==
    [i \in DOMAIN es |-> [es[i] EXCEPT !.separator = "", !.colon = ~es[i].literal \/ i = 1, !.angle = TRUE,
                                       !.fields = Tersely(@),
                                       !.list = @ \/ (~es[i].url /\ \E k \in {i - 1, i + 1} \cap DOMAIN es :
                                                                        es[k].name = es[i].name)]]

OptionTokens(s) ==
    (IF s.features THEN <<Ident("features"), Sym(".")>> ELSE <<>>)
    \o Parenthesized(s.absolute, s.name) \o Flat([i \in DOMAIN s.path |-> SegTokens(s.path[i])]) \o <<Sym("=")>>
    \o Maybe(s.negative, Sym("-"))
    \o IF s.aggregate THEN <<Sym("{")>> \o EntriesTokens(s.fields) \o <<Sym("}")>> ELSE LitTokens(s.lit)

SettingTokens(s) ==
    Dotted(s.name) \o <<Sym("=")>>
    \o IF s.fields = <<>> THEN LitTokens(s.lit)
       ELSE <<Sym("{")>> \o Flat([i \in DOMAIN s.fields |-> <<Ident(s.fields[i][1]), Sym(":"), s.fields[i][2]>>]) \o <<Sym("}")>>
ItemTokens(x) == IF IsStatement(x) THEN OptionTokens(x) ELSE SettingTokens(x)

\* The rest of a block or list with the options written in texts.
PlaceTokens(kind, texts) ==
    IF kind \in ListKinds
    THEN Flat([i \in DOMAIN texts |-> Maybe(i > 1, Sym(",")) \o texts[i]]) \o <<Sym("]"), Sym(";")>>
    ELSE Flat([i \in DOMAIN texts |-> <<Ident("option")>> \o texts[i] \o <<Sym(";")>>])
         \o Maybe(kind # "file", Sym("}"))
PlaceOn(items) ==
    LET s == items[1]
        types == {items[i].type : i \in {i \in DOMAIN items : ~IsStatement(items[i])}}
    IN  [kind |-> s.kind, file |-> s.file, elements |-> s.elements, within |-> s.within,
         type |-> IF types = {} THEN "named" ELSE CHOOSE t \in types : TRUE,
         tokens |-> PlaceTokens(s.kind, [i \in DOMAIN items |-> ItemTokens(items[i])])]

\* Neighbours on one element stand in one place.
PlacesFor(items) ==
    LET first == {i \in DOMAIN items : i = 1 \/ items[i].elements # items[i - 1].elements}
        firsts == SetToSortSeq(first, <)
        To(k) == IF k = Len(firsts) THEN Len(items) ELSE firsts[k + 1] - 1
    IN  [k \in DOMAIN firsts |-> PlaceOn(SubSeq(items, firsts[k], To(k)))]

Job(packages, pool, items) ==
    [packages |-> packages, requested |-> {1}, pool |-> pool,
     statements |-> SelectSeq(items, IsStatement),
     places |-> PlacesFor(items), grammatical |-> TRUE,
     settings |-> SelectSeq(items, LAMBDA x : ~IsStatement(x))]

KindSet == {Kinds[i] : i \in DOMAIN Kinds}

\* Values.  Option (o) of one type.
Types == Integral \cup Floats \cup {"bool", "enum", "string"}
Literals ==
    {InTwo} \cup {Word("ident", w) : w \in {"true", "True", "inf", "Inf", "B", "none"}}
    \cup {Numeral(n) : n \in {0, 1, 2, 3, 4, 7, 8, 15, 16}}
    \cup {Word("float", "frac"), Word("string", "true"), [Numeral(1) EXCEPT !.token = "string"]}
Signs(lit) == IF lit.token = "string" THEN {0} ELSE {0, 1}
OfType(t) == Field("v", 1, t, IF t = "enum" THEN E ELSE <<>>, FALSE)
KindsFor(t) == IF t \in {"int32", "uint32", "int64", "bool", "enum", "float", "string"}
               THEN KindSet ELSE {"field"}

ValueJobs ==
    {Job(<<<<>>>>, Pool(<<Extension(<<k>>, <<>>, <<>>, OfType(t))>>, NoField),
         <<On(k, "e", <<"v">>, <<>>, sign, lit)>>) :
        <<k, t, sign, lit>> \in
            {q \in KindSet \X Types \X {0, 1} \X Literals : q[1] \in KindsFor(q[2]) /\ q[3] \in Signs(q[4])}}
LiteralJobs ==
    {Job(<<<<>>>>, Pool(<<Extension(<<k>>, <<>>, <<>>, Field("o", 1, "message", V, FALSE))>>, OfType(t)),
         <<Literally(On(k, "e", <<"o">>, <<>>, 0, NoLiteral),
                     <<Val("v", [lit EXCEPT !.minus = sign])>>)>>) :
        <<k, t, sign, lit>> \in
            {q \in {"file", "field"} \X Types \X {0, 1} \X Literals : q[3] \in Signs(q[4])}}

\* Names.  Options of the same name declared at several places, looked up from a file
\* in a package, for a message from inside it.
Places == {<<<<>>, <<>>>>, <<<<"a">>, <<>>>>, <<<<"a", "b">>, <<>>>>, <<<<"a">>, <<"b">>>>, <<<<>>, <<"b">>>>}
PlacePairs == {<<p>> : p \in Places}
              \cup {pq \in Places \X Places : pq[1][1] \o pq[1][2] # pq[2][1] \o pq[2][2]}
NameJobs ==
    {Job(<<package>>,
         Pool([i \in DOMAIN places |->
                  Extension(<<IF features THEN "features" ELSE k>>, places[i][1], places[i][2],
                            [Scalar32("o", i) EXCEPT !.targets = targets])],
              NoField),
         <<[On(k, "e", name, <<>>, 0, Numeral(1)) EXCEPT
                !.absolute = absolute, !.within = IF k = "message" THEN <<"b">> ELSE <<>>,
                !.features = features]>>) :
        <<k, features, targets>> \in {<<"message", FALSE, {}>>, <<"message", TRUE, {}>>,
                                      <<"field", FALSE, {"field"}>>, <<"field", TRUE, {"file"}>>,
                                      <<"service", FALSE, {"service", "file"}>>},
        package \in {<<>>, <<"a">>, <<"a", "b">>},
        places \in PlacePairs,
        name \in {<<"o">>, <<"b", "o">>, <<"a", "b", "o">>}, absolute \in BOOLEAN}

\* Values in messages.  Options o of type M and p of repeated M, i and q of int32 and
\* repeated int32, set by two statements.
Options == <<Field("o", 1, "message", M, FALSE), Field("p", 2, "message", M, TRUE),
             Scalar32("i", 3), Field("q", 4, "int32", <<>>, TRUE), Source(Field("t", 5, "message", M, TRUE)),
             Field("u", 6, "group", G, FALSE)>>
OptionsOf(k) == [i \in DOMAIN Options |-> Extension(<<k>>, <<>>, <<>>, Options[i])]

Paths == {<<>>, <<Seg("i")>>, <<Seg("r")>>, <<Seg("m"), Seg("r")>>, <<Seg("n"), Seg("r")>>,
          <<Seg("set"), ExtSeg(<<"x">>), Seg("i")>>, <<Seg("i"), Seg("i")>>}
SomeFields == {<<>>, <<Val("i", Numeral(1))>>, <<Val("r", Numeral(1)), Val("i", Numeral(0)), Val("r", Numeral(0))>>,
               <<Val("i", Numeral(1)), Val("i", Numeral(1))>>, <<Sub("n", <<>>)>>,
               <<Sub("n", <<Val("s", Numeral(1))>>), Sub("n", <<Val("i", Numeral(1)), Val("s", Numeral(0))>>)>>,
               <<Sub("g", <<Val("s", Numeral(1)), Val("i", Numeral(1))>>), Sub("m", <<Val("r", Numeral(1))>>)>>,
               <<Sub("set", <<[Sub("x", <<Val("s", Numeral(0)), Val("i", Numeral(1))>>) EXCEPT !.extension = TRUE,
                                                                   !.name = <<"q", "x">>]>>)>>,
               <<Sub("any", <<[Sub("M", <<Val("s", Numeral(1))>>) EXCEPT !.extension = TRUE, !.url = TRUE]>>)>>,
               <<[Val("i", Numeral(1)) EXCEPT !.positive = TRUE]>>, <<Listed(Val("r", Numeral(1))), Trailing("r")>>}
\* The parser has no parenthesised segments in the options of extension ranges.
PathsOf(k) == {p \in Paths : p # <<>> /\ (k = "extension range" => \A i \in DOMAIN p : ~p[i].paren)}
FirstStatements(k) ==
    {On(k, "e", <<o>>, path, 0, Numeral(1)) : o \in {"o", "p"}, path \in PathsOf(k)}
    \cup {On(k, "e", <<o>>, <<>>, 0, Numeral(1)) : o \in {"i", "q"}}
    \cup {Literally(On(k, "e", <<o>>, <<>>, 0, NoLiteral), fields) :
             o \in {"o", "p", "t"}, fields \in SomeFields}
    \cup {Literally(On(k, "e", <<"o">>, <<Seg("m")>>, 0, NoLiteral), fields) : fields \in SomeFields}
    \cup {Literally(On(k, "e", <<"u">>, <<>>, 0, NoLiteral), <<Val("s", Numeral(1)), Val("i", Numeral(1))>>)}
SecondStatements(k) ==
    {On(k, e, <<"p">>, <<Seg("n"), Seg("r")>>, 0, Numeral(0)) : e \in {"e", "f"}}
    \cup {On(k, "e", <<"o">>, <<Seg("m"), Seg("r")>>, 0, Numeral(0)), On(k, "e", <<"i">>, <<>>, 0, Numeral(0)),
          On(k, "e", <<"q">>, <<>>, 0, Numeral(0)), On(k, "f", <<"i">>, <<>>, 0, Numeral(0))}
    \cup {Literally(On(k, "e", <<"o">>, <<>>, 0, NoLiteral), <<Val("r", Numeral(0))>>)}
TwoJobs ==
    {Job(<<<<"q">>, <<"q">>>>, Pool(OptionsOf(k), NoField), <<s, t>>) :
        <<k, s, t>> \in UNION {{k} \X FirstStatements(k) \X SecondStatements(k) : k \in {"field", "file"}}}
OneJobs ==
    {Job(<<<<"q">>>>, Pool(OptionsOf(k), NoField), <<s>>) :
        <<k, s>> \in
            UNION {{k} \X (FirstStatements(k)
                           \cup {[s EXCEPT !.fields = Tersely(@)] : s \in {s \in FirstStatements(k) : s.aggregate}}) :
                   k \in KindSet}}

\* Statements of several kinds in two files, and one on two extension ranges.
MixedJobs ==
    {[Job(<<<<>>, <<"q">>>>,
          Pool(<<Extension(<<"file">>, <<>>, <<>>, Source(Scalar32("i", 1))),
                 Extension(<<"extension range">>, <<>>, <<>>, Field("o", 2, "message", M, FALSE)),
                 Extension(<<"oneof">>, <<"q">>, <<>>, Scalar32("i", 3))>>, NoField),
          <<[On("extension range", "e", <<"o">>, <<Seg(seg)>>, 1, Numeral(n)) EXCEPT !.elements = {"e", "f"}],
            [On("file", "g", <<"i">>, <<>>, 0, Numeral(n)) EXCEPT !.file = 2],
            On("oneof", "u", <<"q", "i">>, <<>>, 0, Numeral(1))>>
          \o more)
      EXCEPT !.requested = requested] :
        n \in {1, 2, 3}, seg \in {"r", "s"}, requested \in {{1}, {2}, {1, 2}},
        more \in {<<>>, <<On("file", "h", <<"i">>, <<>>, 1, Numeral(1))>>}}

\* Parts of one custom feature, with a custom option of the message or without.
FeatureJobs ==
    {Job(<<<<"q">>>>, Pool(OptionsOf("features") \o <<Extension(<<"message">>, <<>>, <<>>, Scalar32("v", 1))>>, NoField),
         <<[On("message", "e", <<"o">>, <<Seg("r")>>, 0, Numeral(1)) EXCEPT !.features = TRUE],
           [On("message", "e", <<"o">>, <<Seg(seg)>>, 0, Numeral(1)) EXCEPT !.features = TRUE]>> \o more) :
        seg \in {"i", "s"}, more \in {<<>>, <<On("message", "f", <<"v">>, <<>>, 0, Numeral(1))>>}}

\* Built-in options: one of each type of value for each kind, with values of all types;
\* two in one place, also of the same name; beside a custom option; defaults.
Quoted(w) == Word("string", w)
NamesOn(k) ==
    {<<"deprecated">>, <<"o">>, <<"features", "json_format">>}
    \cup (CASE k = "file" -> {<<"java_package">>, <<"optimize_for">>}
            [] k = "method" -> {<<"idempotency_level">>}
            [] k = "enum value" -> {<<"feature_support", "edition_introduced">>}
            [] k = "field" -> {<<"json_name">>, <<"ctype">>, <<"targets">>, <<"feature_support", "deprecation_warning">>}
            [] OTHER -> {})
Names(k) == IF k = "extension range" THEN {<<"verification">>} ELSE NamesOn(k)
Values(k) == (IF k \in {"file", "field"} THEN {InTwo} ELSE {}) \cup {Ident("true"), Ident("ALLOW"), Ident("SPEED"), Ident("CORD"), Ident("IDEMPOTENT"), Ident("EDITION_2023"),
              Ident("TARGET_TYPE_FILE"), Ident("UNVERIFIED"), Quoted("true"), Numeral(1), Sym("-")}
SettingsOn(k) ==
    {Setting(k, name, lit) :
        name \in Names(k),
        lit \in IF k = "extension range" THEN {Ident("UNVERIFIED"), Ident("DECLARATION")} ELSE Values(k)}
With(k, name, fields) == [Setting(k, name, Numeral(0)) EXCEPT !.fields = fields]
Literal_(k) ==
    CASE k = "file" -> {With(k, <<"features">>, <<<<"json_format", Ident("ALLOW")>>, <<"enum_type", Ident("OPEN")>>>>)}
      [] k = "field" -> {With(k, <<"feature_support">>, <<<<"edition_introduced", Ident("EDITION_2023")>>>>),
                         With(k, <<"edition_defaults">>, <<<<"edition", Ident("EDITION_2023")>>, <<"value", Quoted("OPEN")>>>>)}
      [] k = "enum value" -> {With(k, <<"feature_support">>, <<<<"deprecation_warning", Quoted("o")>>>>)}
      [] k = "extension range" -> {With(k, <<"declaration">>, <<<<"number", Numeral(1)>>, <<"full_name", Quoted("o")>>>>)}
      [] OTHER -> {}
Fitting(k) == {s \in SettingsOn(k) : SettingFits(s)}
Mixes(s, t) == s.name[1] = "feature_support" /\ t.name[1] = "feature_support" /\ s.name # t.name
BuiltInJobs ==
    {Job(<<<<"q">>>>, Pool(OptionsOf(k), NoField), items) :
        <<k, items>> \in
            UNION {{k} \X ({<<s>> : s \in SettingsOn(k)}
                           \cup {st \in (Fitting(k) \cup Literal_(k)) \X (Fitting(k) \cup Literal_(k)) : ~Mixes(st[1], st[2])}
                           \cup {<<On(k, "e", <<"i">>, <<>>, 0, Numeral(1)), s>> : s \in Fitting(k) \cup Literal_(k)}
                           \cup {<<s, On(k, "e", <<"i">>, <<>>, 0, Numeral(1))>> : s \in Fitting(k) \cup Literal_(k)}) :
                   k \in KindSet}}
DefaultJobs ==
    {Job(<<<<"q">>>>, Pool(<<>>, NoField), <<[Setting("field", <<"default">>, [lit EXCEPT !.minus = sign]) EXCEPT !.type = t]>>) :
        <<t, sign, lit>> \in
            {q \in ((Types \ {"enum"}) \cup {"named"}) \X {0, 1} \X Literals :
                q[2] = 1 => q[3].token \in {"int", "float"} \/ q[3].w = "inf"}}

\* Texts that are one token away from a grammatical one: a token dropped, written twice,
\* replaced by another or put before another.
Alphabet == {Sym(w) : w \in {";", "}", "{", "<", ">", "=", "(", ")", ".", ",", "]", "[", ":", "-", "+"}}
            \cup {Ident("o"), Numeral(1)}
Edited(ts, edit, i, t) ==
    CASE edit = "insert" /\ i <= Len(ts) + 1 -> InsertAt(ts, i, t)
      [] edit = "replace" /\ i <= Len(ts) -> ReplaceAt(ts, i, t)
      [] edit = "twice" /\ i <= Len(ts) -> InsertAt(ts, i, ts[i])
      [] edit = "drop" /\ i <= Len(ts) -> RemoveAt(ts, i)
      [] OTHER -> ts

\* What differs from a statement, or from an entry of a literal, by as much.
Likes(lit) == {lit, Numeral(1), Ident("o")}
EntriesNear(e) ==
    {[e EXCEPT !.separator = x] : x \in {"", ",", ";"}}
    \cup {[e EXCEPT !.name = <<"o">>]}
    \cup IF e.literal THEN {[e EXCEPT !.colon = x] : x \in BOOLEAN}
         ELSE {[e EXCEPT !.comma = x] : x \in BOOLEAN} \cup {[e EXCEPT !.lit = x] : x \in Likes(e.lit)}
              \cup {[e EXCEPT !.lit.minus = 1], [e EXCEPT !.positive = TRUE]}
Near(es) ==
    {es} \cup UNION {{[es EXCEPT ![i] = e] : e \in EntriesNear(es[i])} : i \in DOMAIN es}
ListsNear(es) ==
    LET rest == SelectSeq(es, LAMBDA e : ~e.list)
        values == {[es[1] EXCEPT !.lit.n = x[1], !.comma = x[2]] : x \in {0, 1} \X BOOLEAN}
                  \cup {[es[1] EXCEPT !.lit.n = 0, !.lit.minus = 1]}
    IN  IF es[1].list THEN {list \o rest : list \in UNION {[1 .. n -> values] : n \in {2, 3}}} ELSE {}
Near2(es) ==
    Near(es) \cup ListsNear(es) \cup UNION {{[es EXCEPT ![i].fields = fs] : fs \in Near(es[i].fields)} :
                         i \in {i \in DOMAIN es : es[i].literal}}
             \cup UNION {{SubSeq(es, 1, i) \o <<Trailing("r")>> \o SubSeq(es, i + 1, Len(es))} :
                         i \in {i \in DOMAIN es : es[i].list /\ (i = Len(es) \/ ~es[i + 1].list)}}
StatementsNear(s) ==
    {[s EXCEPT !.absolute = x] : x \in BOOLEAN} \cup {[s EXCEPT !.negative = x] : x \in IF s.aggregate /\ s.kind = "extension range" THEN {FALSE} ELSE BOOLEAN}
    \cup {[s EXCEPT !.name = ReplaceAt(s.name, i, "o")] : i \in DOMAIN s.name}
    \cup {[s EXCEPT !.path = ReplaceAt(s.path, i, Seg("o"))] : i \in DOMAIN s.path}
    \cup IF s.aggregate THEN {[s EXCEPT !.fields = es] : es \in Near2(s.fields)}
         ELSE {[s EXCEPT !.lit = x] : x \in Likes(s.lit)}

SettingsNear(s) == {s, [s EXCEPT !.name = <<"o">>]} \cup (IF s.name = <<"verification">> THEN {} ELSE {[s EXCEPT !.lit = x] : x \in Likes(s.lit)})

\* The texts that say these items: with empty statements around, except in oneofs, and
\* where the parser takes any token for the bracket that closes the options of a field
\* after a custom one, for the equals sign of a built-in one, or for the verification of
\* an extension range.
Spellings(k, items) ==
    LET ts == PlacesFor(items)[1].tokens
        n == Len(ts)
        free == CASE k = "field" /\ IsStatement(items[1]) -> {n - 1} \X (Alphabet \ {Sym(",")})
                  [] k = "field" /\ ~IsStatement(items[1]) -> {2} \X Alphabet
                  [] k = "extension range" /\ ~IsStatement(items[1]) /\ items[1].name = <<"verification">>
                     /\ items[1].lit = Ident("DECLARATION") -> {3} \X (Alphabet \ {Sym("{")})
                  [] OTHER -> {}
    IN  {ts} \cup (IF k \in ListKinds THEN {Append(ts, Sym(";"))}
                  ELSE IF k = "oneof" THEN {}
                  ELSE {InsertAt(ts, i, Sym(";")) : i \in {i \in 1 .. n + 1 : i = 1 \/ (i <= n /\ ts[i] = Sym("}") /\ i = n)
                                                                   \/ (i > 1 /\ ts[i - 1] = Sym(";") /\ (k = "file" \/ i <= n))}})
             \cup {ReplaceAt(ts, p[1], p[2]) : p \in free}

Base(k, which) ==
    CASE which = "path" -> <<[On(k, "e", <<"q", "o">>, <<Seg("r")>>, 1, Numeral(1)) EXCEPT !.absolute = TRUE]>>
      [] which = "two" -> <<On(k, "e", <<"i">>, <<>>, 0, Numeral(1)), On(k, "e", <<"q">>, <<>>, 0, Numeral(0))>>
      [] which = "built-in" ->
             <<CASE k = "extension range" -> Setting(k, <<"verification">>, Ident("DECLARATION"))
                 [] k = "oneof" -> Setting(k, <<"features", "json_format">>, Ident("ALLOW"))
                 [] OTHER -> Setting(k, <<"deprecated">>, Ident("true"))>>
      [] which = "literal" ->
             <<Literally(On(k, "e", <<"o">>, <<>>, 0, NoLiteral),
                         <<Listed(Val("r", Numeral(1))), Listed(Val("r", Numeral(0))),
                           [Sub("n", <<Val("i", Numeral(1))>>) EXCEPT !.colon = FALSE, !.separator = ""]>>)>>
NearBase(items) ==
    UNION {{[items EXCEPT ![i] = x] : x \in IF IsStatement(items[i]) THEN StatementsNear(items[i]) ELSE SettingsNear(items[i])} :
           i \in DOMAIN items}

\* The base statements, with the texts around theirs that say anything, and what.
JobOn(b) == Job(<<<<"q">>>>, Pool(OptionsOf(b[1]), NoField), Base(b[1], b[2]))
SaidNear(b) == UNION {{<<ts, ss>> : ts \in Spellings(b[1], ss)} : ss \in NearBase(Base(b[1], b[2]))}
Bases == {<<JobOn(b), SaidNear(b)>> :
             b \in (KindSet \X {"path", "two", "built-in"})
                   \cup ({"file", "message", "field", "extension range"} \X {"literal"})}
JobOf(base, ts, items) ==
    [base EXCEPT !.places[1].tokens = ts, !.grammatical = items # <<>>,
                 !.statements = SelectSeq(items, IsStatement),
                 !.settings = SelectSeq(items, LAMBDA x : ~IsStatement(x))]
EditedJob(base, said, ts) ==
    LET it == {p \in said : p[1] = ts}
    IN  JobOf(base, ts, IF it = {} THEN <<>> ELSE (CHOOSE p \in it : TRUE)[2])
SyntaxJobs ==
    {EditedJob(base[1], base[2], Edited(base[1].places[1].tokens, edit, i, t)) :
        base \in Bases, edit \in {"insert", "replace", "twice", "drop"}, i \in 1 .. 32, t \in Alphabet}

\* A group, and an item of a MessageSet, with a field to be kept at the source.
RetentionJobs ==
    {Job(<<<<"q">>>>, Pool(OptionsOf("field"), NoField), <<s>>) :
        s \in {s \in FirstStatements("field") :
                  s.aggregate /\ (s.name = <<"u">> \/ \E i \in DOMAIN s.fields : s.fields[i].name = <<"set">>)}}

MCFamilies == {ValueJobs, LiteralJobs, NameJobs, OneJobs, TwoJobs, MixedJobs, FeatureJobs, BuiltInJobs,
               DefaultJobs, SyntaxJobs}
MCRetentionFamilies == {RetentionJobs}
==============================================================================
