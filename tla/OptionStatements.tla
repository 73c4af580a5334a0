---------------------------- MODULE OptionStatements ----------------------------
(***************************************************************************)
(* The nine option parsers: from the tokens of the places where a file has *)
(* options to the custom option statements the resolvers work on, and to   *)
(* the built-in options set.                                               *)
(*                                                                         *)
(* A place is the rest of a block after its opening brace, with nothing    *)
(* but options in it, or the rest of a list after its bracket, up to the   *)
(* semicolon.  A token is a literal of OptionValues; what it says (w) is   *)
(* all that Expect and the parsers compare, whatever its type.             *)
(***************************************************************************)
EXTENDS OptionValues, TLC

CONSTANT Families   \* sets of compilations

VARIABLES
    job,
    place, pos,     \* the place parsed, and the token it is at, 0 in an endless loop
    statements,     \* the custom options parsed, in their order
    builtIns,       \* the values of built-in options, by <<elements, name>>
    named,          \* the built-in options seen: <<elements, name>>
    syntax          \* the errors: [file, place, fatal]

parseVars == <<place, pos, statements, builtIns, named, syntax>>

Eof == [token |-> "eof", minus |-> 0, n |-> 0, w |-> "end of file"]

ListKinds == {"field", "enum value", "extension range"}
ThePlace == job.places[place]
Tokens == ThePlace.tokens
Tok(i) == IF i <= Len(Tokens) THEN Tokens[i] ELSE Eof
Is(i, w) == Tok(i).w = w
AtEnd(i) == Tok(i) = Eof

\* What a token is worth as a part of a name.
Part(i) == IF IsNumber(Tok(i)) THEN "0" ELSE Tok(i).w

\* How many pairs of a separator and another token follow.
Pairs(i, separators) ==
    CHOOSE n \in 0 .. Len(Tokens) :
        /\ \A k \in 0 .. n - 1 : Tok(i + 2 * k).w \in separators
        /\ Tok(i + 2 * n).w \notin separators

\* The first token from i on that says one of ws, or the end.
FirstOf(i, ws) ==
    CHOOSE j \in i .. i + Len(Tokens) + 1 :
        /\ Tok(j).w \in ws \/ AtEnd(j)
        /\ \A k \in i .. j - 1 : Tok(k).w \notin ws /\ ~AtEnd(k)

\* The token after the one that closes what is open at i, or the end.
AfterMatching(i, open, close) ==
    LET Depth(j) == Cardinality({k \in i .. j : Is(k, open)}) - Cardinality({k \in i .. j : Is(k, close)})
        closing == {j \in i .. Len(Tokens) : Depth(j) < 0}
    IN  IF closing = {} THEN Len(Tokens) + 1 ELSE Min(closing) + 1

\* skipRestOfBlock, skipStatementCpp and skipToToken
skipRestOfBlock(i) == AfterMatching(i, "{", "}")
skipStatementCpp(i) ==
    LET j == FirstOf(i, {";", "{", "}"})
    IN  CASE Is(j, ";") -> j + 1
          [] Is(j, "{") -> skipRestOfBlock(j + 1)
          [] OTHER -> j
skipToToken(i, w) == FirstOf(i, {w}) + 1

-------------------------------------------------------------------------------
(* Names. *)

\* parseParenthesizedOptionName, from after the parenthesis.
parseParenthesizedOptionName(i) ==
    LET absolute == Is(i, ".")
        first == IF absolute THEN i + 1 ELSE i
        more == Pairs(first + 1, {"."})
        close == first + 1 + 2 * more
    IN  [at |-> close + 1, ok |-> Is(close, ")"), absolute |-> absolute,
         name |-> [k \in 1 .. more + 1 |-> Part(first + 2 * (k - 1))]]

\* A segment: a name in parentheses, or one word.
Segment(i) ==
    IF Is(i, "(") THEN [paren |-> TRUE] @@ parseParenthesizedOptionName(i + 1)
    ELSE [paren |-> FALSE, at |-> i + 1, ok |-> TRUE, absolute |-> FALSE, name |-> <<Part(i)>>]
RECURSIVE parseOptionSubPath(_)
PathAfter(seg) ==
    IF ~seg.ok THEN [at |-> seg.at, ok |-> FALSE, path |-> <<>>]
    ELSE [parseOptionSubPath(seg.at) EXCEPT
              !.path = <<[paren |-> seg.paren, absolute |-> seg.absolute, name |-> seg.name]>> \o @]
parseOptionSubPath(i) ==
    IF Is(i, ".") THEN PathAfter(Segment(i + 1)) ELSE [at |-> i, ok |-> TRUE, path |-> <<>>]

\* In the options of extension ranges: whatever follows a dot is a segment.
SimpleSubPath(i) ==
    LET n == Pairs(i, {"."})
    IN  [at |-> i + 2 * n, ok |-> TRUE,
         path |-> [k \in 1 .. n |-> [paren |-> FALSE, absolute |-> FALSE, name |-> <<Part(i + 2 * k - 1)>>]]]

-------------------------------------------------------------------------------
(* Values. *)

\* A token with the strings that follow it, if it is one.
Joined(i) ==
    LET isString(j) == Tok(j).token = "string"
        n == CHOOSE n \in 0 .. Len(Tokens) : (\A k \in 0 .. n : isString(i + k)) /\ ~isString(i + n + 1)
    IN  IF ~isString(i) \/ ~isString(i + 1) THEN [at |-> i + 1, lit |-> Tok(i)]
        ELSE [at |-> i + n + 1,
              lit |-> [Tok(i) EXCEPT !.w = FoldLeft(LAMBDA text, k : text \o Tok(i + k).w, Tok(i).w,
                                                    [k \in 1 .. n |-> k])]]

\* Where no value has been read.
NoValue == [token |-> "ident", minus |-> 0, n |-> 0, w |-> "nothing"]
Blank == [name |-> <<>>, extension |-> FALSE, url |-> FALSE, literal |-> FALSE,
          positive |-> FALSE, trailing |-> FALSE, lit |-> NoValue, fields |-> <<>>]

\* The name of an entry; the type an Any holds is what comes after the last slash.
EntryName(i) ==
    LET n == Pairs(i + 2, {".", "/"})
        slashes == {k \in 1 .. n : Is(i + 2 * k, "/")}
        from == IF slashes = {} THEN 0 ELSE Max(slashes)
    IN  IF ~Is(i, "[") THEN [at |-> i + 1, e |-> [Blank EXCEPT !.name = <<Part(i)>>]]
        ELSE [at |-> i + 3 + 2 * n,
              e |-> [Blank EXCEPT !.extension = TRUE, !.url = slashes # {},
                                  !.name = [k \in 1 .. n - from + 1 |-> Part(i + 1 + 2 * (from + k - 1))]]]

WithSign(e, sign, value) ==
    [at |-> value.at, ok |-> TRUE,
     es |-> <<[e EXCEPT !.positive = sign = "+",
                        !.lit = [value.lit EXCEPT !.minus = IF sign = "-" THEN 1 ELSE 0]]>>]
SignedScalar(e, i) == WithSign(e, Tok(i).w, Joined(IF Tok(i).w \in {"-", "+"} THEN i + 1 ELSE i))

RECURSIVE EntriesUpTo(_, _)

\* consumeAggregate and consumeAggregateAngle, from after the opening token; they stop
\* at the closing one.
consumeAggregate(i) == EntriesUpTo("}", i)
consumeAggregateAngle(i) == EntriesUpTo(">", i)

\* A nested literal; the token after it is taken as the closing one.
Nested(e, sub) ==
    [at |-> sub.at + 1, ok |-> sub.ok, es |-> <<[e EXCEPT !.literal = TRUE, !.fields = sub.fields]>>]
NestedLiteral(e, i) ==
    Nested(e, IF Is(i, "<") THEN consumeAggregateAngle(i + 1) ELSE consumeAggregate(i + 1))

OneValue(e, i) == IF Tok(i).w \in {"{", "<"} THEN NestedLiteral(e, i) ELSE SignedScalar(e, i)

\* A list has an entry for each value, and one for a comma before the bracket.
RECURSIVE ListOfValues(_, _)
AfterValue(e, one) ==
    IF ~one.ok THEN one
    ELSE IF Is(one.at, ",") /\ Is(one.at + 1, "]")
         THEN [one EXCEPT !.at = @ + 2, !.es = Append(@, [e EXCEPT !.trailing = TRUE])]
    ELSE [ListOfValues(e, IF Is(one.at, ",") THEN one.at + 1 ELSE one.at) EXCEPT !.es = one.es \o @]
ListOfValues(e, i) ==
    IF Is(i, "]") \/ AtEnd(i) THEN [at |-> i + 1, ok |-> TRUE, es |-> <<>>] ELSE AfterValue(e, OneValue(e, i))

Unread(i) == [at |-> i, ok |-> FALSE, fields |-> <<>>]
AfterEntry(close, i, value) ==
    IF ~value.ok THEN Unread(i)
    ELSE [EntriesUpTo(close, IF Tok(value.at).w \in {";", ","} THEN value.at + 1 ELSE value.at)
              EXCEPT !.fields = value.es \o @]

\* After the name, a colon, or nothing before a literal.
AfterName(close, name) ==
    LET colon == Is(name.at, ":")
        v == IF colon THEN name.at + 1 ELSE name.at
    IN  IF ~colon /\ Tok(v).w \notin {"{", "<"} THEN Unread(v)
        ELSE AfterEntry(close, v, IF Is(v, "[") THEN ListOfValues(name.e, v + 1) ELSE OneValue(name.e, v))
EntriesUpTo(close, i) ==
    IF Is(i, close) \/ AtEnd(i) THEN [at |-> i, ok |-> TRUE, fields |-> <<>>] ELSE AfterName(close, EntryName(i))

-------------------------------------------------------------------------------
(* Built-in options: by name, what values they take. *)

Bool == [token |-> "ident", words |-> {"true", "false"}]
Str == [token |-> "string", words |-> {}]
OneOf(words) == [token |-> "ident", words |-> words]
NoOption == OneOf({})
Of(names, type) == [n \in names |-> type]

Fits(type, lit) == lit.token = type.token /\ (type.token = "ident" => lit.w \in type.words)

\* Some features, and what is said of the support of one.
FeatureSet ==
    [field_presence |-> OneOf({"EXPLICIT", "IMPLICIT", "LEGACY_REQUIRED"}),
     enum_type |-> OneOf({"OPEN", "CLOSED"}), json_format |-> OneOf({"ALLOW", "LEGACY_BEST_EFFORT"})]
FeatureSupport ==
    [edition_introduced |-> OneOf({"EDITION_2023", "EDITION_2024"}), deprecation_warning |-> Str]

FileOptions ==
    Of({"java_package", "java_outer_classname", "go_package", "php_namespace", "php_class_prefix",
        "php_metadata_namespace", "ruby_package", "objc_class_prefix", "csharp_namespace",
        "swift_prefix"}, Str)
    @@ Of({"java_multiple_files", "cc_generic_services", "java_generic_services", "py_generic_services",
           "deprecated", "java_string_check_utf8", "java_generate_equals_and_hash",
           "cc_enable_arenas"}, Bool)
    @@ Of({"optimize_for"}, OneOf({"SPEED", "CODE_SIZE", "LITE_RUNTIME"}))
MessageOptions ==
    Of({"deprecated", "no_standard_descriptor_accessor", "message_set_wire_format",
        "deprecated_legacy_json_field_conflicts"}, Bool)
EnumOptions == Of({"allow_alias", "deprecated", "deprecated_legacy_json_field_conflicts"}, Bool)
ServiceOptions == Of({"deprecated"}, Bool)
MethodOptions ==
    Of({"deprecated"}, Bool)
    @@ Of({"idempotency_level"}, OneOf({"IDEMPOTENCY_UNKNOWN", "NO_SIDE_EFFECTS", "IDEMPOTENT"}))
OneofOptions == Of({}, Bool)
EnumValueOptions == Of({"deprecated", "debug_redact"}, Bool)
TargetTypes ==
    {"TARGET_TYPE_" \o t : t \in {"UNKNOWN", "FILE", "EXTENSION_RANGE", "MESSAGE", "FIELD", "ONEOF",
                                  "ENUM", "ENUM_ENTRY", "SERVICE", "METHOD"}}
FieldOptions ==
    Of({"deprecated", "packed", "lazy", "debug_redact", "unverified_lazy", "weak"}, Bool)
    @@ Of({"json_name"}, Str)
    @@ Of({"jstype"}, OneOf({"JS_NORMAL", "JS_STRING", "JS_NUMBER"}))
    @@ Of({"ctype"}, OneOf({"STRING", "CORD", "STRING_PIECE"}))
    @@ Of({"retention"}, OneOf({"RETENTION_UNKNOWN", "RETENTION_RUNTIME", "RETENTION_SOURCE"}))
    @@ Of({"targets"}, OneOf(TargetTypes))

Lookup(table, n) == IF n \in DOMAIN table THEN table[n] ELSE NoOption

\* applySubOption for `features.X` and `feature_support.X`.
TypeOfOption(table, name) ==
    CASE Len(name) = 1 -> Lookup(table, name[1])
      [] name[1] = "features" -> Lookup(FeatureSet, name[2])
      [] OTHER -> Lookup(FeatureSupport, name[2])

\* A name, possibly of one field in a message of `wholes`.
BuiltInName(i, wholes) ==
    IF Part(i) \in wholes /\ Is(i + 1, ".") THEN [at |-> i + 3, name |-> <<Part(i), Part(i + 2)>>]
    ELSE [at |-> i + 1, name |-> <<Part(i)>>]

Key(name) == <<ThePlace.elements, name>>
Set(name, lit) == (Key(name) :> <<lit>>) @@ builtIns
Added(name, lit) ==
    (Key(name) :> Append(IF Key(name) \in DOMAIN builtIns THEN builtIns[Key(name)] ELSE <<>>, lit)) @@ builtIns

\* What applyMessageAggregate accepts, and what it sets.
Applies(table, fields) ==
    \A i \in DOMAIN fields :
        /\ ~fields[i].extension /\ Fits(Lookup(table, fields[i].name[1]), fields[i].lit)
        /\ \A k \in 1 .. i - 1 : fields[k].name # fields[i].name
SetAll(whole, fields, before) ==
    [k \in {Key(<<whole, fields[i].name[1]>>) : i \in DOMAIN fields} |->
        <<(CHOOSE e \in {fields[i] : i \in DOMAIN fields} : e.name = <<k[2][2]>>).lit>>] @@ before

-------------------------------------------------------------------------------
(* What comes of one statement, or one entry of a list: the next token, whether    *)
(* the place ends, what has been parsed, and whether there was an error ("refused" *)
(* goes on, "fatal" ends the file, "endless" never comes to an end).               *)

Outcome(at_, error, ends, options, sets) ==
    [at |-> at_, error |-> error, ends |-> ends, options |-> options, sets |-> sets]
Fatal == Outcome(0, "fatal", TRUE, <<>>, builtIns)
Endless == Outcome(0, "endless", FALSE, <<>>, builtIns)
Took(i, options, sets) == Outcome(i, "", FALSE, options, sets)
Over(r) == r.ends \/ r.error = "endless"

\* The end of a list, from after the bracket: a semicolon, and empty statements.
CloseList(r, i) ==
    IF \A j \in i .. Max({i, Len(Tokens)}) : Is(j, ";") THEN [r EXCEPT !.ends = TRUE, !.at = Len(Tokens) + 1]
    ELSE Fatal

\* applyMessageAggregate: a literal of scalars, each field of the table at most once.
applyMessageAggregate(whole, table, literal, before) ==
    IF literal.ok /\ Is(literal.at, "}") /\ Applies(table, literal.fields)
    THEN Took(literal.at + 1, <<>>, SetAll(whole, literal.fields, before)) ELSE Fatal

\* A value that starts with `<` or `+`, from after that token on.
Refuse(i, ends) == Outcome(i, "refused", ends, <<>>, builtIns)
Rejected(k, i) ==
    CASE k = "message" -> Fatal
      [] k \in ListKinds -> CloseList(Refuse(i, FALSE), skipToToken(i, "]"))
      [] OTHER -> Refuse(skipStatementCpp(i), k = "oneof")

\* The value: a literal, for which a sign is forgotten, or a scalar.  The closing brace
\* is checked on files only.
LiteralIs(k, negative, literal) ==
    [at |-> literal.at + 1, ok |-> literal.ok /\ (k = "file" => Is(literal.at, "}")),
     aggregate |-> TRUE, fields |-> literal.fields, negative |-> negative,
     lit |-> [NoValue EXCEPT !.token = "none"]]
ScalarIs(k, negative, scalar) ==
    [at |-> scalar.at, ok |-> TRUE, aggregate |-> FALSE, fields |-> <<>>, negative |-> negative,
     lit |-> [scalar.lit EXCEPT !.minus = IF negative /\ k \notin {"file", "extension range"} THEN 1 ELSE 0]]
CustomValue(k, i) ==
    LET negative == Is(i, "-")
        v == IF negative THEN i + 1 ELSE i
    IN  IF Is(IF k = "extension range" THEN i ELSE v, "{")
        THEN LiteralIs(k, negative, consumeAggregate(v + 1)) ELSE ScalarIs(k, negative, Joined(v))

OnFeatures(k, i) == k \in {"message", "field"} /\ Is(i, "features") /\ Is(i + 1, ".") /\ Is(i + 2, "(")
IsCustom(k, i) == Is(i, "(") \/ OnFeatures(k, i)

\* A custom option, from its name, its sub-path and its value on.
CustomIs(k, features, name, path, value) ==
    LET option == [kind |-> k, file |-> ThePlace.file, elements |-> ThePlace.elements,
                   within |-> ThePlace.within, features |-> features,
                   absolute |-> name.absolute, name |-> name.name, path |-> path,
                   aggregate |-> value.aggregate, fields |-> value.fields,
                   negative |-> value.negative, lit |-> value.lit]
    IN  IF value.ok THEN Took(value.at, <<option>>, builtIns) ELSE Fatal
CustomAt(k, features, name, sub) ==
    LET v == sub.at + 1
        angle == AfterMatching(v + 1, "<", ">")
    IN  CASE ~name.ok \/ ~sub.ok \/ ~Is(sub.at, "=") -> Fatal
          [] k = "extension range" /\ Is(v, "<") ->
                 IF angle > Len(Tokens) THEN Endless
                 ELSE Outcome(angle, "refused", FALSE, <<>>, builtIns)
          [] k # "extension range" /\ Tok(v).w \in {"<", "+"} -> Rejected(k, v + 1)
          [] OTHER -> CustomIs(k, features, name, sub.path, CustomValue(k, v))
CustomNamed(k, features, name) ==
    CustomAt(k, features, name,
             IF k = "extension range" THEN SimpleSubPath(name.at) ELSE parseOptionSubPath(name.at))
Custom(k, i) ==
    LET features == OnFeatures(k, i)
    IN  CustomNamed(k, features, parseParenthesizedOptionName(IF features THEN i + 3 ELSE i + 1))

\* An `option` statement ends with a semicolon, wherever it is well.
Semicolon(r) ==
    IF r.error # "" THEN r ELSE IF Is(r.at, ";") THEN [r EXCEPT !.at = @ + 1] ELSE Fatal

Seen(name) == Key(name) \in named
SeenName(k, i) ==
    IF IsCustom(k, i) THEN {} ELSE {Key(BuiltInName(i, {"features", "feature_support"}).name)}

\* A built-in option set by a statement.  Adjacent strings are joined on files only.
BuiltIn(k, table, i) ==
    LET n == BuiltInName(i, {"features"})
        v == n.at + 1
        value == IF k = "file" THEN Joined(v) ELSE [at |-> v + 1, lit |-> Tok(v)]
    IN  IF (Seen(n.name) /\ k # "oneof") \/ ~Is(n.at, "=") THEN Fatal
        ELSE IF k = "file" /\ n.name = <<"features">> /\ Is(v, "{")
        THEN applyMessageAggregate("features", FeatureSet, consumeAggregate(v + 1), builtIns)
        ELSE IF Fits(TypeOfOption(table, n.name), value.lit)
             THEN Took(value.at, <<>>, Set(n.name, value.lit)) ELSE Fatal

OptionStatement(k, table, i) == Semicolon(IF IsCustom(k, i) THEN Custom(k, i) ELSE BuiltIn(k, table, i))

-------------------------------------------------------------------------------
(* Lists. *)

\* After a custom option of a field, and after a message literal: a comma, or any token
\* as the bracket.
AfterFieldOption(r) ==
    IF Over(r) THEN r
    ELSE IF Is(r.at, ",") THEN IF Is(r.at + 1, "]") THEN Fatal ELSE [r EXCEPT !.at = @ + 1]
    ELSE CloseList(r, r.at + 1)

\* After a built-in option of a field: what stands before the bracket is skipped.
AfterFieldValue(r) ==
    LET stop == FirstOf(r.at, {"]", ";", "}"})
    IN  IF Over(r) \/ Is(r.at, ",") \/ Is(r.at, "]") THEN AfterFieldOption(r)
        ELSE CloseList([r EXCEPT !.error = "refused"], IF Is(stop, "]") THEN stop + 1 ELSE stop)

\* Elsewhere the bracket is expected.
AfterListed(k, r) ==
    IF Over(r) THEN r
    ELSE IF Is(r.at, ",") THEN IF k = "enum value" /\ Is(r.at + 1, "]") THEN Fatal ELSE [r EXCEPT !.at = @ + 1]
    ELSE IF Is(r.at, "]") THEN CloseList(r, r.at + 1) ELSE Fatal

\* The default value of a field of a type known to the parser.  A type that is named
\* takes any value.
isIntegerType(type) == type \in Integral
intDefaultMaxValue(type, negative) ==
    LET w == IF type \in Short THEN Narrow ELSE Wide
    IN  IF type \in Unsigned THEN 2 ^ w - 1 ELSE IF negative THEN 2 ^ (w - 1) ELSE 2 ^ (w - 1) - 1
DefaultFits(type, lit) ==
    CASE type \in Strings -> lit.token = "string"
      [] type = "bool" -> Fits(Bool, lit)
      [] type \in Floats -> lit.token \in {"int", "float"} \/ Fits(OneOf({"inf", "nan"}), lit)
      [] isIntegerType(type) -> lit.token = "int"
      [] OTHER -> TRUE
DefaultInRange(type, negative, lit) ==
    isIntegerType(type) => /\ negative => type \notin Unsigned
                           /\ lit.n <= intDefaultMaxValue(type, negative)
Default(v) ==
    LET negative == Is(v, "-")
        value == Joined(IF negative THEN v + 1 ELSE v)
        lit == [value.lit EXCEPT !.minus = IF negative THEN 1 ELSE 0]
        type == ThePlace.type
    IN  IF ~DefaultFits(type, value.lit)
        THEN CloseList(Outcome(0, "refused", TRUE, <<>>, builtIns), skipToToken(value.at, "]"))
        ELSE IF ~DefaultInRange(type, negative, value.lit)
        THEN Outcome(value.at, "out of range", FALSE, <<>>, builtIns)
        ELSE Took(value.at, <<>>, Set(<<"default">>, lit))

\* Triples of a key, a token taken as the colon, and a value, each with an optional
\* separator; only a brace ends them.
RECURSIVE Triples(_)
Triples(i) ==
    LET rest == Triples(IF Tok(i + 3).w \in {",", ";"} THEN i + 4 ELSE i + 3)
    IN  IF AtEnd(i) THEN [at |-> i, ok |-> FALSE, fields |-> <<>>]
        ELSE IF Is(i, "}") THEN [at |-> i + 1, ok |-> TRUE, fields |-> <<>>]
        ELSE [rest EXCEPT !.fields = <<<<Part(i), Tok(i + 2)>>>> \o @]

\* The last value of each of the keys; an edition that is not one is no value.
Fields(triples, keys) ==
    LET valued == SelectSeq(triples, LAMBDA t : t[1] = "edition" => t[2].w \in FeatureSupport.edition_introduced.words)
    IN  [k \in {valued[i][1] : i \in DOMAIN valued} \cap keys |->
            valued[Max({i \in DOMAIN valued : valued[i][1] = k})][2]]

\* parseMessageLiteralFieldOption, from after the brace.
parseMessageLiteralFieldOption(name, i) ==
    LET triples == Triples(i)
        cleared == [k \in {k \in DOMAIN builtIns : k[1] # ThePlace.elements \/ k[2][1] # "feature_support"}
                       |-> builtIns[k]]
    IN  IF name = <<"edition_defaults">>
        THEN IF triples.ok THEN Took(triples.at, <<>>, Added(name, Fields(triples.fields, {"edition", "value"})))
             ELSE Endless
        ELSE applyMessageAggregate("feature_support", FeatureSupport, consumeAggregate(i), cleared)

\* A built-in option of a field.  Any token will do for the equals sign.
FieldBuiltIn(i) ==
    LET n == BuiltInName(i, {"features", "feature_support"})
        v == n.at + 1
        value == Joined(v)
        repeated == n.name \in {<<"targets">>, <<"edition_defaults">>}
    IN  IF Seen(n.name) /\ ~repeated THEN Fatal
        ELSE IF n.name \in {<<"edition_defaults">>, <<"feature_support">>} /\ Is(v, "{")
        THEN AfterFieldOption(parseMessageLiteralFieldOption(n.name, v + 1))
        ELSE IF n.name = <<"default">> THEN
             LET r == Default(v)
             IN  IF r.error = "out of range"
                 THEN [AfterFieldValue([r EXCEPT !.error = ""]) EXCEPT !.error = IF @ = "" THEN "refused" ELSE @]
                 ELSE AfterFieldValue(r)
        ELSE IF Fits(TypeOfOption(FieldOptions, n.name), value.lit)
             THEN AfterFieldValue(Took(value.at, <<>>, IF repeated THEN Added(n.name, value.lit)
                                                       ELSE Set(n.name, value.lit)))
        ELSE Fatal

EnumValueBuiltIn(i) ==
    LET n == BuiltInName(i, {"features", "feature_support"})
        v == n.at + 1
    IN  IF Seen(n.name) \/ ~Is(n.at, "=") THEN Fatal
        ELSE IF n.name = <<"feature_support">> /\ Is(v, "{")
        THEN parseMessageLiteralFieldOption(n.name, v + 1)
        ELSE IF Fits(TypeOfOption(EnumValueOptions, n.name), Tok(v))
             THEN Took(v + 1, <<>>, Set(n.name, Tok(v))) ELSE Fatal

\* On extension ranges: unknown literals are passed over, and an unknown word for the
\* verification is as good as DECLARATION.
parseDeclarationLiteral(i) == Triples(i)
ExtRangeBuiltIn(i) ==
    LET declaration == parseDeclarationLiteral(i + 3)
        past == AfterMatching(i + 3, "{", "}")
        keys == {"number", "full_name", "type", "reserved", "repeated"}
        word == IF Is(i + 2, "UNVERIFIED") THEN Tok(i + 2) ELSE [NoValue EXCEPT !.w = "DECLARATION"]
    IN  CASE ~Is(i + 1, "=") -> Fatal
          [] Is(i + 2, "{") /\ Is(i, "declaration") ->
                 IF ~declaration.ok THEN Endless
                 ELSE Took(declaration.at, <<>>, Added(<<"declaration">>, Fields(declaration.fields, keys)))
          [] Is(i + 2, "{") /\ ~Is(i, "declaration") ->
                 IF past > Len(Tokens) THEN Endless ELSE Took(past, <<>>, builtIns)
          [] OTHER -> IF Is(i, "verification") THEN Took(i + 3, <<>>, Set(<<"verification">>, word)) ELSE Fatal

-------------------------------------------------------------------------------
(* The parsers. *)

Parsing == place <= Len(job.places)
Parsed == ~Parsing /\ syntax = {}
Hung == pos = 0
Here(k) == Parsing /\ ~Hung /\ ThePlace.kind = k

\* The places of the file after the current one are not reached after a fatal error.
NextPlace(fatal) ==
    CHOOSE p \in place + 1 .. Len(job.places) + 1 :
        LET Reached(q) == q > Len(job.places) \/ ~fatal \/ job.places[q].file # ThePlace.file
        IN  Reached(p) /\ \A q \in place + 1 .. p - 1 : ~Reached(q)

Take(r, seen) ==
    LET fatal == r.error = "fatal"
    IN  IF r.error = "endless" THEN pos' = 0 /\ UNCHANGED <<place, statements, builtIns, named, syntax>>
        ELSE /\ statements' = statements \o r.options
             /\ builtIns' = r.sets
             /\ named' = named \cup seen
             /\ syntax' = IF r.error = "" THEN syntax
                          ELSE syntax \cup {[file |-> ThePlace.file, place |-> place, fatal |-> fatal]}
             /\ place' = IF r.ends THEN NextPlace(fatal) ELSE place
             /\ pos' = IF r.ends THEN 1 ELSE r.at

TakeStatement(k, table) ==
    /\ Here(k) /\ Is(pos, "option")
    /\ Take(OptionStatement(k, table, pos + 1), SeenName(k, pos + 1))

parseFileOption == TakeStatement("file", FileOptions)
parseMessageOption == TakeStatement("message", MessageOptions)
parseServiceOption == TakeStatement("service", ServiceOptions)
parseMethodOption == TakeStatement("method", MethodOptions)
parseEnumOption == TakeStatement("enum", EnumOptions)
parseOneofOption == TakeStatement("oneof", OneofOptions)

parseFieldOptions ==
    /\ Here("field")
    /\ Take(IF IsCustom("field", pos) THEN AfterFieldOption(Custom("field", pos)) ELSE FieldBuiltIn(pos),
            SeenName("field", pos))
parseEnumValueOptions ==
    /\ Here("enum value")
    /\ Take(AfterListed("enum value", IF IsCustom("enum value", pos) THEN Custom("enum value", pos)
                                      ELSE EnumValueBuiltIn(pos)),
            SeenName("enum value", pos))
parseExtensionRangeOptions ==
    /\ Here("extension range")
    /\ Take(AfterListed("extension range", IF IsCustom("extension range", pos) THEN Custom("extension range", pos)
                                           ELSE ExtRangeBuiltIn(pos)),
            {})

\* Mutant: a stray brace in a file is skipped with the statement it would begin.
OtherStatementSkipped ==
    /\ Parsing /\ ~Hung /\ ThePlace.kind \notin ListKinds /\ ~Is(pos, "option")
    /\ Take(CASE Is(pos, ";") /\ ThePlace.kind # "oneof" -> Took(pos + 1, <<>>, builtIns)
              [] (IF ThePlace.kind = "file" THEN AtEnd(pos) ELSE Is(pos, "}") /\ pos = Len(Tokens)) ->
                     Outcome(1, "", TRUE, <<>>, builtIns)
              [] ThePlace.kind = "file" /\ ~AtEnd(pos) /\ ~Is(pos, ";") ->
                     Outcome(skipStatementCpp(pos), "refused", FALSE, <<>>, builtIns)
              [] OTHER -> Fatal,
            {})

\* Between the statements of a block: empty ones, though not in a oneof, and the brace
\* that ends it; a file ends with its text, and goes on after what is no statement.
\* Nothing else in the texts modelled is a declaration, nor what a brace too many leaves.
OtherStatement ==
    /\ Parsing /\ ~Hung /\ ThePlace.kind \notin ListKinds /\ ~Is(pos, "option")
    /\ Take(CASE Is(pos, ";") /\ ThePlace.kind # "oneof" -> Took(pos + 1, <<>>, builtIns)
              [] (IF ThePlace.kind = "file" THEN AtEnd(pos) ELSE Is(pos, "}") /\ pos = Len(Tokens)) ->
                     Outcome(1, "", TRUE, <<>>, builtIns)
              [] ThePlace.kind = "file" /\ ~AtEnd(pos) /\ ~Is(pos, ";") ->
                     Outcome(IF Is(pos, "}") THEN pos + 1 ELSE skipStatementCpp(pos), "refused", FALSE, <<>>, builtIns)
              [] OTHER -> Fatal,
            {})

InitParser ==
    /\ \E jobs \in Families : job \in jobs
    /\ place = 1 /\ pos = 1
    /\ statements = <<>> /\ builtIns = <<>> /\ named = {} /\ syntax = {}

ParserNext ==
    \/ parseFileOption \/ parseMessageOption \/ parseServiceOption \/ parseMethodOption
    \/ parseEnumOption \/ parseOneofOption \/ parseFieldOptions \/ parseEnumValueOptions
    \/ parseExtensionRangeOptions \/ OtherStatement
===============================================================================
