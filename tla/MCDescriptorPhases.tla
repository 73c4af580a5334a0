-------------------------- MODULE MCDescriptorPhases --------------------------
(* Instances of DescriptorPhases: numbers to validate; clashes of full names in  *)
(* a message, at the top of a file and across two files; fields and values with  *)
(* names that come to the same; features on declarations of every kind; features *)
(* with defaults in up to three editions.                                        *)
EXTENDS DescriptorPhases, NumberJobs

D(kind, name) ==
    [kind |-> kind, in |-> 0, name |-> name, json |-> <<>>, number |-> 0, legacy |-> FALSE,
     features |-> <<>>, label |-> "singular", type |-> "int32", oneof |-> 0, options |-> {},
     default |-> <<>>, key |-> "string", enum |-> <<>>, message |-> <<<<"A">>>>, extendee |-> OptionMessage,
     messageSet |-> FALSE, ranges |-> FALSE]

\* The declarations after the others, in the one at m; they refer to each other.
Place(others, some, container) ==
    LET Move(k, outside) == IF k = 0 THEN outside ELSE Len(others) + k
    IN  others \o [i \in DOMAIN some |-> [some[i] EXCEPT !.in = Move(@, container), !.oneof = Move(@, 0)]]

File(syntax, package, features, nodes) ==
    [syntax |-> syntax, package |-> package, features |-> features, nodes |-> nodes]

\* No mistake in the numbers.
OfFiles(files, outputs) ==
    [Job(m :> Message(<<1>>, <<>>, <<>>), <<>>, <<>>) EXCEPT !.files = files, !.outputs = outputs]

-------------------------------------------------------------------------------
(* Names. *)

a == <<"a">>   b == <<"b">>   A == <<"A">>   B == <<"B">>   _a == <<"_", "a">>   X_a == <<"X", "_", "a">>
Within(d, some) == <<d>> \o [i \in DOMAIN some |-> [some[i] EXCEPT !.in = 1]]
EnumOf(name, values) == Within(D("enum", name), [k \in DOMAIN values |-> [D("value", values[k]) EXCEPT !.number = k - 1]])

Inside ==
    {<<D("field", a)>>, <<D("field", _a)>>, <<D("optional", a)>>, <<D("oneof", a)>>,
     <<D("oneof", _a)>>, <<D("group", A)>>, Within(D("group", A), <<D("field", a)>>),
     <<D("map", a)>>, <<D("map", _a)>>, <<D("message", A)>>, <<D("message", Append(A, "Entry"))>>,
     Within(D("message", Append(A, "Entry")), <<D("field", <<"key">>)>>),
     EnumOf(A, <<a>>), EnumOf(B, <<a, A>>), <<D("extension", a)>>}

ForOneofs == {<<D(kind, name)>> : kind \in {"field", "optional", "oneof"}, name \in {a, _a, X_a}}

AtTop ==
    {<<D("message", A)>>, Within(D("message", A), <<D("field", a)>>), EnumOf(A, <<B>>), EnumOf(B, <<A, a>>),
     Within(D("service", A), <<D("method", a)>>), Within(D("service", B), <<D("method", a), D("method", a)>>),
     <<D("extension", a)>>, Within(D("message", A), <<D("optional", a)>>)}

SyntaxFor(nodes) == IF \E d \in Range(nodes) : d.kind = "optional" THEN "proto3" ELSE "proto2"
OneFile(nodes) == <<File(SyntaxFor(nodes), <<>>, <<>>, nodes)>>

SymbolJobs ==
    {OfFiles(OneFile(Place(Place(<<D("message", A)>>, x, 1), y, 1)), {}) : x, y \in Inside}
    \cup {OfFiles(OneFile(Place(Place(Place(<<D("message", A)>>, x, 1), y, 1), z, 1)), {}) :
             x, y, z \in ForOneofs}
    \cup {OfFiles(OneFile(Place(Place(x, y, 0), z, 0)), {}) : x, y, z \in AtTop}
    \cup {OfFiles(<<File(SyntaxFor(x), p, <<>>, x), File(SyntaxFor(y), q, <<>>, Place(y, z, 0))>>, {}) :
             x, y \in AtTop, z \in {<<>>, <<D("extension", a)>>}, p, q \in {<<>>, <<A>>}}

JsonFields == {[D("field", name) EXCEPT !.json = json] :
                  name \in {<<"a", "_", "b">>, <<"a", "B">>, B}, json \in {<<>>, <<"a", "B">>, B}}

Formats == {<<>>, "json_format" :> "ALLOW", "json_format" :> "LEGACY_BEST_EFFORT"}
Clashing == {<<D("field", <<"a", "_", "b">>), D("field", <<"a", "B">>)>>,
             <<D("field", a), [D("field", B) EXCEPT !.json = a]>>}

JsonJobs ==
    {OfFiles(<<File(syntax, <<>>, <<>>, Within(D("message", A), <<x, y, z>>))>>, {}) :
        x, y, z \in JsonFields, syntax \in {"proto2", "proto3"}}
    \cup
    {OfFiles(<<File("editions", <<>>, f0,
                    Place(<<[D("message", A) EXCEPT !.features = f1, !.legacy = legacy1]>>,
                          Within([D("message", B) EXCEPT !.features = f2, !.legacy = legacy2], c), 1))>>, {}) :
        f0, f1, f2 \in Formats, legacy1, legacy2 \in BOOLEAN, c \in Clashing}

Values1 == {[D("value", name) EXCEPT !.number = k] :
               name \in {A, B, <<"A", "_", "B">>, <<"_", "B">>, <<"a", "b">>, <<"A", "_", "_">>}, k \in {0, 1}}

PrefixJobs ==
    {OfFiles(<<File(syntax, <<>>, <<>>,
                    Within([D("enum", name) EXCEPT !.legacy = legacy], <<v, w>>))>>, {}) :
        v, w \in Values1, name \in {A, <<"A", "_", "b">>}, syntax \in {"proto2", "proto3"}, legacy \in BOOLEAN}
    \cup
    {OfFiles(<<File("proto2", <<>>, <<>>, Within(D("enum", A), <<v, w, x>>))>>, {}) :
        v \in Values1, w, x \in {u \in Values1 : u.name \in {B, <<"A", "_", "B">>, <<"a", "b">>}}}

-------------------------------------------------------------------------------
(* Features. *)

Settings ==
    {<<>>, "field_presence" :> "EXPLICIT", "field_presence" :> "LEGACY_REQUIRED",
     "enum_type" :> "OPEN", "enum_type" :> "CLOSED", "repeated_field_encoding" :> "PACKED",
     "utf8_validation" :> "VERIFY", "message_encoding" :> "DELIMITED", "json_format" :> "ALLOW"}
Few == {<<>>, "field_presence" :> "LEGACY_REQUIRED", "enum_type" :> "OPEN", "enum_type" :> "CLOSED"}

\* A message field or extension beside a map, and in another message.
OfType(kind, message) == [D(kind, b) EXCEPT !.type = "message", !.message = message]
Beside(map, field) ==
    {Within(D("message", A), <<map, field>>),
     Place(Within(D("message", A), <<map>>), Within(D("message", B), <<field>>), 1)}

\* Declarations of every kind, the last one with the features.
Typed(kind) == {<<[D(kind, B) EXCEPT !.label = label, !.type = type]>> :
                   label \in {"singular", "repeated"}, type \in {"int32", "string", "message"}}
Kinds ==
    {Within(D("message", A), x) : x \in Typed("field") \cup Typed("extension")}
    \cup Typed("extension")
    \cup {Within(D("message", A), <<x>>) : x \in {D("map", a), D("group", B),
                                                  D("oneof", a), D("message", B)}}
    \cup {Within(D("message", A), <<D("oneof", a), [D("field", B) EXCEPT !.oneof = 2]>>)}
    \cup UNION {Beside(D("map", a), OfType(kind, <<B, name>>)) :
                   kind \in {"field", "extension"}, name \in {A, Append(A, "Entry")}}
    \cup {<<D("message", A)>>, <<D("service", A)>>, Within(D("service", A), <<D("method", a)>>)}

\* An enum in a message or not, that starts anywhere, its message with features too.
EnumNodes(features, outer, first) ==
    {<<[D("enum", A) EXCEPT !.features = features], [D("value", B) EXCEPT !.in = 1, !.number = first]>>,
     <<[D("message", A) EXCEPT !.features = outer], [D("enum", A) EXCEPT !.features = features, !.in = 1],
       [D("value", B) EXCEPT !.in = 2, !.number = first]>>}

Featured(nodes, features) == [nodes EXCEPT ![Len(nodes)].features = features]

FeatureJobs ==
    {OfFiles(<<File(syntax, <<>>, f1, Featured(x, f2))>>, {}) :
        x \in Kinds, f1 \in Few, f2 \in Settings, syntax \in {"editions"}}
    \cup {OfFiles(<<File(syntax, <<>>, f1, Featured(x, f2))>>, {}) :
             x \in Kinds, f1 \in {<<>>, "enum_type" :> "OPEN"},
             f2 \in {<<>>, "json_format" :> "ALLOW"}, syntax \in {"proto2", "proto3"}}
    \cup UNION {{OfFiles(<<File(syntax, <<>>, f1, nodes)>>, {}) : nodes \in EnumNodes(f2, f3, first)} :
                   f1, f2, f3 \in Few, first \in 0 .. 1, syntax \in {"editions", "proto2", "proto3"}}

-------------------------------------------------------------------------------
(* What single declarations may be: a field or extension in or after a message that *)
(* may be a message set, and an enum that its default may be a value of.            *)

Ruled ==
    {[D(kind, b) EXCEPT !.label = label, !.type = type, !.default = default, !.enum = <<A>>] :
        kind \in {"field", "extension", "map"}, label \in {"singular", "repeated", "required"},
        type \in {"int32", "int64", "string", "message", "enum"}, default \in {<<>>, B, a}}
    \cup {[D(kind, b) EXCEPT !.options = {option}, !.label = label, !.type = type, !.enum = <<A>>] :
             kind \in {"field", "extension"}, label \in {"singular", "repeated"},
             type \in {"int32", "int64", "float", "string", "message", "enum"}, option \in {"packed", "lazy", "jstype"}}
    \cup {[D("map", b) EXCEPT !.key = key] : key \in {"int32", "int64", "string", "float", "enum"}}
    \cup {[D("extension", b) EXCEPT !.extendee = extendee, !.json = json, !.type = type, !.label = label] :
             extendee \in {OptionMessage, <<B>>}, json \in {<<>>, a}, type \in {"int32", "message"},
             label \in {"singular", "repeated"}}
    \cup {D("group", B), D("oneof", b)}

RuleJobs ==
    {OfFiles(<<File(syntax, <<>>, <<>>,
                    Place(Place(<<[D("message", B) EXCEPT !.messageSet = set]>>, <<d>>, 1), EnumOf(A, <<B>>), 0))>>, {}) :
        d \in Ruled, set \in BOOLEAN, syntax \in {"proto2", "proto3"}}
    \cup
    {OfFiles(<<File(syntax, <<>>, <<>>, <<[D("message", A) EXCEPT !.ranges = ranges]>>),
               File("proto3", <<>>, <<>>, <<d>>)>>, {}) :
        ranges \in BOOLEAN, syntax \in {"proto2", "proto3"},
        d \in {[D("extension", b) EXCEPT !.extendee = e1, !.default = e2] : e1 \in {OptionMessage, <<A>>}, e2 \in {<<>>, a}}}

-------------------------------------------------------------------------------
(* Edition defaults, of a file without mistakes. *)

From(edition, value) == [edition |-> edition, value |-> value]
DefaultsOf(x, y) ==
    {<<>>, <<From(1, x)>>, <<From(2, y)>>, <<From(1, x), From(3, y)>>, <<From(3, x), From(1, y)>>,
     <<From(2, y), From(1, x), From(3, x)>>, <<From(2, x), From(2, y)>>}
Supports == {<<0, 0>>, <<2, 0>>, <<1, 3>>}

FeatureOf(number, type, values, support) ==
    [number |-> number, type |-> type, defaults |-> values, introduced |-> support[1], removed |-> support[2]]

DefaultJobs ==
    {[OfFiles(<<>>, outputs) EXCEPT !.pool = [known |-> known, features |-> {one, other},
                                              minimum |-> low, maximum |-> high]] :
        one \in {FeatureOf(1, {"on", "off"}, v, s) : v \in DefaultsOf("on", "off") \cup {<<From(2, "none")>>}, s \in Supports},
        other \in {FeatureOf(number, {}, v, <<0, 0>>) :
                     number \in {1, 2}, v \in DefaultsOf("true", "false") \cup {<<From(2, "yes")>>}},
        low \in 1 .. 3, high \in 1 .. 3, known \in {TRUE}, outputs \in {{"edition defaults"}}}
    \cup
    {[OfFiles(<<>>, outputs) EXCEPT !.pool.known = known] :
        known \in BOOLEAN, outputs \in {{}, {"edition defaults"}, {"free numbers", "edition defaults"}}}

MCJobs == AllNumberJobs \cup {SymbolJobs, JsonJobs, PrefixJobs, FeatureJobs, RuleJobs, DefaultJobs}
===============================================================================
