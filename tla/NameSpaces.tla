------------------------------ MODULE NameSpaces ------------------------------
(***************************************************************************)
(* The names of the declarations of a compilation, and what compileInternal *)
(* requires of them: that no full name is declared twice in all files, that *)
(* no two fields of a message have one JSON name, and that no two values of *)
(* an enum have one name once its prefix is taken away.  Some names are not *)
(* written but made: those of the entry types of maps, of the fields of     *)
(* groups and of the oneofs of optional fields.                             *)
(*                                                                         *)
(* A name is a sequence of letters and underscores; "Entry" and the "X" in  *)
(* front of a oneof count as letters.  A file lists its declarations, each  *)
(* after the one it is in.  Groups in extend blocks are left out.           *)
(***************************************************************************)
EXTENDS Integers, Sequences, FiniteSets, SequencesExt, TLC

Upper(c) == CASE c = "a" -> "A" [] c = "b" -> "B" [] OTHER -> c
Lower(c) == CASE c = "A" -> "a" [] c = "B" -> "b" [] OTHER -> c
Lowered(name) == [i \in DOMAIN name |-> Lower(name[i])]

\* A finite set of integers as a sequence.
Ascending(set) ==
    [i \in 1 .. Cardinality(set) |->
        CHOOSE x \in set : Cardinality({y \in set : y < x}) = i - 1]

\* The positions of the letters of a name.
Letters(name) == Ascending({i \in DOMAIN name : name[i] # "_"})

\* Whether the letter at i comes after an underscore, or first, where that counts.
Starts(name, i, first) == IF i = 1 THEN first ELSE name[i - 1] = "_"

\* The letters, capitalized where a word starts.
Joined(name, letters, first) ==
    [k \in DOMAIN letters |->
        IF Starts(name, letters[k], first) THEN Upper(name[letters[k]]) ELSE name[letters[k]]]

ToJSONName(name) == Joined(name, Letters(name), FALSE)
toCamelCase(name) == Joined(name, Letters(name), TRUE)

-------------------------------------------------------------------------------
(* Declarations and the descriptors made of them. *)

\* The declarations of the kinds in the one at m, or in the file if m is 0, in order.
Of(file, m, kinds) ==
    Ascending({i \in DOMAIN file.nodes : file.nodes[i].in = m /\ file.nodes[i].kind \in kinds})

FieldKinds == {"field", "map", "group", "optional"}
TypeKinds == {"message", "map", "group"}
Fields(file, m) == Of(file, m, FieldKinds)
Types(file, m) == Of(file, m, TypeKinds)
Bodies(file) == {i \in DOMAIN file.nodes : file.nodes[i].kind \in {"message", "group"}}
EnumsOf(file) == {i \in DOMAIN file.nodes : file.nodes[i].kind = "enum"}

FieldName(d) == IF d.kind = "group" THEN Lowered(d.name) ELSE d.name
TypeName(d) == IF d.kind = "map" THEN Append(toCamelCase(d.name), "Entry") ELSE d.name

syntheticOneofName(name) == IF Head(name) = "_" THEN name ELSE <<"_">> \o name

\* Mutant: only the names of oneofs are avoided.
FreshAmongOneofs(name, oneofs, fields) ==
    LET Xs(k) == [i \in 1 .. k |-> "X"]
        k == Min({j \in 0 .. Cardinality(oneofs) : Xs(j) \o name \notin oneofs})
    IN  Xs(k) \o name

\* The name with as few "X" in front as it takes.
Fresh(name, oneofs, fields) ==
    LET Xs(k) == [i \in 1 .. k |-> "X"]
        taken == oneofs \cup fields
        k == Min({j \in 0 .. Cardinality(taken) : Xs(j) \o name \notin taken})
    IN  Xs(k) \o name

\* The oneofs of a message with the declarations they are for: the declared ones,
\* then one for each optional field of proto3.
Oneofs(file, m) ==
    LET declared == Of(file, m, {"oneof"})
        optionals == Of(file, m, {"optional"})
        fields == {FieldName(file.nodes[i]) : i \in Range(Fields(file, m))}
        Made(given, i) ==
            [node |-> i,
             name |-> Fresh(syntheticOneofName(file.nodes[i].name), {o.name : o \in Range(given)}, fields)]
        given[k \in 0 .. Len(optionals)] ==
            IF k = 0
            THEN [j \in DOMAIN declared |-> [node |-> declared[j], name |-> file.nodes[declared[j]].name]]
            ELSE LET before == given[k - 1] IN Append(before, Made(before, optionals[k]))
    IN  given[Len(optionals)]

\* What parsing leaves: types, enums and extensions are in messages and groups or at the
\* top, fields and oneofs in messages and groups, values in enums, methods in services;
\* and the name of a group starts with a capital letter.
IsFile(file) ==
    /\ file.nodes \in Seq(Range(file.nodes))
    /\ \A i \in DOMAIN file.nodes :
          LET d == file.nodes[i]
              holder == IF d.in = 0 THEN "file" ELSE file.nodes[d.in].kind
          IN  /\ d.in \in 0 .. i - 1
              /\ d.name # <<>> /\ d.name \in Seq(Range(d.name))
              /\ d.kind \in {"message", "enum", "extension"} => holder \in {"file", "message", "group"}
              /\ d.kind \in FieldKinds \cup {"oneof"} => holder \in {"message", "group"}
              /\ d.kind = "value" => holder = "enum"
              /\ d.kind = "method" => holder = "service"
              /\ d.kind = "service" => holder = "file"
              /\ d.kind = "group" => Lowered(d.name) # d.name

-------------------------------------------------------------------------------
(* validateDuplicateNames. *)

Symbol(i, as, name, scope, enum) ==
    [node |-> i, as |-> as, name |-> name, scope |-> scope, enum |-> enum]

NoEnum == <<>>

\* The declarations of a kind in m as symbols of its scope.
Plain(file, m, kind, scope) ==
    LET those == Of(file, m, {kind})
    IN  [k \in DOMAIN those |-> Symbol(those[k], kind, file.nodes[those[k]].name, scope, NoEnum)]

\* Values are siblings of their enum, and come before it.
ScopeOfValues(file, e, scope) == scope

EnumSymbols(file, m, scope) ==
    LET enums == Of(file, m, {"enum"})
        Values(e) == LET values == Of(file, e, {"value"})
                     IN  [k \in DOMAIN values |->
                            Symbol(values[k], "value", file.nodes[values[k]].name,
                                   ScopeOfValues(file, e, scope), file.nodes[e].name)]
    IN  FlattenSeq([k \in DOMAIN enums |->
            Append(Values(enums[k]),
                   Symbol(enums[k], "enum", file.nodes[enums[k]].name, scope, NoEnum))])

FieldSymbols(file, m, scope) ==
    LET oneofs == Oneofs(file, m)
        fields == Fields(file, m)
    IN  [k \in DOMAIN oneofs |-> Symbol(oneofs[k].node, "oneof", oneofs[k].name, scope, NoEnum)]
            \o [k \in DOMAIN fields |->
                  Symbol(fields[k], "field", FieldName(file.nodes[fields[k]]), scope, NoEnum)]

EntrySymbols(i, scope) ==
    <<Symbol(i, "key", <<"key">>, scope, NoEnum), Symbol(i, "element", <<"value">>, scope, NoEnum)>>

\* What a message registers: what is in it, and what is in the types in it, each type
\* after what is in it.
collectDupNamesInMsg(file, scope) ==
    LET Inside[m \in DOMAIN file.nodes] ==
            LET types == Types(file, m)
            IN  IF file.nodes[m].kind = "map" THEN EntrySymbols(m, scope[m])
                ELSE FieldSymbols(file, m, scope[m])
                       \o Plain(file, m, "extension", scope[m])
                       \o EnumSymbols(file, m, scope[m])
                       \o FlattenSeq([k \in DOMAIN types |->
                            Append(Inside[types[k]],
                                   Symbol(types[k], "type", TypeName(file.nodes[types[k]]),
                                          scope[m], NoEnum))])
    IN  Inside

\* The full name of the declaration at i as a scope.
Scopes(file) ==
    LET scope[i \in 0 .. Len(file.nodes)] ==
            IF i = 0 THEN file.package
            ELSE Append(scope[file.nodes[i].in], TypeName(file.nodes[i]))
    IN  scope

\* All that a file registers, in order.
Symbols(file) ==
    LET scope == Scopes(file)
        inside == collectDupNamesInMsg(file, scope)
        messages == Types(file, 0)
        services == Of(file, 0, {"service"})
    IN  FlattenSeq([k \in DOMAIN messages |->
            Append(inside[messages[k]],
                   Symbol(messages[k], "type", file.nodes[messages[k]].name, file.package, NoEnum))])
        \o EnumSymbols(file, 0, file.package)
        \o FlattenSeq([k \in DOMAIN services |->
              Append(Plain(file, services[k], "method", scope[services[k]]),
                     Symbol(services[k], "service", file.nodes[services[k]].name, file.package, NoEnum))])
        \o Plain(file, 0, "extension", file.package)

Key(s) == <<s.scope, s.name>>

NoNames == [key \in {} |-> 0]
EmptyRegistry == [seen |-> NoNames, errors |-> {}]

\* check: a new name is noted with the file, and the enum of a value; a known one is
\* an error, with a note on the scope of values if its enum has another name.
Check(registry, k, s) ==
    LET seen == registry.seen
    IN  IF Key(s) \in DOMAIN seen
        THEN LET first == seen[Key(s)]
             IN  [registry EXCEPT !.errors = @ \cup
                    {[file |-> k, symbol |-> s, first |-> first.file,
                      note |-> s.enum # NoEnum /\ first.enum # s.enum]}]
        ELSE [registry EXCEPT !.seen =
                [key \in DOMAIN seen \cup {Key(s)} |->
                    IF key \in DOMAIN seen THEN seen[key] ELSE [file |-> k, enum |-> s.enum]]]

\* The names of the kth file.
RegisterFile(registry, files, k) ==
    LET symbols == Symbols(files[k])
        after[i \in 0 .. Len(symbols)] ==
            IF i = 0 THEN registry ELSE Check(after[i - 1], k, symbols[i])
    IN  after[Len(symbols)]

\* validateMapEntryConflicts: the messages with an entry type of the name of another
\* type in them.
MapEntryConflicts(file) ==
    {m \in Bodies(file) :
        \E i, j \in Range(Types(file, m)) :
            /\ i # j
            /\ file.nodes[i].kind = "map"
            /\ TypeName(file.nodes[i]) = TypeName(file.nodes[j])}

-------------------------------------------------------------------------------
(* validateJsonNameConflicts. *)

\* json is empty without an explicit json_name.
Explicit(d) == d.json # <<>>
DefaultJsonName(d) == ToJSONName(FieldName(d))
IsCustom(d, useCustom) == useCustom /\ Explicit(d) /\ d.json # DefaultJsonName(d)
JsonName(d, useCustom) == IF IsCustom(d, useCustom) THEN d.json ELSE DefaultJsonName(d)

\* What a message says of json_format, or what it is in.
JsonFormat(file) ==
    LET format[i \in 0 .. Len(file.nodes)] ==
            LET features == IF i = 0 THEN file.features ELSE file.nodes[i].features
            IN  IF "json_format" \in DOMAIN features THEN features["json_format"]
                ELSE IF i = 0 THEN "unset" ELSE format[file.nodes[i].in]
    IN  format

\* Mutant: clashes between default names are left to the other pass, whatever the first
\* field of the name is.
SkippedIfDefault(d, first, useCustom) == useCustom /\ ~IsCustom(d, useCustom)

\* In the custom pass, two default names have been reported.
Skipped(d, first, useCustom) ==
    useCustom /\ ~IsCustom(d, useCustom) /\ ~IsCustom(first, useCustom)

\* The fields of m whose name another one before them has, in one of the passes.
ConflictsIn(file, fields, useCustom) ==
    LET Named(k) == {j \in 1 .. k : JsonName(file.nodes[fields[j]], useCustom)
                                      = JsonName(file.nodes[fields[k]], useCustom)}
    IN  {fields[k] : k \in {j \in DOMAIN fields :
            /\ Min(Named(j)) # j
            /\ ~Skipped(file.nodes[fields[j]], file.nodes[fields[Min(Named(j))]], useCustom)}}

\* The custom pass is run if any field of any file has an explicit name.
Passes(files) ==
    IF \E k \in DOMAIN files : \E d \in Range(files[k].nodes) : Explicit(d) THEN BOOLEAN ELSE {FALSE}

JsonNameConflicts(files, k) ==
    LET format == JsonFormat(files[k])
        looked == {m \in Bodies(files[k]) :
                     ~files[k].nodes[m].legacy /\ format[m] # "LEGACY_BEST_EFFORT"}
    IN  UNION {ConflictsIn(files[k], Fields(files[k], m), useCustom) :
                  m \in looked, useCustom \in Passes(files)}

-------------------------------------------------------------------------------
(* validateEnumPrefixConflict. *)

\* The value's name without the name of the enum, whatever the underscores and the case
\* of either, unless nothing would be left.
prefixRemoverMaybeRemove(enum, value) ==
    LET prefix == Letters(enum)
        letters == Letters(value)
        k == Len(prefix)
    IN  IF /\ Len(letters) > k
           /\ \A i \in 1 .. k : Lower(value[letters[i]]) = Lower(enum[prefix[i]])
        THEN SubSeq(value, letters[k + 1], Len(value))
        ELSE value

enumValueToPascalCase(name) ==
    LET letters == Letters(name)
    IN  [k \in DOMAIN letters |->
            IF Starts(name, letters[k], TRUE) THEN Upper(name[letters[k]]) ELSE Lower(name[letters[k]])]

Stripped(file, e, v) ==
    enumValueToPascalCase(prefixRemoverMaybeRemove(file.nodes[e].name, file.nodes[v].name))

\* The values compared with the first of their stripped name, unless it is an alias or
\* has the same name.
ConflictsInEnum(file, e, values) ==
    LET Same(k) == {j \in 1 .. k : Stripped(file, e, values[j]) = Stripped(file, e, values[k])}
        First(k) == file.nodes[values[Min(Same(k))]]
    IN  {values[k] : k \in {j \in DOMAIN values :
            LET d == file.nodes[values[j]]
            IN  First(j).name # d.name /\ First(j).number # d.number}}

EnumPrefixConflicts(file) ==
    UNION {ConflictsInEnum(file, e, Of(file, e, {"value"})) :
              e \in {i \in EnumsOf(file) : ~(file.syntax = "proto2" /\ file.nodes[i].legacy)}}
===============================================================================
