--------------------------- MODULE DescriptorPhases ---------------------------
(***************************************************************************)
(* The validation of the descriptors of a compilation: phase 1 of           *)
(* compileInternal, which looks at names and numbers, phase 2, which looks  *)
(* at the descriptors that phase 1 lets through, and the two outputs that   *)
(* say what was left free: free field numbers and edition defaults.         *)
(*                                                                         *)
(* A job has the files with their declarations and, apart from them, what   *)
(* of their messages and enums concerns numbers.                            *)
(***************************************************************************)
EXTENDS Features

CONSTANTS MaxInt, MaxFieldNumber, FirstReserved, LastReserved, MaxSuggestions, Top, Jobs

ASSUME BoundsAssumption ==
    /\ {MaxInt, MaxFieldNumber, FirstReserved, LastReserved, MaxSuggestions} \subseteq Nat
    /\ 2 < FirstReserved /\ FirstReserved <= LastReserved /\ LastReserved < MaxFieldNumber
    /\ MaxFieldNumber + 1 < MaxInt

VARIABLES
    job, at, parsed, errors, warnings, hints, suggestions, outcome, printed,
                    \* of NumberSpaces
    registry,       \* validateDuplicateNames: the names known, and the errors
    registered,     \* how many files are; one more when map entries were looked at
    ruled,          \* how many validators of FieldRules in phase 1 are done
    ruleErrors,     \* what they found
    mapConflicts,   \* messages with an entry type of a name that is taken
    checked,        \* how many validators of phase 2 are done
    valErrors, valWarnings,
    verdict,        \* of the compilation
    entries,        \* the edition defaults so far
    written         \* the file they are written to

numbers == <<at, parsed, errors, warnings, hints, suggestions, outcome, printed>>
names == <<registry, registered, mapConflicts>>
rules == <<ruled, ruleErrors>>
descriptors == <<checked, valErrors, valWarnings>>
defaults == <<entries, written>>
vars == <<job, numbers, names, rules, descriptors, verdict, defaults>>

Numbers == INSTANCE NumberSpaces

ASSUME JobsAssumption == \A family \in Jobs : \A j \in family : Numbers!IsJob(j)
ASSUME FilesAssumption ==
    \A family \in Jobs : \A j \in family :
        j.files \in Seq(Range(j.files)) /\ \A file \in Range(j.files) : IsFile(file) /\ IsDescribed(file)
ASSUME PoolsAssumption == \A family \in Jobs : \A j \in family : IsPool(j.pool)

Files == job.files

-------------------------------------------------------------------------------
(* Phase 1. *)

Parse ==
    /\ Numbers!Parse
    /\ verdict' = IF outcome' = "unparsed" THEN "refused" ELSE verdict
    /\ UNCHANGED <<names, rules, descriptors, defaults>>

\* Four validators come before names, before the fields of message sets, and last.
Rules == <<"MapKeyTypes", "RequiredExtensions", "ExtensionJsonName", "MessageSetExtensions">>

Broken(v, k) ==
    CASE v = "MapKeyTypes" -> MapKeyTypes(Files[k])
      [] v = "RequiredExtensions" -> RequiredExtensions(Files[k])
      [] v = "ExtensionJsonName" -> ExtensionJsonName(Files[k])
      [] v = "MessageSetExtensions" -> MessageSetExtensions(Files, k)

\* How many are due before the next validator of numbers.
RulesDue ==
    IF at = 0 THEN 0
    ELSE IF at > Len(Numbers!Validators) THEN 4
    ELSE IF Numbers!Validators[at] = "MessageSetFields" THEN 3
    ELSE 1

ValidateRule ==
    /\ outcome = "running" /\ ruled < RulesDue
    /\ ruleErrors' = ruleErrors \cup
          {[what |-> Rules[ruled + 1], at |-> w] :
              w \in UNION {{k} \X Broken(Rules[ruled + 1], k) : k \in DOMAIN Files}}
    /\ ruled' = ruled + 1
    /\ UNCHANGED <<job, numbers, names, descriptors, verdict, defaults>>

\* validateDuplicateNames, one file after the other.
RegisterNext ==
    /\ at = 1 /\ ruled = 1 /\ registered < Len(Files)
    /\ registry' = RegisterFile(registry, Files, registered + 1)
    /\ registered' = registered + 1
    /\ UNCHANGED <<job, numbers, mapConflicts, rules, descriptors, verdict, defaults>>

\* Entry types are looked at only if some name is taken.
validateMapEntryConflicts ==
    /\ at = 1 /\ ruled = 1 /\ registered = Len(Files)
    /\ mapConflicts' = IF registry.errors = {} THEN {}
                       ELSE UNION {{k} \X MapEntryConflicts(Files[k]) : k \in DOMAIN Files}
    /\ registered' = registered + 1
    /\ UNCHANGED <<job, numbers, registry, rules, descriptors, verdict, defaults>>

Validate ==
    /\ registered > Len(Files) /\ ruled = RulesDue
    /\ Numbers!Validate
    /\ UNCHANGED <<names, rules, descriptors, verdict, defaults>>

Decide ==
    /\ ruled = Len(Rules)
    /\ Numbers!Decide(registry.errors \cup ruleErrors)
    /\ verdict' = IF outcome' = "refused" THEN "refused" ELSE verdict
    /\ UNCHANGED <<names, rules, descriptors, defaults>>

-------------------------------------------------------------------------------
(* Phase 2. *)

Phase2 ==
    <<"JsonNameConflicts", "PackedNonRepeated", "LazyNonMessage", "JstypeNonInt64",
      "RepeatedDefault", "MessageDefault", "EnumDefaultValues", "Proto3", "EditionGroups",
      "EnumPrefixConflict", "EditionOpenEnumZero", "FileLevelLegacyRequired", "RepeatedFieldEncoding",
      "FieldPresenceRepeated", "FieldPresenceOneof", "MessageEncodingScalar",
      "FieldPresenceExtension", "RequiredExtensionEditions", "Utf8ValidationNonString",
      "FeaturesEditions", "FeatureTargets">>

\* What a validator finds in the kth file.
Found(v, k) ==
    LET file == Files[k]
    IN  CASE v = "JsonNameConflicts" -> JsonNameConflicts(Files, k)
          [] v = "PackedNonRepeated" -> PackedNonRepeated(file)
          [] v = "LazyNonMessage" -> LazyNonMessage(file)
          [] v = "JstypeNonInt64" -> JstypeNonInt64(file)
          [] v = "RepeatedDefault" -> RepeatedDefault(file)
          [] v = "MessageDefault" -> MessageDefault(file)
          [] v = "EnumDefaultValues" -> EnumDefaultValues(Files, k)
          [] v = "Proto3" -> Proto3(file)
          [] v = "EditionGroups" -> EditionGroups(file)
          [] v = "EnumPrefixConflict" -> EnumPrefixConflicts(file)
          [] v = "EditionOpenEnumZero" -> EditionOpenEnumZero(file)
          [] v = "FileLevelLegacyRequired" -> FileLevelLegacyRequired(file)
          [] v = "RepeatedFieldEncoding" -> RepeatedFieldEncoding(file)
          [] v = "FieldPresenceRepeated" -> FieldPresenceRepeated(file)
          [] v = "FieldPresenceOneof" -> FieldPresenceOneof(file)
          [] v = "MessageEncodingScalar" -> MessageEncodingScalar(file)
          [] v = "FieldPresenceExtension" -> FieldPresenceExtension(file)
          [] v = "RequiredExtensionEditions" -> RequiredExtensionEditions(file)
          [] v = "Utf8ValidationNonString" -> Utf8ValidationNonString(file)
          [] v = "FeaturesEditions" -> FeaturesEditionsErrors(file)
          [] v = "FeatureTargets" -> FeatureTargetErrors(file)

\* Clashes of JSON names are warnings in proto2.
IsWarning(v, k) == v = "JsonNameConflicts" /\ Files[k].syntax = "proto2"

\* Targets are not looked at if there are features where none is allowed.
IsDue(v) == v = "FeatureTargets" => \A w \in valErrors : w.what # "FeaturesEditions"

ValidateDescriptors ==
    /\ outcome = "accepted" /\ verdict = "running" /\ checked < Len(Phase2)
    /\ LET v == Phase2[checked + 1]
           found == IF IsDue(v) THEN UNION {{k} \X Found(v, k) : k \in DOMAIN Files} ELSE {}
           warned == {w \in found : IsWarning(v, w[1])}
       IN  /\ valErrors' = valErrors \cup {[what |-> v, at |-> w] : w \in found \ warned}
           /\ valWarnings' = valWarnings \cup warned
    /\ checked' = checked + 1
    /\ UNCHANGED <<job, numbers, names, rules, verdict, defaults>>

DecideDescriptors ==
    /\ verdict = "running" /\ checked = Len(Phase2)
    /\ verdict' = IF valErrors = {} THEN "accepted" ELSE "refused"
    /\ UNCHANGED <<job, numbers, names, rules, descriptors, defaults>>

-------------------------------------------------------------------------------
(* Outputs. *)

\* Run returns after the numbers.
PrintFree ==
    /\ verdict = "accepted" /\ "free numbers" \in job.outputs
    /\ Numbers!PrintFree
    /\ verdict' = "done"
    /\ UNCHANGED <<names, rules, descriptors, defaults>>

Asked == verdict = "accepted" /\ job.outputs = {"edition defaults"}
Editions == featureEditions(job.pool.features, job.pool.minimum, job.pool.maximum)

\* writeEditionDefaults: without FeatureSet, or with its bounds crossed, it fails.
IsDescribable == job.pool.known /\ job.pool.minimum <= job.pool.maximum

Fail ==
    /\ verdict' = "failed"
    /\ UNCHANGED <<job, numbers, names, rules, descriptors, defaults>>

CannotDescribe == Asked /\ ~IsDescribable /\ Fail

IsWritable(edition) ==
    \A x \in Defaulted(job.pool.features, edition) : IsEncodable(x, edition)

CannotEncode ==
    /\ Asked /\ IsDescribable
    /\ Len(entries) < Len(Editions) /\ ~IsWritable(Editions[Len(entries) + 1])
    /\ Fail

AppendEntry ==
    /\ Asked /\ IsDescribable
    /\ Len(entries) < Len(Editions) /\ IsWritable(Editions[Len(entries) + 1])
    /\ entries' = Append(entries, Entry(job.pool.features, Editions[Len(entries) + 1]))
    /\ UNCHANGED <<job, numbers, names, rules, descriptors, verdict, written>>

WriteDefaults ==
    /\ Asked /\ IsDescribable /\ Len(entries) = Len(Editions)
    /\ written' = <<[entries |-> entries, minimum |-> job.pool.minimum,
                     maximum |-> job.pool.maximum]>>
    /\ verdict' = "done"
    /\ UNCHANGED <<job, numbers, names, rules, descriptors, entries>>

Done == verdict \in {"refused", "failed", "done"} \/ (verdict = "accepted" /\ job.outputs = {})
Terminated == Done /\ UNCHANGED vars

Init ==
    /\ Numbers!Init
    /\ registry = EmptyRegistry /\ registered = 0 /\ mapConflicts = {}
    /\ ruled = 0 /\ ruleErrors = {}
    /\ checked = 0 /\ valErrors = {} /\ valWarnings = {}
    /\ verdict = "running"
    /\ entries = <<>> /\ written = <<>>

Next ==
    \/ Parse \/ ValidateRule \/ RegisterNext \/ validateMapEntryConflicts
    \/ Validate \/ Decide
    \/ ValidateDescriptors \/ DecideDescriptors
    \/ PrintFree \/ CannotDescribe \/ CannotEncode \/ AppendEntry \/ WriteDefaults
    \/ Terminated

Spec == Init /\ [][Next]_vars

-------------------------------------------------------------------------------
(* Properties. *)

\* Of the numbers of a compilation, see NumberSpaces.
OffendersAreNamed == Numbers!OffendersAreNamed
ReuseIsNeverSilent == Numbers!ReuseIsNeverSilent
FreeNumbersAreFree == Numbers!FreeNumbersAreFree
ExtensionRangesAreOccupied == Numbers!ExtensionRangesAreOccupied

\* What the language says is declared by a declaration, as full names: an enum value is a
\* sibling of its enum, a map declares its entry type and what is in it, a group its field,
\* and an optional field of proto3 a oneof.
FullName(file, i) == Append(Scopes(file)[file.nodes[i].in], file.nodes[i].name)
Declares(file, i) ==
    LET d == file.nodes[i]
        scope == Scopes(file)[d.in]
        A(as, full) == [as |-> as, full |-> full]
    IN  CASE d.kind = "value" -> {A("value", Append(Scopes(file)[file.nodes[d.in].in], d.name))}
          [] d.kind = "map" ->
               LET type == Append(scope, TypeName(d))
               IN  {A("field", Append(scope, d.name)), A("type", type),
                    A("key", Append(type, <<"key">>)), A("element", Append(type, <<"value">>))}
          [] d.kind = "group" -> {A("field", Append(scope, Lowered(d.name))), A("type", FullName(file, i))}
          [] d.kind = "optional" ->
               {A("field", FullName(file, i))}
                 \cup {A("oneof", Append(scope, o.name)) :
                          o \in {x \in Range(Oneofs(file, d.in)) : x.node = i}}
          [] OTHER -> {A(d.kind, FullName(file, i))}

Declarations ==
    UNION {UNION {{[file |-> k, node |-> i, as |-> a.as, full |-> a.full] : a \in Declares(Files[k], i)} :
                     i \in DOMAIN Files[k].nodes} : k \in DOMAIN Files}

\* Duplicate full names are reported one by one (validateDuplicateNames): of those that
\* have a name, all but one of the earliest file are errors that point to that file; with
\* enum values, the note on their scope is given unless the first was in an enum of that
\* name.  A oneof made for an optional field (parser.go) never takes the name of a field
\* or of another oneof of its message, and a clash with an entry type is named as such.
SymbolsAreUnique ==
    registered > Len(Files) =>
        LET full == {d.full : d \in Declarations}
            EnumOf(d) == IF d.as # "value" THEN NoEnum
                         ELSE Files[d.file].nodes[Files[d.file].nodes[d.node].in].name
        IN  /\ \A n \in full :
                 LET those == {d \in Declarations : d.full = n}
                     wrong == {e \in registry.errors : Append(e.symbol.scope, e.symbol.name) = n}
                     first == Min({d.file : d \in those})
                 IN  /\ Cardinality(wrong) = Cardinality(those) - 1
                     /\ \A e \in wrong : e.first = first
                     /\ wrong # {} =>
                          \E d \in those :
                            /\ d.file = first
                            /\ \A e \in wrong :
                                 /\ <<e.file, e.symbol.node>> # <<d.file, d.node>>
                                 /\ e.note <=> (e.symbol.as = "value" /\ EnumOf(d) # e.symbol.enum)
            /\ \A e \in registry.errors : Append(e.symbol.scope, e.symbol.name) \in full
            /\ outcome = "accepted" => registry.errors = {} /\ ruleErrors = {}
            /\ \A d \in Declarations :
                 d.as = "oneof" /\ Files[d.file].nodes[d.node].kind = "optional" =>
                    \A c \in Declarations :
                       /\ c.file = d.file /\ c.full = d.full /\ c # d
                       /\ Files[c.file].nodes[c.node].in = Files[d.file].nodes[d.node].in
                       => c.as \notin {"field", "oneof"}
            /\ \A k \in DOMAIN Files : {k} \X MapEntryConflicts(Files[k]) \subseteq mapConflicts

DescriptorsDecided == verdict \in {"accepted", "failed", "done"} \/ (verdict = "refused" /\ outcome = "accepted")
Wrong(v, k) == {i \in 0 .. Len(Files[k].nodes) : [what |-> v, at |-> <<k, i>>] \in valErrors}
Actual(d) == IF Explicit(d) THEN d.json ELSE DefaultJsonName(d)

\* Names that are derived from names are kept apart.  A field is reported exactly if one
\* before it in its message has its default or its actual JSON name, though the two passes
\* of validateJsonNameConflicts each see one kind of name, skip what the other has
\* reported, and may not both be run; it is a warning in proto2, and messages may opt out.
\* In an enum that is accepted, values that are one name once the enum's is taken off are
\* one number (validateEnumPrefixConflict), unless proto2 opts out.
DerivedNamesStayApart ==
    DescriptorsDecided =>
        \A k \in DOMAIN Files :
            LET nodes == Files[k].nodes
                format == JsonFormat(Files[k])
                Reported(i) == IF Files[k].syntax = "proto2" THEN <<k, i>> \in valWarnings
                               ELSE i \in Wrong("JsonNameConflicts", k)
                Clash(i, j) == \/ DefaultJsonName(nodes[i]) = DefaultJsonName(nodes[j])
                               \/ Actual(nodes[i]) = Actual(nodes[j])
            IN  /\ \A m \in Bodies(Files[k]) :
                     LET fields == Fields(Files[k], m)
                         exempt == nodes[m].legacy \/ format[m] = "LEGACY_BEST_EFFORT"
                     IN  \A b \in DOMAIN fields :
                            Reported(fields[b])
                              <=> (~exempt /\ \E a \in 1 .. b - 1 : Clash(fields[a], fields[b]))
                /\ valErrors = {} =>
                     \A e \in EnumsOf(Files[k]) :
                        \/ Files[k].syntax = "proto2" /\ nodes[e].legacy
                        \/ \A u, v \in Range(Of(Files[k], e, {"value"})) :
                              Stripped(Files[k], e, u) = Stripped(Files[k], e, v) =>
                                 nodes[u].number = nodes[v].number

\* featureTargets (cli.go:3281), a table the program has and does not look at.
Target(kind) == IF kind \in FieldKinds \cup {"extension"} THEN "field" ELSE kind
TargetsOf(feature) ==
    CASE feature = "enum_type" -> {"file", "enum"}
      [] feature = "json_format" -> {"file", "message", "enum"}
      [] OTHER -> {"file", "field"}

\* What a feature must find in a field that sets it.
Fits(d, feature) ==
    CASE feature = "field_presence" -> ~Repeated(d) /\ d.oneof = 0 /\ d.kind # "extension"
      [] feature = "repeated_field_encoding" -> Repeated(d)
      [] feature = "message_encoding" -> d.kind # "map" /\ TypeOf(d) = "message"
      [] feature = "utf8_validation" -> TypeOf(d) = "string"
      [] OTHER -> TRUE

\* The nearest setting of a feature, at a declaration or around it.
Effective(file, feature, unset) ==
    LET value[i \in 0 .. Len(file.nodes)] ==
            LET d == IF i = 0 THEN file ELSE file.nodes[i]
            IN  IF Sets(d, feature) THEN d.features[feature]
                ELSE IF i = 0 THEN unset ELSE value[d.in]
    IN  value

FeaturesFit(file) ==
    LET open == Effective(file, "enum_type", IF file.syntax = "proto2" THEN "CLOSED" ELSE "OPEN")
    IN  /\ \A e \in EnumsOf(file) :
             LET values == Of(file, e, {"value"})
             IN  open[e] = "OPEN" /\ values # <<>> => file.nodes[values[1]].number = 0
        /\ file.syntax # "editions" =>
             file.features = <<>> /\ \A d \in Range(file.nodes) : d.features = <<>>
        /\ file.syntax = "editions" =>
             /\ ~ (Sets(file, "field_presence") /\ Required(file))
             /\ \A d \in Range(file.nodes) :
                  /\ d.kind # "group"
                  /\ \A feature \in DOMAIN d.features :
                       /\ Target(d.kind) \in TargetsOf(feature)
                       /\ Target(d.kind) = "field" => Fits(d, feature)

\* A message field that sets its encoding is named like the entry type of a map beside it,
\* and is not one.
TakenForMap(file, d) ==
    /\ file.syntax = "editions" /\ Sets(d, "message_encoding")
    /\ d.kind \in FieldKinds \ {"map"} /\ TypeOf(d) = "message"
    /\ \E e \in Range(file.nodes) :
          e.kind = "map" /\ e.in = d.in /\ Last(d.message) = Append(toCamelCase(e.name), "Entry")

\* What an option or a default must find in a field; of the defaults of extensions the
\* code asks nothing.
OptionsFit(k, d) ==
    /\ "packed" \in d.options => Repeated(d) /\ TypeOf(d) \in {"int32", "int64", "float", "enum"}
    /\ "lazy" \in d.options => TypeOf(d) \in {"message", "group"}
    /\ "jstype" \in d.options => TypeOf(d) = "int64"
    /\ HasDefault(d) /\ d.kind # "extension" =>
         /\ ~Repeated(d) /\ TypeOf(d) \notin {"message", "group"}
         /\ Files[k].syntax # "proto3"
         /\ TypeOf(d) = "enum" =>
              \E c \in Declarations : c.as = "value" /\ c.full = Front(d.enum) \o <<d.default>>
                                      /\ FullName(Files[c.file], Files[c.file].nodes[c.node].in) = d.enum

\* What proto3 has.
IsProto3(d) ==
    /\ d.kind # "group" /\ d.label # "required"
    /\ d.kind = "extension" => d.extendee = OptionMessage
    /\ ~d.messageSet /\ ~d.ranges

\* Extensions have no JSON name, are not required, and in a message set are messages; keys
\* are numbers and strings.
MayStand(d) ==
    /\ d.kind = "map" => d.key \in {"int32", "int64", "string"}
    /\ d.kind = "extension" =>
         /\ ~Explicit(d) /\ d.label # "required"
         /\ (\E k \in DOMAIN Files : \E i \in Bodies(Files[k]) :
               Files[k].nodes[i].messageSet /\ FullName(Files[k], i) = d.extendee)
              => d.label = "singular" /\ d.type = "message"

OfRules == {w \in valErrors : w.what \notin {"JsonNameConflicts", "EnumPrefixConflict"}}

\* A descriptor is accepted exactly if each declaration can be what it says, but that one
\* mistake is made: a message field that sets its encoding, whose type has the name of the
\* entry type of a map of its message, is refused though it fits, since maps are told by
\* that name alone (collectMessageEncodingScalarErrors, cli.go:3865-3890).  Phase 1 lets
\* through what MayStand; phase 2 what has options and defaults that fit, uses no more than
\* its syntax has, and has features that are coherent: none outside editions, each set on
\* something it means anything for, the nearest setting, around an enum or on it, opening
\* only enums that start at zero, and being required set on fields one by one.  The code
\* asks some twenty-five validators (cli.go:2069-6126), each with a walk of its own over
\* files, messages, extensions, groups and map entries.
DescriptorsAreSound ==
    /\ ruled = Len(Rules) =>
         (ruleErrors = {} <=> \A k \in DOMAIN Files : \A d \in Range(Files[k].nodes) : MayStand(d))
    /\ DescriptorsDecided =>
         (OfRules = {} <=>
            \A k \in DOMAIN Files :
               /\ FeaturesFit(Files[k])
               /\ \A d \in Range(Files[k].nodes) :
                     /\ d.kind \in FieldKinds \cup {"extension"} => OptionsFit(k, d)
                     /\ Files[k].syntax = "proto3" => IsProto3(d)
                     /\ ~TakenForMap(Files[k], d))

\* What an edition finds in the defaults written: the newest entry not after it.
Read(edition) ==
    LET at_ == {k \in DOMAIN written[1].entries : written[1].entries[k].edition <= edition}
    IN  IF at_ = {} THEN {} ELSE LET entry == written[1].entries[Max(at_)]
                                 IN  entry.overridable \cup entry.fixed

\* What a feature is by default in an edition: the value of its newest default that is not
\* after the edition, of several the first.  A word for a bool is false unless it is true.
Newest(x, edition) ==
    LET old == {k \in DOMAIN x.defaults : x.defaults[k].edition <= edition}
        newest == {k \in old : \A j \in old : x.defaults[j].edition <= x.defaults[k].edition}
    IN  {k \in newest : \A j \in newest : k <= j}

Meaning(x, word) == IF x.type = {} /\ word # "true" THEN "false" ELSE word
ByDefault(x, edition) ==
    {[number |-> x.number, value |-> Meaning(x, x.defaults[k].value)] : k \in Newest(x, edition)}

\* Every edition up to the maximum finds in the entries written what each feature is by
\* default, and nothing else, whatever the order of the defaults and of the editions they
\* start at and wherever the minimum is (editiondefaults.go); so a feature that none of its
\* defaults reaches is left out.  The entries ascend, and a default that means nothing
\* leaves no file.
DefaultsAreExact ==
    /\ written # <<>> =>
         /\ \A a, b \in DOMAIN written[1].entries :
              a < b => written[1].entries[a].edition < written[1].entries[b].edition
         /\ \A edition \in 1 .. job.pool.maximum :
              Read(edition) = UNION {ByDefault(x, edition) : x \in job.pool.features}
    /\ verdict = "failed" => written = <<>>
===============================================================================
